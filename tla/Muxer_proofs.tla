---------------------------- MODULE Muxer_proofs ----------------------------
(***************************************************************************)
(* Proofs about Flac and Muxer.                                            *)
(*                                                                         *)
(* The codec: a frame of the encoder is read back by the reference         *)
(* decoder, for any block of samples, size, rate, number of channels and   *)
(* frame number that a header has room for.  The proofs follow the layers  *)
(* of a frame.  A code is there in a sequence of bits at a position (At);  *)
(* whatever reads there gets back what the code was made of, and a lemma   *)
(* ...Back says so for numbers, Rice codes, lists of residuals, subframes, *)
(* the fields of the header, the header and the frame.  A recursive        *)
(* function of the model is known by its steps: a function that takes the  *)
(* same steps is equal to it (the lemmas ...Is), by climbing.  That the    *)
(* checksums fit is a matter of polynomials over two elements: a step of   *)
(* the long division does to the bits that are left what Shift does to the *)
(* register (RemainsStep).                                                 *)
(*                                                                         *)
(* The muxers, for any recording, any blocks and packets and any writes    *)
(* that fail: every piece of the file is made of the samples that were     *)
(* recorded at its place, and read back as those; the pieces are in order  *)
(* and each is there once; nothing is missing but what an error was        *)
(* answered for; and the sizes in the header are right.  The proofs speak  *)
(* of a recording r, a constant, wherever they can: the samples of r are   *)
(* cut into parts, a part is made into a piece, and a file is a sequence   *)
(* of such pieces.                                                         *)
(***************************************************************************)
EXTENDS Muxer, FiniteSetTheorems, SequenceTheorems, WellFoundedInduction, TLAPS
-----------------------------------------------------------------------------
(* Numbers.                                                                *)

\* Every nonempty set of naturals has a least element.  Induction follows from
\* it, over a set in place of a predicate.
LEMMA LeastNatural ==
  ASSUME NEW T, T \subseteq Nat, T # {}
  PROVE  \E x \in T : \A y \in T : x <= y
<1> DEFINE R == {ss \in Nat \X Nat : ss[1] < ss[2]}
<1>1. IsWellFoundedOn(R, Nat)
  BY NatLessThanWellFounded DEF OpToRel
<1>2. PICK x \in T : \A y \in T : ~ (<<y, x>> \in R)
  BY <1>1, WFMin
<1>3. ASSUME NEW y \in T PROVE x <= y
  <2>1. <<y, x>> \in Nat \X Nat /\ <<y, x>>[1] = y /\ <<y, x>>[2] = x
    OBVIOUS
  <2>2. ~ (y < x)
    BY <1>2, <2>1
  <2> QED BY <2>2
<1> QED BY <1>3

\* Induction up to a bound, over a set.
LEMMA Climb ==
  ASSUME NEW n \in Nat, NEW T, 0 \in T,
         \A m \in 0 .. n : m \in T /\ m < n => m + 1 \in T
  PROVE  0 .. n \subseteq T
<1> DEFINE missing == (0 .. n) \ T
<1>1. SUFFICES ASSUME missing # {} PROVE FALSE
  OBVIOUS
<1>2. missing \subseteq Nat
  OBVIOUS
<1>3. PICK x \in missing : \A y \in missing : x <= y
  <2> HIDE DEF missing
  <2> QED BY <1>1, <1>2, LeastNatural
<1>4. x # 0 /\ x - 1 \in 0 .. n /\ x - 1 < n
  OBVIOUS
<1>5. x - 1 \in T
  BY <1>3, <1>4
<1>6. x \in T
  BY <1>4, <1>5
<1> QED BY <1>6

\* A remainder is known by its range.
LEMMA ModIs ==
  ASSUME NEW x \in Int, NEW w \in Nat \ {0}, NEW p \in Int, NEW m \in 0 .. w - 1,
         x = w * p + m
  PROVE  x % w = m
<1> DEFINE q == x \div w
           r == x % w
           d == p - q
<1>1. q \in Int /\ r \in 0 .. w - 1 /\ x = w * q + r
  OBVIOUS
<1> HIDE DEF q, r
<1>2. w * d = r - m /\ d \in Int
  <2>1. w * (p - q) = w * p - w * q
    BY <1>1
  <2> QED BY <1>1, <2>1
<1> HIDE DEF d
<1>3. d = 0
  <2>1. d >= 1 => w * d >= w
    BY <1>2
  <2>2. d <= -1 => w * d <= -w
    BY <1>2
  <2> QED BY <1>1, <1>2, <2>1, <2>2
<1>4. w * d = 0
  BY <1>3
<1>5. r = m
  BY <1>1, <1>2, <1>4
<1> QED BY <1>5 DEF r

\* A quotient is known by the range of what is left.
LEMMA DivIs ==
  ASSUME NEW x \in Int, NEW w \in Nat \ {0}, NEW p \in Int, NEW m \in 0 .. w - 1,
         x = w * p + m
  PROVE  x \div w = p
<1> DEFINE q == x \div w
           r == x % w
<1>1. q \in Int /\ r \in 0 .. w - 1 /\ x = w * q + r
  OBVIOUS
<1> HIDE DEF q, r
<1>2. r = m
  <2>1. x % w = m
    BY ModIs
  <2> QED BY <2>1 DEF r
<1>3. w * q = w * p
  BY <1>1, <1>2
<1>4. w * (q - p) = 0
  <2>1. w * (q - p) = w * q - w * p
    BY <1>1
  <2> QED BY <1>1, <1>3, <2>1
<1> DEFINE d == q - p
<1>5. d \in Int /\ w * d = 0
  BY <1>1, <1>4
<1> HIDE DEF d
<1>6. d = 0
  BY <1>5
<1> QED BY <1>1, <1>6 DEF q, d
-----------------------------------------------------------------------------
(* Powers of two.                                                          *)

\* The first powers.
PowersTo(n, g) == g = [i \in 0 .. n |-> IF i = 0 THEN 1 ELSE 2 * g[i - 1]]

\* Those powers exist: a recursive function does, if every step can be taken.
LEMMA PowersExist ==
  ASSUME NEW n \in Nat
  PROVE  \E g : PowersTo(n, g)
<1> DEFINE T == {m \in 0 .. n : \E g : PowersTo(m, g)}
<1>1. 0 \in T
  <2> DEFINE g == [i \in 0 .. 0 |-> 1]
  <2>1. PowersTo(0, g)
    BY DEF PowersTo
  <2> HIDE DEF g
  <2> QED BY <2>1
<1>2. ASSUME NEW m \in 0 .. n, m \in T, m < n PROVE m + 1 \in T
  <2>1. PICK g : PowersTo(m, g)
    BY <1>2
  <2> DEFINE h == [i \in 0 .. m + 1 |-> IF i = m + 1 THEN 2 * g[m] ELSE g[i]]
  <2>2. ASSUME NEW i \in 0 .. m + 1
        PROVE  h[i] = IF i = 0 THEN 1 ELSE 2 * h[i - 1]
    <3>1. CASE i = m + 1
      BY <3>1
    <3>2. CASE i \in 0 .. m
      <4>1. h[i] = g[i] /\ (i # 0 => h[i - 1] = g[i - 1])
        BY <3>2
      <4>2. g[i] = IF i = 0 THEN 1 ELSE 2 * g[i - 1]
        BY <2>1, <3>2 DEF PowersTo
      <4> QED BY <4>1, <4>2
    <3> QED BY <3>1, <3>2
  <2>3. h = [i \in 0 .. m + 1 |-> h[i]]
    OBVIOUS
  <2>4. PowersTo(m + 1, h)
    BY <2>2, <2>3 DEF PowersTo
  <2> HIDE DEF h
  <2> QED BY <1>2, <2>4
<1>3. 0 .. n \subseteq T
  <2> HIDE DEF T
  <2> QED BY <1>1, <1>2, Climb
<1> QED BY <1>3

\* Pow2 is the last of them.
LEMMA PowerIs ==
  ASSUME NEW n \in Nat
  PROVE  \E g : PowersTo(n, g) /\ Pow2(n) = g[n]
<1> DEFINE g == CHOOSE x : PowersTo(n, x)
<1>1. PowersTo(n, g)
  BY PowersExist
<1>2. Pow2(n) = g[n]
  BY Zenon DEF Pow2, PowersTo
<1> QED BY <1>1, <1>2

\* What the other lemmas use.
LEMMA Pow2Is ==
  ASSUME NEW n \in Nat
  PROVE  /\ Pow2(0) = 1 /\ Pow2(n + 1) = 2 * Pow2(n)
         /\ Pow2(n) \in Nat /\ Pow2(n) >= 1
<1>1. PICK g : PowersTo(n, g) /\ Pow2(n) = g[n]
  BY PowerIs
<1>2. PICK h : PowersTo(n + 1, h) /\ Pow2(n + 1) = h[n + 1]
  BY PowerIs
<1>3. Pow2(0) = 1
  <2>1. PICK z : PowersTo(0, z) /\ Pow2(0) = z[0]
    BY PowerIs
  <2> QED BY <2>1 DEF PowersTo
<1> DEFINE T == {i \in 0 .. n : h[i] = g[i] /\ g[i] \in Nat /\ g[i] >= 1}
<1>4. 0 \in T
  BY <1>1, <1>2 DEF PowersTo
<1>5. ASSUME NEW m \in 0 .. n, m \in T, m < n PROVE m + 1 \in T
  <2>1. g[m + 1] = 2 * g[m] /\ h[m + 1] = 2 * h[m]
    BY <1>1, <1>2, <1>5 DEF PowersTo
  <2> QED BY <1>5, <2>1
<1>6. 0 .. n \subseteq T
  <2> HIDE DEF T
  <2> QED BY <1>4, <1>5, Climb
<1>7. h[n + 1] = 2 * h[n]
  BY <1>2 DEF PowersTo
<1> QED BY <1>1, <1>2, <1>3, <1>6, <1>7

\* The bit of a quotient that the next power takes off.
LEMMA HalfDiv ==
  ASSUME NEW v \in Int, NEW n \in Nat
  PROVE  /\ v \div Pow2(n) = 2 * (v \div Pow2(n + 1)) + ((v \div Pow2(n)) % 2)
         /\ v \div Pow2(n) \in Int
<1> DEFINE p == Pow2(n)
           q == v \div p
           r == v % p
           z == q \div 2
           b == q % 2
<1>1. p \in Nat \ {0} /\ Pow2(n + 1) = 2 * p
  BY Pow2Is
<1> HIDE DEF p
<1>2. q \in Int /\ r \in 0 .. p - 1 /\ v = p * q + r
  BY <1>1
<1> HIDE DEF q, r
<1>3. z \in Int /\ b \in {0, 1} /\ q = 2 * z + b
  BY <1>2
<1> HIDE DEF z, b
<1>4. v = (2 * p) * z + (p * b + r) /\ p * b + r \in 0 .. 2 * p - 1
  <2>1. v = p * (2 * z + b) + r
    BY <1>2, <1>3
  <2>2. p * (2 * z + b) = (2 * p) * z + p * b
    BY <1>1, <1>3
  <2>3. p * b = IF b = 0 THEN 0 ELSE p
    BY <1>1, <1>3
  <2> QED BY <1>1, <1>2, <1>3, <2>1, <2>2, <2>3
<1>5. v \div (2 * p) = z
  <2> DEFINE w == 2 * p
             m == p * b + r
  <2>1. w \in Nat \ {0} /\ m \in 0 .. w - 1 /\ v = w * z + m
    BY <1>1, <1>4
  <2> HIDE DEF w, m
  <2>2. v \div w = z
    BY <1>3, <2>1, DivIs
  <2> QED BY <2>2 DEF w
<1>6. v \div Pow2(n) = q /\ (v \div Pow2(n)) % 2 = b /\ v \div Pow2(n + 1) = z
  <2>1. v \div Pow2(n) = q
    BY DEF p, q
  <2>2. q % 2 = b
    BY DEF b
  <2>3. v \div Pow2(n + 1) = z
    BY <1>1, <1>5
  <2> QED BY <2>1, <2>2, <2>3
<1> QED BY <1>2, <1>3, <1>6

-----------------------------------------------------------------------------
(* Codes in a sequence of bits.                                            *)

\* What a bit is.
Binary == {0, 1}

\* The code is there at pos.
At(bits, pos, code) ==
  /\ pos \in Nat \ {0} /\ pos + Len(code) <= Len(bits) + 1
  /\ \A i \in 1 .. Len(code) : bits[pos + i - 1] = code[i]

\* Two codes, one after the other.
LEMMA Joined ==
  ASSUME NEW a \in Seq(Binary), NEW b \in Seq(Binary)
  PROVE  a \o b \in Seq(Binary) /\ Len(a \o b) = Len(a) + Len(b) /\ Len(a) \in Nat /\ Len(b) \in Nat
OBVIOUS

\* The parts of a code are there one after the other.
LEMMA AtParts ==
  ASSUME NEW bits \in Seq(Binary), NEW pos, NEW a \in Seq(Binary), NEW b \in Seq(Binary),
         At(bits, pos, a \o b)
  PROVE  At(bits, pos, a) /\ At(bits, pos + Len(a), b)
<1>1. /\ Len(a \o b) = Len(a) + Len(b) /\ Len(a) \in Nat /\ Len(b) \in Nat /\ Len(bits) \in Nat
      /\ \A i \in 1 .. Len(a) : (a \o b)[i] = a[i]
      /\ \A i \in 1 .. Len(b) : (a \o b)[Len(a) + i] = b[i]
  OBVIOUS
<1> DEFINE c == a \o b
<1>2. /\ pos \in Nat \ {0} /\ pos + Len(c) <= Len(bits) + 1
      /\ \A i \in 1 .. Len(c) : bits[pos + i - 1] = c[i]
  BY DEF At
<1> HIDE DEF c
<1>3. ASSUME NEW i \in 1 .. Len(a) PROVE bits[pos + i - 1] = a[i]
  <2>1. i \in 1 .. Len(c) /\ c[i] = a[i]
    BY <1>1 DEF c
  <2> QED BY <1>2, <2>1
<1>4. ASSUME NEW i \in 1 .. Len(b) PROVE bits[(pos + Len(a)) + i - 1] = b[i]
  <2>1. Len(a) + i \in 1 .. Len(c) /\ c[Len(a) + i] = b[i]
    BY <1>1 DEF c
  <2>2. bits[pos + (Len(a) + i) - 1] = c[Len(a) + i]
    BY <1>2, <2>1
  <2>3. pos + (Len(a) + i) - 1 = (pos + Len(a)) + i - 1
    BY <1>1, <1>2
  <2> QED BY <2>1, <2>2, <2>3
<1>5. Len(c) = Len(a) + Len(b)
  BY <1>1 DEF c
<1> QED BY <1>1, <1>2, <1>3, <1>4, <1>5 DEF At

\* Bits makes a code of the length asked for.
LEMMA BitsAre ==
  ASSUME NEW v \in Int, NEW d \in Nat
  PROVE  Bits(v, d) \in Seq(Binary) /\ Len(Bits(v, d)) = d
<1>1. ASSUME NEW i \in 1 .. d PROVE (v \div Pow2(d - i)) % 2 \in Binary
  <2>1. v \div Pow2(d - i) \in Int
    BY HalfDiv
  <2> DEFINE q == v \div Pow2(d - i)
  <2> HIDE DEF q
  <2>2. q % 2 \in Binary
    BY <2>1 DEF q, Binary
  <2> QED BY <2>2 DEF q
<1>2. Bits(v, d) \in [1 .. d -> Binary]
  BY <1>1 DEF Bits
<1> QED BY <1>2

\* A code without its first bit.
LEMMA BitsTail ==
  ASSUME NEW v \in Int, NEW d \in Nat
  PROVE  /\ Bits(v, d + 1) = <<(v \div Pow2(d)) % 2>> \o Bits(v, d)
<1> DEFINE first == <<(v \div Pow2(d)) % 2>>
           whole == Bits(v, d + 1)
           rest  == Bits(v, d)
<1>1. whole \in Seq(Binary) /\ Len(whole) = d + 1 /\ rest \in Seq(Binary) /\ Len(rest) = d
  BY BitsAre
<1>2. Len(first) = 1 /\ first \o rest \in Seq(Binary) /\ Len(first \o rest) = d + 1
  <2>1. whole[1] = (v \div Pow2(d)) % 2 /\ whole[1] \in Binary
    BY <1>1 DEF Bits
  <2> HIDE DEF whole, rest
  <2> QED BY <1>1, <2>1
<1>3. ASSUME NEW i \in 1 .. d + 1 PROVE whole[i] = (first \o rest)[i]
  <2>1. CASE i = 1
    <3>1. whole[1] = (v \div Pow2(d)) % 2
      BY DEF Bits
    <3>2. (first \o rest)[1] = first[1]
      BY <1>1
    <3> QED BY <2>1, <3>1, <3>2
  <2>2. CASE i # 1
    <3> DEFINE j == i - 1
    <3>1. j \in 1 .. d /\ i = j + 1
      BY <2>2
    <3>2. (first \o rest)[i] = rest[j]
      <4> HIDE DEF rest, j
      <4> QED BY <1>1, <3>1
    <3>3. whole[i] = (v \div Pow2((d + 1) - i)) % 2 /\ rest[j] = (v \div Pow2(d - j)) % 2
      BY <3>1 DEF Bits
    <3>4. (d + 1) - i = d - j
      OBVIOUS
    <3> QED BY <3>2, <3>3, <3>4
  <2> QED BY <2>1, <2>2
<1> HIDE DEF first, whole, rest
<1>4. whole = first \o rest
  <2> DEFINE n == d + 1
             both == first \o rest
  <2>1. n \in Nat /\ whole \in Seq(Binary) /\ Len(whole) = n /\ both \in Seq(Binary) /\ Len(both) = n
    BY <1>1, <1>2
  <2>2. \A i \in 1 .. n : whole[i] = both[i]
    BY <1>3
  <2> HIDE DEF n, both
  <2>3. whole = [i \in 1 .. n |-> whole[i]] /\ both = [i \in 1 .. n |-> both[i]]
    BY <2>1
  <2>4. [i \in 1 .. n |-> whole[i]] = [i \in 1 .. n |-> both[i]]
    BY <2>2, Zenon
  <2> QED BY <2>3, <2>4 DEF both
<1> QED BY <1>4 DEF first, whole, rest

\* The numbers that are read bit by bit.
ReadTo(bits, pos, n, g) ==
  g = [i \in 0 .. n |-> IF i = 0 THEN 0 ELSE 2 * g[i - 1] + bits[pos + i - 1]]

\* They are known by their recursion.
LEMMA ReadIs ==
  ASSUME NEW bits, NEW pos, NEW n \in Nat, NEW g, ReadTo(bits, pos, n, g)
  PROVE  Unsigned(bits, pos, n) = g[n]
<1> DEFINE f == CHOOSE x : ReadTo(bits, pos, n, x)
<1>1. ReadTo(bits, pos, n, f)
  BY Zenon
<1>2. Unsigned(bits, pos, n) = f[n]
  BY Zenon DEF Unsigned, ReadTo
<1> HIDE DEF f
<1> DEFINE T == {i \in 0 .. n : f[i] = g[i]}
<1>3. 0 \in T
  BY <1>1 DEF ReadTo
<1>4. ASSUME NEW m \in 0 .. n, m \in T, m < n PROVE m + 1 \in T
  <2>1. /\ f[m + 1] = 2 * f[m] + bits[pos + (m + 1) - 1]
        /\ g[m + 1] = 2 * g[m] + bits[pos + (m + 1) - 1]
    BY <1>1, <1>4 DEF ReadTo
  <2> QED BY <1>4, <2>1
<1>5. 0 .. n \subseteq T
  <2> HIDE DEF T
  <2> QED BY <1>3, <1>4, Climb
<1> QED BY <1>2, <1>5

\* The first c bits of a number written in d bits are a quotient.
LEMMA UnsignedAt ==
  ASSUME NEW bits \in Seq(Binary), NEW pos, NEW v \in Int, NEW d \in Nat, NEW c \in 0 .. d,
         At(bits, pos, Bits(v, d))
  PROVE  Unsigned(bits, pos, c)
           = (v \div Pow2(d - c)) - Pow2(c) * (v \div Pow2(d))
<1> DEFINE top == v \div Pow2(d)
           g == [i \in 0 .. c |-> (v \div Pow2(d - i)) - Pow2(i) * top]
<1>1. top \in Int
  BY HalfDiv
<1> HIDE DEF top
<1>2. ASSUME NEW i \in 1 .. c
      PROVE  g[i] = 2 * g[i - 1] + bits[pos + i - 1]
  <2> DEFINE hi == v \div Pow2(d - (i - 1))
             lo == v \div Pow2(d - i)
             p  == Pow2(i - 1)
             bit == (v \div Pow2(d - i)) % 2
  <2>1. g[i] = lo - Pow2(i) * top /\ g[i - 1] = hi - p * top
    OBVIOUS
  <2>2. Pow2(i) = 2 * p /\ p \in Nat
    <3>1. i - 1 \in Nat /\ (i - 1) + 1 = i
      OBVIOUS
    <3> QED BY <3>1, Pow2Is
  <2>3. lo = 2 * hi + bit /\ lo \in Int /\ hi \in Int
    <3>1. d - i \in Nat /\ (d - i) + 1 = d - (i - 1) /\ d - (i - 1) \in Nat
      OBVIOUS
    <3> QED BY <3>1, HalfDiv
  <2>4. bits[pos + i - 1] = bit
    <3>1. Len(Bits(v, d)) = d /\ Bits(v, d)[i] = bit
      BY BitsAre DEF Bits
    <3> QED BY <3>1 DEF At
  <2>5. bit \in Int
    <3> HIDE DEF hi, lo, p
    <3>1. lo % 2 \in Int
      BY <2>3
    <3> QED BY <3>1 DEF lo
  <2> HIDE DEF g, hi, lo, p, bit
  <2>6. lo - (2 * p) * top = 2 * (hi - p * top) + bit
    <3>1. (2 * p) * top = 2 * (p * top) /\ p * top \in Int
      BY <1>1, <2>2
    <3> QED BY <2>3, <2>5, <3>1
  <2> QED BY <2>1, <2>2, <2>4, <2>6
<1>3. g[0] = 0
  <2>1. Pow2(0) = 1 /\ d - 0 = d
    BY Pow2Is
  <2>2. g[0] = (v \div Pow2(d)) - Pow2(0) * top
    OBVIOUS
  <2>3. g[0] = top - 1 * top
    BY <2>1, <2>2 DEF top
  <2> QED BY <1>1, <2>3
<1>4. g = [i \in 0 .. c |-> g[i]]
  OBVIOUS
<1>5. g[c] = (v \div Pow2(d - c)) - Pow2(c) * top
  OBVIOUS
<1> HIDE DEF g
<1>6. ReadTo(bits, pos, c, g)
  <2>1. ASSUME NEW i \in 0 .. c
        PROVE  g[i] = IF i = 0 THEN 0 ELSE 2 * g[i - 1] + bits[pos + i - 1]
    BY <1>2, <1>3
  <2>2. [i \in 0 .. c |-> g[i]]
          = [i \in 0 .. c |-> IF i = 0 THEN 0 ELSE 2 * g[i - 1] + bits[pos + i - 1]]
    BY <2>1
  <2> QED BY <1>4, <2>2, Zenon DEF ReadTo
<1>7. Unsigned(bits, pos, c) = g[c]
  BY <1>6, ReadIs
<1> QED BY <1>5, <1>7 DEF top

\* A number that fits is read back.
LEMMA UnsignedBack ==
  ASSUME NEW bits \in Seq(Binary), NEW pos, NEW d \in Nat, NEW v \in 0 .. Pow2(d) - 1,
         At(bits, pos, Bits(v, d))
  PROVE  Unsigned(bits, pos, d) = v
<1>1. Pow2(d) \in Nat /\ Pow2(d) >= 1 /\ Pow2(0) = 1 /\ d - d = 0
  BY Pow2Is
<1>2. v \in Int /\ d \in 0 .. d
  BY <1>1
<1>3. Unsigned(bits, pos, d) = (v \div 1) - Pow2(d) * (v \div Pow2(d))
  BY <1>1, <1>2, UnsignedAt
<1>4. v \div Pow2(d) = 0
  <2> DEFINE p == Pow2(d)
  <2>1. p \in Nat \ {0} /\ v \in 0 .. p - 1 /\ v = p * 0 + v
    BY <1>1
  <2> HIDE DEF p
  <2>2. v \div p = 0
    BY <1>2, <2>1, DivIs
  <2> QED BY <2>2 DEF p
<1>5. v \div 1 = v
  BY <1>2
<1> QED BY <1>1, <1>2, <1>3, <1>4, <1>5

\* A negative number in two's complement, too.
LEMMA SignedBack ==
  ASSUME NEW bits \in Seq(Binary), NEW pos, NEW d \in Nat,
         NEW v \in -Pow2(d) .. Pow2(d) - 1,
         At(bits, pos, Bits(v, d + 1))
  PROVE  Signed(bits, pos, d + 1) = v
<1> DEFINE p == Pow2(d)
           w == 2 * p
<1>1. p \in Nat /\ p >= 1 /\ Pow2(0) = 1 /\ (d + 1) - (d + 1) = 0 /\ Pow2(d + 1) = w
  BY Pow2Is
<1>2. v \in Int /\ d + 1 \in Nat /\ d + 1 \in 0 .. d + 1
  BY <1>1
<1>3. Unsigned(bits, pos, d + 1) = (v \div 1) - w * (v \div w)
  BY <1>1, <1>2, UnsignedAt
<1>4. v \div w = (IF v < 0 THEN -1 ELSE 0) /\ v \div p = (IF v < 0 THEN -1 ELSE 0)
  <2>1. v \in -p .. p - 1 /\ w = 2 * p
    OBVIOUS
  <2> HIDE DEF p, w
  <2>2. CASE v < 0
    <3>1. w \in Nat \ {0} /\ w + v \in 0 .. w - 1 /\ v = w * (-1) + (w + v)
      BY <1>1, <1>2, <2>1, <2>2
    <3>2. p \in Nat \ {0} /\ p + v \in 0 .. p - 1 /\ v = p * (-1) + (p + v)
      BY <1>1, <1>2, <2>1, <2>2
    <3> QED BY <1>2, <2>2, <3>1, <3>2, DivIs
  <2>3. CASE ~ (v < 0)
    <3>1. w \in Nat \ {0} /\ v \in 0 .. w - 1 /\ v = w * 0 + v
      BY <1>1, <1>2, <2>1, <2>3
    <3>2. p \in Nat \ {0} /\ v \in 0 .. p - 1 /\ v = p * 0 + v
      BY <1>1, <1>2, <2>1, <2>3
    <3> QED BY <1>2, <2>3, <3>1, <3>2, DivIs
  <2> QED BY <2>2, <2>3
<1>5. bits[pos] = IF v < 0 THEN 1 ELSE 0
  <2>1. Len(Bits(v, d + 1)) = d + 1 /\ Bits(v, d + 1)[1] = (v \div Pow2((d + 1) - 1)) % 2
    BY <1>2, BitsAre DEF Bits
  <2>2. bits[pos + 1 - 1] = Bits(v, d + 1)[1] /\ pos \in Nat
    BY <2>1 DEF At
  <2>3. pos + 1 - 1 = pos /\ (d + 1) - 1 = d
    BY <2>2
  <2>4. bits[pos] = (v \div p) % 2
    BY <2>1, <2>2, <2>3
  <2> DEFINE y == v \div p
  <2>5. y = (IF v < 0 THEN -1 ELSE 0) /\ y \in Int /\ bits[pos] = y % 2
    BY <1>2, <1>4, <2>4
  <2> HIDE DEF p, y
  <2>6. CASE v < 0
    <3>1. 2 \in Nat \ {0} /\ y = 2 * y + 1 /\ 1 \in 0 .. 2 - 1
      BY <2>5, <2>6
    <3>2. y % 2 = 1
      BY <2>5, <3>1, ModIs
    <3> QED BY <2>5, <2>6, <3>2
  <2>7. CASE ~ (v < 0)
    BY <2>5, <2>7
  <2> QED BY <2>6, <2>7
<1>6. v \div 1 = v
  BY <1>2
<1>7. Signed(bits, pos, d + 1)
        = Unsigned(bits, pos, d + 1) - (IF bits[pos] = 1 THEN Pow2(d + 1) ELSE 0)
  BY DEF Signed
<1> HIDE DEF w
<1>8. Signed(bits, pos, d + 1)
        = (v - w * (IF v < 0 THEN -1 ELSE 0)) - (IF (IF v < 0 THEN 1 ELSE 0) = 1 THEN w ELSE 0)
  BY <1>1, <1>3, <1>4, <1>5, <1>6, <1>7
<1>9. w \in Int
  BY <1>1 DEF w
<1> QED BY <1>2, <1>8, <1>9

-----------------------------------------------------------------------------
(* Residuals.                                                              *)

\* Unary codes are zeros and a one.
LEMMA UnaryIs ==
  ASSUME NEW q \in Nat
  PROVE  /\ Unary(q) \in Seq(Binary) /\ Len(Unary(q)) = q + 1
         /\ \A i \in 1 .. q : Unary(q)[i] = 0
         /\ Unary(q)[q + 1] = 1
<1>1. Bits(1, q + 1) \in Seq(Binary) /\ Len(Bits(1, q + 1)) = q + 1
  BY BitsAre
<1>2. ASSUME NEW i \in 1 .. q PROVE Bits(1, q + 1)[i] = 0
  <2> DEFINE p == Pow2((q + 1) - i)
  <2>1. p \in Nat /\ p >= 2
    <3>1. (q + 1) - i = (q - i) + 1 /\ q - i \in Nat
      OBVIOUS
    <3>2. Pow2((q - i) + 1) = 2 * Pow2(q - i) /\ Pow2(q - i) \in Nat /\ Pow2(q - i) >= 1
      BY <3>1, Pow2Is
    <3> QED BY <3>1, <3>2
  <2>2. Bits(1, q + 1)[i] = (1 \div p) % 2
    BY DEF Bits
  <2> HIDE DEF p
  <2>3. p \in Nat \ {0} /\ 1 \in 0 .. p - 1 /\ 1 = p * 0 + 1
    BY <2>1
  <2>4. 1 \div p = 0
    BY <2>3, DivIs
  <2> QED BY <2>2, <2>4
<1>3. Bits(1, q + 1)[q + 1] = 1
  <2>1. Bits(1, q + 1)[q + 1] = (1 \div Pow2((q + 1) - (q + 1))) % 2
    BY DEF Bits
  <2>2. (q + 1) - (q + 1) = 0 /\ Pow2(0) = 1
    BY Pow2Is
  <2> QED BY <2>1, <2>2
<1> QED BY <1>1, <1>2, <1>3 DEF Unary

\* The zeros of a unary code are its number.
LEMMA ZerosBack ==
  ASSUME NEW bits \in Seq(Binary), NEW pos, NEW q \in Nat, At(bits, pos, Unary(q))
  PROVE  Zeros(bits, pos) = q
<1> DEFINE ends(n) == bits[pos + n] = 1 /\ \A m \in 0 .. n - 1 : bits[pos + m] = 0
           room == 0 .. Len(bits) - pos
           u == Unary(q)
<1>0. Len(u) = q + 1 /\ (\A i \in 1 .. q : u[i] = 0) /\ u[q + 1] = 1
  BY UnaryIs
<1>1. /\ pos \in Nat /\ Len(bits) \in Nat /\ pos + (q + 1) <= Len(bits) + 1
      /\ \A i \in 1 .. q + 1 : bits[pos + i - 1] = u[i]
  <2>1. At(bits, pos, u)
    OBVIOUS
  <2> HIDE DEF u
  <2> QED BY <1>0, <2>1 DEF At
<1> HIDE DEF u
<1>2. ASSUME NEW m \in 0 .. q - 1 PROVE bits[pos + m] = 0
  <2>1. m + 1 \in 1 .. q /\ m + 1 \in 1 .. q + 1 /\ pos + (m + 1) - 1 = pos + m
    BY <1>1
  <2> QED BY <1>0, <1>1, <2>1
<1>3. bits[pos + q] = 1
  <2>1. q + 1 \in 1 .. q + 1 /\ pos + (q + 1) - 1 = pos + q
    BY <1>1
  <2> QED BY <1>0, <1>1, <2>1
<1>4. q \in room /\ ends(q)
  BY <1>1, <1>2, <1>3
<1>5. ASSUME NEW n \in room, ends(n) PROVE n = q
  <2>1. CASE n < q
    <3>1. n \in 0 .. q - 1
      BY <2>1
    <3> QED BY <1>2, <1>5, <3>1
  <2>2. CASE q < n
    <3>1. q \in 0 .. n - 1
      BY <2>2
    <3> QED BY <1>3, <1>5, <3>1
  <2>3. n \in Int
    BY <1>1
  <2> QED BY <2>1, <2>2, <2>3
<1>6. Zeros(bits, pos) = CHOOSE n \in room : ends(n)
  BY DEF Zeros
<1> HIDE DEF ends, room
<1> QED BY <1>4, <1>5, <1>6

\* The folding of signs is undone by the reader.
LEMMA FoldBack ==
  ASSUME NEW r \in Int
  PROVE  /\ Fold(r) \in Nat
         /\ r = IF Fold(r) % 2 = 0 THEN Fold(r) \div 2 ELSE -(Fold(r) + 1) \div 2
<1>1. CASE r >= 0
  <2>1. Fold(r) = 2 * r
    BY <1>1 DEF Fold
  <2>2. (2 * r) % 2 = 0 /\ (2 * r) \div 2 = r
    OBVIOUS
  <2> QED BY <1>1, <2>1, <2>2
<1>2. CASE ~ (r >= 0)
  <2> DEFINE f == Fold(r)
             n == -r
  <2>1. f = 2 * n - 1 /\ n \in Nat /\ n >= 1 /\ r = -n
    BY <1>2 DEF Fold
  <2> HIDE DEF f, n
  <2>2. f \in Nat /\ f % 2 = 1 /\ (f + 1) \div 2 = n
    BY <2>1
  <2>3. -(f + 1) \div 2 = -n
    BY <2>2
  <2> QED BY <2>1, <2>2, <2>3 DEF f
<1> QED BY <1>1, <1>2

\* A Rice code is read back, whatever the parameter.
LEMMA RiceBack ==
  ASSUME NEW bits \in Seq(Binary), NEW pos, NEW r \in Int, NEW k \in Nat,
         At(bits, pos, Rice(r, k))
  PROVE  RiceAt(bits, pos, k) = [pos |-> pos + Len(Rice(r, k)), value |-> r]
<1> DEFINE f == Fold(r)
           p == Pow2(k)
           q == f \div p
           low == Unsigned(bits, pos + q + 1, k)
<1>1. f \in Nat /\ p \in Nat \ {0}
  BY FoldBack, Pow2Is
<1>2. q \in Nat
  <2> HIDE DEF f, p
  <2> QED BY <1>1
<1>3. /\ Unary(q) \in Seq(Binary) /\ Len(Unary(q)) = q + 1
      /\ Bits(f, k) \in Seq(Binary) /\ Len(Bits(f, k)) = k
  <2>1. f \in Int
    BY <1>1
  <2> HIDE DEF f, q
  <2>2. Unary(q) \in Seq(Binary) /\ Len(Unary(q)) = q + 1
    BY <1>2, UnaryIs
  <2>3. Bits(f, k) \in Seq(Binary) /\ Len(Bits(f, k)) = k
    BY <2>1, BitsAre
  <2> QED BY <2>2, <2>3
<1>4. Rice(r, k) = Unary(q) \o Bits(f, k)
  BY DEF Rice
<1> DEFINE u == Unary(q)
           b == Bits(f, k)
<1> HIDE DEF f, q, u, b
<1>5. At(bits, pos, Unary(q)) /\ At(bits, pos + (q + 1), Bits(f, k)) /\ pos \in Nat
  <2>1. u \in Seq(Binary) /\ Len(u) = q + 1 /\ b \in Seq(Binary) /\ At(bits, pos, u \o b)
    BY <1>3, <1>4 DEF u, b
  <2>2. At(bits, pos, u) /\ At(bits, pos + Len(u), b)
    BY <2>1, AtParts
  <2>3. pos \in Nat
    BY <2>2 DEF At
  <2> QED BY <2>1, <2>2, <2>3 DEF u, b
<1>6. Zeros(bits, pos) = q
  BY <1>2, <1>5, ZerosBack
<1>7. low = f - p * q
  <2>1. pos + q + 1 = pos + (q + 1) /\ k - k = 0 /\ k \in 0 .. k /\ Pow2(0) = 1
    BY <1>2, <1>5, Pow2Is
  <2>2. Unsigned(bits, pos + (q + 1), k) = (f \div Pow2(k - k)) - Pow2(k) * (f \div Pow2(k))
    BY <1>1, <1>5, <2>1, UnsignedAt
  <2>3. f \div 1 = f
    BY <1>1
  <2> QED BY <2>1, <2>2, <2>3 DEF q
<1> HIDE DEF low, p
<1>8. q * p + low = f
  <2>1. q * p = p * q /\ p * q \in Int
    BY <1>1, <1>2
  <2> QED BY <1>1, <1>7, <2>1
<1>9. Len(Rice(r, k)) = q + 1 + k
  <2>1. /\ u \in Seq(Binary) /\ Len(u) = q + 1 /\ b \in Seq(Binary) /\ Len(b) = k
        /\ Rice(r, k) = u \o b
    BY <1>3, <1>4 DEF u, b
  <2>2. Len(u \o b) = Len(u) + Len(b)
    BY <2>1, Joined
  <2> QED BY <1>2, <2>1, <2>2
<1>10. RiceAt(bits, pos, k)
         = [pos |-> pos + q + 1 + k,
            value |-> IF (q * p + low) % 2 = 0 THEN (q * p + low) \div 2
                      ELSE -((q * p + low) + 1) \div 2]
  BY <1>6 DEF RiceAt, low, p
<1>11. r = IF f % 2 = 0 THEN f \div 2 ELSE -(f + 1) \div 2
  BY FoldBack DEF f
<1>12. pos + Len(Rice(r, k)) = pos + q + 1 + k
  BY <1>2, <1>5, <1>9
<1> QED BY <1>8, <1>10, <1>11, <1>12

-----------------------------------------------------------------------------
(* Codes one after the other.                                              *)

\* The first codes, joined.
FlattenTo(codes, n, g) ==
  g = [i \in 1 .. n |-> IF i = 1 THEN codes[i] ELSE g[i - 1] \o codes[i]]

\* Those beginnings exist, and are sequences of bits.
LEMMA FlattenExists ==
  ASSUME NEW codes \in Seq(Seq(Binary))
  PROVE  \E g \in [1 .. Len(codes) -> Seq(Binary)] : FlattenTo(codes, Len(codes), g)
<1> DEFINE n == Len(codes)
           built(m) == \E g \in [1 .. m -> Seq(Binary)] : FlattenTo(codes, m, g)
           T == {m \in 0 .. n : built(m)}
<1>0. n \in Nat /\ \A i \in 1 .. n : codes[i] \in Seq(Binary)
  OBVIOUS
<1> HIDE DEF n
<1>1. 0 \in T
  <2> DEFINE g == [i \in 1 .. 0 |-> <<>>]
  <2>1. FlattenTo(codes, 0, g) /\ g \in [1 .. 0 -> Seq(Binary)]
    BY DEF FlattenTo
  <2> HIDE DEF g
  <2>2. built(0)
    BY <2>1
  <2> HIDE DEF built
  <2> QED BY <1>0, <2>2
<1>2. ASSUME NEW m \in 0 .. n, m \in T, m < n PROVE m + 1 \in T
  <2>1. PICK g \in [1 .. m -> Seq(Binary)] : FlattenTo(codes, m, g)
    BY <1>2
  <2> DEFINE next == IF m = 0 THEN codes[1] ELSE g[m] \o codes[m + 1]
             h == [i \in 1 .. m + 1 |-> IF i = m + 1 THEN next ELSE g[i]]
  <2>2. next \in Seq(Binary)
    <3>1. m + 1 \in 1 .. n /\ 1 \in 1 .. n /\ (m # 0 => m \in 1 .. m)
      BY <1>0, <1>2
    <3> QED BY <1>0, <2>1, <3>1, Joined
  <2>3. h \in [1 .. m + 1 -> Seq(Binary)]
    <3> HIDE DEF next
    <3> QED BY <2>1, <2>2
  <2>4. ASSUME NEW i \in 1 .. m + 1
        PROVE  h[i] = IF i = 1 THEN codes[i] ELSE h[i - 1] \o codes[i]
    <3>1. CASE i = m + 1
      <4>1. h[i] = next /\ (i # 1 => h[i - 1] = g[m])
        BY <3>1
      <4> QED BY <3>1, <4>1
    <3>2. CASE i \in 1 .. m
      <4>1. h[i] = g[i] /\ (i # 1 => h[i - 1] = g[i - 1])
        <5> HIDE DEF next
        <5> QED BY <3>2
      <4>2. g[i] = IF i = 1 THEN codes[i] ELSE g[i - 1] \o codes[i]
        BY <2>1, <3>2 DEF FlattenTo
      <4> QED BY <4>1, <4>2
    <3> QED BY <3>1, <3>2
  <2> HIDE DEF next, h
  <2>5. h = [i \in 1 .. m + 1 |-> h[i]]
    BY <2>3
  <2>6. FlattenTo(codes, m + 1, h)
    <3>1. [i \in 1 .. m + 1 |-> h[i]]
            = [i \in 1 .. m + 1 |-> IF i = 1 THEN codes[i] ELSE h[i - 1] \o codes[i]]
      BY <2>4
    <3> QED BY <2>5, <3>1, Zenon DEF FlattenTo
  <2>7. built(m + 1)
    BY <2>3, <2>6
  <2> HIDE DEF built
  <2> QED BY <1>0, <1>2, <2>7
<1>3. 0 .. n \subseteq T
  <2> HIDE DEF T
  <2> QED BY <1>0, <1>1, <1>2, Climb
<1>4. n \in T
  BY <1>0, <1>3
<1> QED BY <1>4 DEF n

\* FlattenSeq is the last of them.
LEMMA FlattenIs ==
  ASSUME NEW codes \in Seq(Seq(Binary)), Len(codes) # 0
  PROVE  \E g \in [1 .. Len(codes) -> Seq(Binary)] :
           FlattenTo(codes, Len(codes), g) /\ FlattenSeq(codes) = g[Len(codes)]
<1> DEFINE n == Len(codes)
           f == CHOOSE x : FlattenTo(codes, n, x)
<1>1. PICK g \in [1 .. n -> Seq(Binary)] : FlattenTo(codes, n, g)
  BY FlattenExists
<1>2. FlattenTo(codes, n, f)
  BY <1>1
<1>3. FlattenSeq(codes) = f[n]
  BY Zenon DEF FlattenSeq, FlattenTo
<1>4. n \in Nat /\ n >= 1
  OBVIOUS
<1> HIDE DEF n, f
<1> DEFINE T == {m \in 0 .. n - 1 : f[m + 1] = g[m + 1]}
<1>5. 0 \in T
  BY <1>1, <1>2, <1>4 DEF FlattenTo
<1>6. ASSUME NEW m \in 0 .. n - 1, m \in T, m < n - 1 PROVE m + 1 \in T
  <2>1. m + 2 \in 1 .. n /\ m + 2 # 1 /\ (m + 2) - 1 = m + 1 /\ (m + 1) + 1 = m + 2
    BY <1>4, <1>6
  <2>2. f[m + 2] = f[m + 1] \o codes[m + 2] /\ g[m + 2] = g[m + 1] \o codes[m + 2]
    BY <1>1, <1>2, <2>1 DEF FlattenTo
  <2>3. f[m + 1] = g[m + 1]
    BY <1>6
  <2>4. f[m + 2] = g[m + 2]
    BY <2>2, <2>3, Zenon
  <2>5. m + 1 \in 0 .. n - 1
    BY <1>4, <1>6
  <2> QED BY <2>1, <2>4, <2>5
<1>7. 0 .. n - 1 \subseteq T
  <2>1. n - 1 \in Nat
    BY <1>4
  <2> HIDE DEF T
  <2> QED BY <1>5, <1>6, <2>1, Climb
<1>8. f[n] = g[n]
  <2>1. n - 1 \in T
    <3> HIDE DEF T
    <3>1. n - 1 \in 0 .. n - 1
      BY <1>4
    <3> QED BY <1>7, <3>1
  <2>2. (n - 1) + 1 = n
    BY <1>4
  <2> QED BY <2>1, <2>2
<1> QED BY <1>1, <1>3, <1>8 DEF n

\* Where each of the codes is.
Marks(bits, codes, at, pos, end) ==
  /\ at \in [0 .. Len(codes) -> Nat \ {0}] /\ at[0] = pos /\ at[Len(codes)] = end
  /\ \A i \in 1 .. Len(codes) : /\ at[i] = at[i - 1] + Len(codes[i])
                                /\ At(bits, at[i - 1], codes[i])

\* Joined codes are there one after the other.
LEMMA FlattenAt ==
  ASSUME NEW bits \in Seq(Binary), NEW codes \in Seq(Seq(Binary)), NEW pos,
         At(bits, pos, FlattenSeq(codes))
  PROVE  \E at : Marks(bits, codes, at, pos, pos + Len(FlattenSeq(codes)))
<1> DEFINE n == Len(codes)
           flat == FlattenSeq(codes)
<1>1. n \in Nat /\ pos \in Nat \ {0} /\ \A i \in 1 .. n : codes[i] \in Seq(Binary)
  BY DEF At
<1>2. CASE n = 0
  <2> DEFINE at == [i \in 0 .. 0 |-> pos]
  <2>1. flat = codes
    BY <1>2 DEF FlattenSeq
  <2>2. pos + Len(flat) = pos
    BY <1>1, <1>2, <2>1
  <2>3. at \in [0 .. 0 -> Nat \ {0}] /\ at[0] = pos
    BY <1>1
  <2> HIDE DEF at, flat
  <2>4. Marks(bits, codes, at, pos, pos)
    BY <1>2, <2>3 DEF Marks
  <2> QED BY <2>2, <2>4 DEF flat
<1>3. CASE n # 0
  <2>1. PICK g \in [1 .. n -> Seq(Binary)] : FlattenTo(codes, n, g) /\ flat = g[n]
    BY <1>3, FlattenIs
  <2> DEFINE at == [i \in 0 .. n |-> IF i = 0 THEN pos ELSE pos + Len(g[i])]
  <2>2. ASSUME NEW i \in 1 .. n
        PROVE  g[i] = (IF i = 1 THEN codes[i] ELSE g[i - 1] \o codes[i]) /\ Len(g[i]) \in Nat
    <3> HIDE DEF n
    <3>1. g[i] = (IF i = 1 THEN codes[i] ELSE g[i - 1] \o codes[i])
      BY <2>1 DEF FlattenTo
    <3>2. g[i] \in Seq(Binary)
      BY <2>1
    <3>3. Len(g[i]) \in Nat
      BY <3>2
    <3> QED BY <3>1, <3>3
  <2> DEFINE T == {m \in 0 .. n - 1 : At(bits, pos, g[n - m])}
  <2>3. 0 \in T
    <3>1. n - 0 = n /\ 0 \in 0 .. n - 1
      BY <1>1, <1>3
    <3> QED BY <2>1, <3>1
  <2>4. ASSUME NEW m \in 0 .. n - 1, m \in T, m < n - 1 PROVE m + 1 \in T
    <3> DEFINE i == n - m
    <3>1. i \in 1 .. n /\ i # 1 /\ i - 1 \in 1 .. n /\ n - (m + 1) = i - 1 /\ m + 1 \in 0 .. n - 1
      BY <1>1, <2>4
    <3>2. At(bits, pos, g[i])
      BY <2>4
    <3> HIDE DEF i, n
    <3>3. g[i] = g[i - 1] \o codes[i] /\ g[i - 1] \in Seq(Binary) /\ codes[i] \in Seq(Binary)
      BY <1>1, <2>1, <2>2, <3>1
    <3>4. At(bits, pos, g[i - 1])
      BY <3>2, <3>3, AtParts
    <3> QED BY <3>1, <3>4
  <2>5. 0 .. n - 1 \subseteq T
    <3>1. n - 1 \in Nat
      BY <1>1, <1>3
    <3> HIDE DEF T, n
    <3> QED BY <2>3, <2>4, <3>1, Climb
  <2>6. ASSUME NEW i \in 1 .. n PROVE At(bits, pos, g[i])
    <3>1. n - i \in 0 .. n - 1 /\ n - (n - i) = i
      BY <1>1
    <3>2. n - i \in T
      <4> HIDE DEF T
      <4> QED BY <2>5, <3>1
    <3> HIDE DEF n
    <3> QED BY <3>1, <3>2
  <2> HIDE DEF T
  <2>7. ASSUME NEW i \in 1 .. n
        PROVE  at[i] = at[i - 1] + Len(codes[i]) /\ At(bits, at[i - 1], codes[i])
    <3>1. CASE i = 1
      <4>1. at[i] = pos + Len(g[1]) /\ at[i - 1] = pos
        BY <3>1
      <4>2. g[1] = codes[i]
        <5> HIDE DEF n
        <5> QED BY <2>2, <3>1
      <4>3. At(bits, pos, g[1])
        BY <2>6, <3>1
      <4> QED BY <4>1, <4>2, <4>3
    <3>2. CASE i # 1
      <4>1. i - 1 \in 1 .. n /\ g[i] = g[i - 1] \o codes[i]
        <5>1. i - 1 \in 1 .. n
          BY <1>1, <3>2
        <5> HIDE DEF n
        <5> QED BY <2>2, <3>2, <5>1
      <4>2. g[i - 1] \in Seq(Binary) /\ codes[i] \in Seq(Binary)
        BY <1>1, <2>1, <4>1
      <4>3. at[i] = pos + Len(g[i]) /\ at[i - 1] = pos + Len(g[i - 1])
        <5>1. i \in 0 .. n /\ i - 1 \in 0 .. n /\ i # 0 /\ i - 1 # 0
          BY <1>1, <3>2, <4>1
        <5> HIDE DEF n
        <5> QED BY <5>1
      <4> HIDE DEF at, n
      <4>4. Len(g[i]) = Len(g[i - 1]) + Len(codes[i]) /\ Len(g[i - 1]) \in Nat /\ Len(codes[i]) \in Nat
        BY <4>1, <4>2, Joined
      <4>5. At(bits, pos, g[i - 1] \o codes[i])
        BY <2>6, <4>1
      <4>6. At(bits, pos + Len(g[i - 1]), codes[i])
        BY <4>2, <4>5, AtParts
      <4>7. pos + (Len(g[i - 1]) + Len(codes[i])) = (pos + Len(g[i - 1])) + Len(codes[i])
        <5> DEFINE x == Len(g[i - 1])
                   y == Len(codes[i])
        <5>1. x \in Nat /\ y \in Nat /\ pos \in Nat
          BY <1>1, <4>4
        <5> HIDE DEF x, y
        <5>2. pos + (x + y) = (pos + x) + y
          BY <5>1
        <5> QED BY <5>2 DEF x, y
      <4> QED BY <4>3, <4>4, <4>6, <4>7
    <3> QED BY <3>1, <3>2
  <2>8. at \in [0 .. n -> Nat \ {0}] /\ at[0] = pos /\ at[n] = pos + Len(flat)
    <3>1. \A i \in 1 .. n : pos + Len(g[i]) \in Nat \ {0}
      BY <1>1, <2>2
    <3> HIDE DEF flat
    <3> QED BY <1>1, <1>3, <2>1, <3>1
  <2> HIDE DEF at
  <2>9. Marks(bits, codes, at, pos, pos + Len(flat))
    BY <2>7, <2>8 DEF Marks
  <2> QED BY <2>9
<1> QED BY <1>2, <1>3

\* What is joined is bits.
LEMMA FlattenType ==
  ASSUME NEW codes \in Seq(Seq(Binary))
  PROVE  FlattenSeq(codes) \in Seq(Binary)
<1>1. CASE Len(codes) = 0
  <2>1. codes = <<>>
    BY <1>1
  <2>2. FlattenSeq(codes) = codes
    BY <1>1 DEF FlattenSeq
  <2>3. <<>> \in Seq(Binary)
    OBVIOUS
  <2> QED BY <2>1, <2>2, <2>3
<1>2. CASE Len(codes) # 0
  <2>1. PICK g \in [1 .. Len(codes) -> Seq(Binary)] : FlattenSeq(codes) = g[Len(codes)]
    BY <1>2, FlattenIs
  <2>2. Len(codes) \in 1 .. Len(codes)
    BY <1>2
  <2> QED BY <2>1, <2>2
<1> QED BY <1>1, <1>2

-----------------------------------------------------------------------------
(* A subframe.                                                             *)

\* A function from 1 .. n is a sequence.
LEMMA Listing ==
  ASSUME NEW S, NEW n \in Nat, NEW f \in [1 .. n -> S]
  PROVE  f \in Seq(S) /\ Len(f) = n
OBVIOUS

\* The widths, for the provers.
LEMMA Widths ==
  /\ SampleBits \in Nat /\ SampleBits >= 1 /\ SampleBits <= 30 /\ RawBits = SampleBits + 1
  /\ RawBits \in Nat /\ RawBits \in 0 .. 31
  /\ Pow2(SampleBits) \in Nat /\ Pow2(SampleBits) >= 1
<1>1. SampleBits \in Nat /\ SampleBits >= 1 /\ SampleBits <= 30 /\ RawBits = SampleBits + 1
  BY FlacAssumption
<1>2. RawBits \in Nat /\ RawBits \in 0 .. 31
  BY FlacAssumption
<1>3. Pow2(SampleBits) \in Nat /\ Pow2(SampleBits) >= 1
  <2>1. SampleBits \in Nat
    BY <1>1
  <2> QED BY <2>1, Pow2Is
<1> QED BY <1>1, <1>2, <1>3

\* Powers that occur as widths of fields.
LEMMA SmallPowers ==
  /\ Pow2(0) = 1 /\ Pow2(1) = 2 /\ Pow2(2) = 4 /\ Pow2(3) = 8 /\ Pow2(4) = 16 /\ Pow2(5) = 32
  /\ Pow2(6) = 64 /\ Pow2(7) = 128 /\ Pow2(8) = 256
<1>1. /\ Pow2(0) = 1 /\ Pow2(0 + 1) = 2 * Pow2(0) /\ Pow2(1 + 1) = 2 * Pow2(1)
      /\ Pow2(2 + 1) = 2 * Pow2(2) /\ Pow2(3 + 1) = 2 * Pow2(3) /\ Pow2(4 + 1) = 2 * Pow2(4)
      /\ Pow2(5 + 1) = 2 * Pow2(5) /\ Pow2(6 + 1) = 2 * Pow2(6) /\ Pow2(7 + 1) = 2 * Pow2(7)
  BY Pow2Is
<1>2. /\ 0 + 1 = 1 /\ 1 + 1 = 2 /\ 2 + 1 = 3 /\ 3 + 1 = 4 /\ 4 + 1 = 5 /\ 5 + 1 = 6
      /\ 6 + 1 = 7 /\ 7 + 1 = 8
  OBVIOUS
<1> QED BY <1>1, <1>2

\* The Rice parameter fits its field and is not the mark of the escape.
LEMMA ParamIs ==
  ASSUME NEW residuals
  PROVE  RiceParam(residuals) \in 0 .. 14
<1> DEFINE mean == FoldLeft(LAMBDA acc, r : acc + Fold(r), 0, residuals) \div Len(residuals)
           below == {k \in 1 .. RawBits : Pow2(k) <= mean}
           log == Cardinality(below)
<1>1. RawBits \in Int
  BY FlacAssumption
<1> HIDE DEF mean
<1>2. IsFiniteSet(1 .. RawBits) /\ below \in SUBSET (1 .. RawBits)
  BY <1>1, FS_Interval
<1> HIDE DEF below
<1>3. IsFiniteSet(below)
  BY <1>2, FS_Subset
<1>4. log \in Nat
  BY <1>3, FS_CardinalityType
<1>5. RiceParam(residuals) = IF log < RiceCap THEN log ELSE RiceCap
  BY DEF RiceParam, below, mean
<1> HIDE DEF log
<1> QED BY <1>4, <1>5, FlacAssumption

\* The residuals of samples.
Range17 == -Pow2(SampleBits) .. Pow2(SampleBits) - 1

\* What a reader finds where the residuals are, each at its mark.
Found(bits, param, raw, at, residuals) ==
  \A i \in 1 .. Len(residuals) :
    CodeAt(bits, at[i - 1], param, raw)
      = [pos |-> at[i], value |-> residuals[i]]

\* Residuals are integers, and their codes bits.
LEMMA RawCodes ==
  ASSUME NEW residuals \in Seq(Range17), NEW codes,
         codes = [i \in DOMAIN residuals |-> Bits(residuals[i], RawBits)]
  PROVE  /\ codes \in Seq(Seq(Binary)) /\ Len(codes) = Len(residuals) /\ Len(residuals) \in Nat
         /\ \A i \in 1 .. Len(residuals) :
              /\ residuals[i] \in Range17 /\ residuals[i] \in Int
              /\ codes[i] = Bits(residuals[i], RawBits) /\ Len(codes[i]) = RawBits
<1> DEFINE n == Len(residuals)
<1>1. n \in Nat /\ DOMAIN residuals = 1 .. n /\ \A i \in 1 .. n : residuals[i] \in Range17
  OBVIOUS
<1>3. ASSUME NEW i \in 1 .. n
      PROVE  /\ residuals[i] \in Int /\ residuals[i] \in Range17
             /\ Bits(residuals[i], RawBits) \in Seq(Binary) /\ Len(Bits(residuals[i], RawBits)) = RawBits
  <2> DEFINE r == residuals[i]
  <2>1. r \in Range17
    BY <1>1
  <2> HIDE DEF r
  <2>2. r \in Int
    BY <2>1, Widths DEF Range17
  <2>3. Bits(r, RawBits) \in Seq(Binary) /\ Len(Bits(r, RawBits)) = RawBits
    BY <2>2, Widths, BitsAre
  <2> QED BY <2>1, <2>2, <2>3 DEF r
<1>4. codes \in [1 .. n -> Seq(Binary)]
  BY <1>1, <1>3
<1>5. codes \in Seq(Seq(Binary)) /\ Len(codes) = n
  BY <1>1, <1>4, Listing
<1>6. ASSUME NEW i \in 1 .. n PROVE codes[i] = Bits(residuals[i], RawBits)
  BY <1>1
<1> QED BY <1>1, <1>3, <1>5, <1>6

\* Their code is a sequence of bits.
LEMMA RawType ==
  ASSUME NEW residuals \in Seq(Range17)
  PROVE  FlattenSeq([i \in DOMAIN residuals |-> Bits(residuals[i], RawBits)]) \in Seq(Binary)
BY RawCodes, FlattenType

\* Escaped residuals are read back.
LEMMA RawBack ==
  ASSUME NEW bits \in Seq(Binary), NEW pos, NEW residuals \in Seq(Range17), NEW flat,
         flat = FlattenSeq([i \in DOMAIN residuals |-> Bits(residuals[i], RawBits)]),
         At(bits, pos, flat)
  PROVE  \E at : /\ at \in [0 .. Len(residuals) -> Nat \ {0}]
                 /\ at[0] = pos /\ at[Len(residuals)] = pos + Len(flat)
                 /\ Found(bits, 15, RawBits, at, residuals)
<1> DEFINE codes == [i \in DOMAIN residuals |-> Bits(residuals[i], RawBits)]
           n == Len(residuals)
<1>1. /\ codes \in Seq(Seq(Binary)) /\ Len(codes) = n
      /\ \A i \in 1 .. n : /\ residuals[i] \in Range17 /\ codes[i] = Bits(residuals[i], RawBits)
                           /\ Len(codes[i]) = RawBits
  BY RawCodes
<1> HIDE DEF codes
<1>2. flat = FlattenSeq(codes)
  BY DEF codes
<1>3. PICK at : Marks(bits, codes, at, pos, pos + Len(flat))
  BY <1>1, <1>2, FlattenAt
<1>4. ASSUME NEW i \in 1 .. n
      PROVE  RawAt(bits, at[i - 1], RawBits) = [pos |-> at[i], value |-> residuals[i]]
  <2> DEFINE r == residuals[i]
             from == at[i - 1]
  <2>1. codes[i] = Bits(r, RawBits) /\ r \in Range17 /\ Len(codes[i]) = RawBits
    BY <1>1
  <2>2. at[i] = from + Len(codes[i]) /\ At(bits, from, codes[i])
    BY <1>1, <1>3 DEF Marks
  <2> HIDE DEF r, from
  <2>3. Signed(bits, from, SampleBits + 1) = r
    BY <2>1, <2>2, SignedBack, Widths DEF Range17
  <2>4. at[i] = from + RawBits
    BY <2>1, <2>2
  <2>5. RawAt(bits, from, RawBits) = [pos |-> from + RawBits, value |-> r]
    BY <2>3, Widths DEF RawAt
  <2>6. RawAt(bits, from, RawBits) = [pos |-> at[i], value |-> r]
    BY <2>4, <2>5
  <2> QED BY <2>6 DEF r, from
<1>5. Found(bits, 15, RawBits, at, residuals)
  BY <1>4 DEF Found, CodeAt
<1>6. at \in [0 .. n -> Nat \ {0}] /\ at[0] = pos /\ at[n] = pos + Len(flat)
  BY <1>1, <1>3 DEF Marks
<1> QED BY <1>5, <1>6

\* Rice codes are bits.
LEMMA RiceType ==
  ASSUME NEW r \in Int, NEW k \in Nat
  PROVE  Rice(r, k) \in Seq(Binary)
<1> DEFINE f == Fold(r)
           p == Pow2(k)
           q == f \div p
<1>1. f \in Nat /\ p \in Nat \ {0}
  BY FoldBack, Pow2Is
<1>2. q \in Nat
  <2> HIDE DEF f, p
  <2> QED BY <1>1
<1> HIDE DEF f, q
<1>3. Unary(q) \in Seq(Binary)
  BY <1>2, UnaryIs
<1>4. Bits(f, k) \in Seq(Binary)
  <2>1. f \in Int
    BY <1>1
  <2> QED BY <2>1, BitsAre
<1>5. Rice(r, k) = Unary(q) \o Bits(f, k)
  BY DEF Rice, f, q
<1> QED BY <1>3, <1>4, <1>5

\* Rice codes in a row: where each begins and ends.
LEMMA RiceCodes ==
  ASSUME NEW residuals \in Seq(Range17), NEW k \in 0 .. 14, NEW codes,
         codes = [i \in DOMAIN residuals |-> Rice(residuals[i], k)]
  PROVE  /\ codes \in Seq(Seq(Binary)) /\ Len(codes) = Len(residuals) /\ Len(residuals) \in Nat
         /\ \A i \in 1 .. Len(residuals) :
              residuals[i] \in Int /\ codes[i] = Rice(residuals[i], k)
<1> DEFINE n == Len(residuals)
<1>1. n \in Nat /\ DOMAIN residuals = 1 .. n /\ \A i \in 1 .. n : residuals[i] \in Range17
  OBVIOUS
<1>2. k \in Nat
  OBVIOUS
<1>3. ASSUME NEW i \in 1 .. n
      PROVE  residuals[i] \in Int /\ Rice(residuals[i], k) \in Seq(Binary)
  <2> DEFINE r == residuals[i]
  <2>1. r \in Range17
    BY <1>1
  <2> HIDE DEF r
  <2>2. r \in Int
    BY <2>1, Widths DEF Range17
  <2>3. Rice(r, k) \in Seq(Binary)
    BY <1>2, <2>2, RiceType
  <2> QED BY <2>2, <2>3 DEF r
<1>4. codes \in [1 .. n -> Seq(Binary)]
  BY <1>1, <1>3
<1>5. codes \in Seq(Seq(Binary)) /\ Len(codes) = n
  BY <1>1, <1>4, Listing
<1>6. ASSUME NEW i \in 1 .. n PROVE codes[i] = Rice(residuals[i], k)
  BY <1>1
<1> QED BY <1>1, <1>3, <1>5, <1>6

\* Their code is a sequence of bits.
LEMMA RiceTypes ==
  ASSUME NEW residuals \in Seq(Range17), NEW k \in 0 .. 14
  PROVE  FlattenSeq([i \in DOMAIN residuals |-> Rice(residuals[i], k)]) \in Seq(Binary)
BY RiceCodes, FlattenType

\* Rice codes are read back.
LEMMA RicesBack ==
  ASSUME NEW bits \in Seq(Binary), NEW pos, NEW residuals \in Seq(Range17), NEW flat,
         NEW k \in 0 .. 14,
         flat = FlattenSeq([i \in DOMAIN residuals |-> Rice(residuals[i], k)]),
         At(bits, pos, flat)
  PROVE  \E at : /\ at \in [0 .. Len(residuals) -> Nat \ {0}]
                 /\ at[0] = pos /\ at[Len(residuals)] = pos + Len(flat)
                 /\ \A raw : Found(bits, k, raw, at, residuals)
<1> DEFINE codes == [i \in DOMAIN residuals |-> Rice(residuals[i], k)]
           n == Len(residuals)
<1>1. /\ codes \in Seq(Seq(Binary)) /\ Len(codes) = n
      /\ \A i \in 1 .. n : residuals[i] \in Int /\ codes[i] = Rice(residuals[i], k)
  BY RiceCodes
<1> HIDE DEF codes
<1>2. flat = FlattenSeq(codes)
  BY DEF codes
<1>3. PICK at : Marks(bits, codes, at, pos, pos + Len(flat))
  BY <1>1, <1>2, FlattenAt
<1>4. ASSUME NEW i \in 1 .. n
      PROVE  RiceAt(bits, at[i - 1], k) = [pos |-> at[i], value |-> residuals[i]]
  <2> DEFINE r == residuals[i]
             from == at[i - 1]
  <2>1. codes[i] = Rice(r, k) /\ r \in Int
    BY <1>1
  <2>2. at[i] = from + Len(codes[i]) /\ At(bits, from, codes[i])
    BY <1>1, <1>3 DEF Marks
  <2> HIDE DEF r, from
  <2>3. RiceAt(bits, from, k) = [pos |-> from + Len(Rice(r, k)), value |-> r]
    BY <2>1, <2>2, RiceBack
  <2>4. RiceAt(bits, from, k) = [pos |-> at[i], value |-> r]
    BY <2>1, <2>2, <2>3
  <2> QED BY <2>4 DEF r, from
<1>5. ASSUME NEW raw PROVE Found(bits, k, raw, at, residuals)
  <2>1. k # 15
    OBVIOUS
  <2> QED BY <1>4, <2>1 DEF Found, CodeAt
<1>6. at \in [0 .. n -> Nat \ {0}] /\ at[0] = pos /\ at[n] = pos + Len(flat)
  BY <1>1, <1>3 DEF Marks
<1> QED BY <1>5, <1>6

\* A code of n bits.
Code(c, n) == c \in Seq(Binary) /\ n \in Nat /\ Len(c) = n

\* A field of a number is a code of its width.
LEMMA CodeBits ==
  ASSUME NEW v \in Int, NEW d \in Nat
  PROVE  Code(Bits(v, d), d)
BY BitsAre, Zenon DEF Code

\* Two codes, one after the other.
LEMMA CodeJoin ==
  ASSUME NEW a, NEW b, NEW m, NEW n, Code(a, m), Code(b, n)
  PROVE  Code(a \o b, m + n)
BY Joined DEF Code

\* The parts of a code are there one after the other.
LEMMA AtCodes ==
  ASSUME NEW bits \in Seq(Binary), NEW pos, NEW a, NEW b, NEW m, NEW n,
         Code(a, m), Code(b, n), At(bits, pos, a \o b)
  PROVE  /\ At(bits, pos, a) /\ At(bits, pos + m, b)
         /\ pos \in Nat \ {0} /\ pos + m + n <= Len(bits) + 1
<1>1. At(bits, pos, a) /\ At(bits, pos + Len(a), b) /\ Len(a) = m
  BY AtParts DEF Code
<1>2. Len(a \o b) = m + n /\ m \in Nat /\ n \in Nat
  BY SMTT(30), CodeJoin DEF Code
<1>3. pos \in Nat \ {0} /\ pos + Len(a \o b) <= Len(bits) + 1
  BY DEF At
<1>4. pos + (m + n) <= Len(bits) + 1 /\ Len(bits) \in Nat
  BY <1>2, <1>3
<1> QED BY <1>1, <1>2, <1>3, <1>4

\* The residuals of a subframe are read back, escaped or not.
LEMMA ResidualsBack ==
  ASSUME NEW bits \in Seq(Binary), NEW pos, NEW residuals \in Seq(Range17),
         At(bits, pos, EncodeResiduals(residuals))
  PROVE  \E param \in 0 .. 15 : \E at :
           /\ Unsigned(bits, pos + 6, 4) = param
           /\ at \in [0 .. Len(residuals) -> Nat \ {0}]
           /\ at[0] = pos + 6 + (IF param = 15 THEN 9 ELSE 4)
           /\ at[Len(residuals)] = pos + Len(EncodeResiduals(residuals))
           /\ Found(bits, param, Unsigned(bits, pos + 10, 5), at, residuals)
<1> DEFINE k == RiceParam(residuals)
           head == Bits(0, 2) \o Bits(0, 4)
           raws == FlattenSeq([i \in DOMAIN residuals |-> Bits(residuals[i], RawBits)])
           rices == FlattenSeq([i \in DOMAIN residuals |-> Rice(residuals[i], k)])
           escape == Bits(15, 4) \o Bits(RawBits, 5)
           code == EncodeResiduals(residuals)
<1>1. k \in 0 .. 14
  BY ParamIs
<1>2. head \in Seq(Binary) /\ Len(head) = 6
  <2>1. Code(Bits(0, 2), 2) /\ Code(Bits(0, 4), 4)
    BY CodeBits
  <2>2. Code(head, 2 + 4)
    BY <2>1, CodeJoin, Zenon
  <2>3. Code(head, 6)
    <3>1. 2 + 4 = 6
      OBVIOUS
    <3> QED BY <2>2, <3>1, Zenon
  <2> QED BY <2>3 DEF Code
<1>3. code = head \o (IF TooLong(residuals, k) THEN escape \o raws ELSE Bits(k, 4) \o rices)
  BY DEF EncodeResiduals
<1> HIDE DEF k, head, raws, rices, escape, code
<1>4. At(bits, pos, code) /\ pos \in Nat \ {0}
  <2>1. At(bits, pos, code)
    BY DEF code
  <2> QED BY <2>1 DEF At
<1>5. CASE TooLong(residuals, k)
  <2>1. raws \in Seq(Binary)
    BY RawType DEF raws
  <2>2. /\ Bits(15, 4) \in Seq(Binary) /\ Len(Bits(15, 4)) = 4
        /\ Bits(RawBits, 5) \in Seq(Binary) /\ Len(Bits(RawBits, 5)) = 5
    <3>1. RawBits \in Int /\ 15 \in Int /\ 4 \in Nat /\ 5 \in Nat
      BY Widths
    <3> QED BY <3>1, BitsAre, Zenon
  <2>3. escape \in Seq(Binary) /\ Len(escape) = 9
    <3>1. Code(Bits(15, 4), 4) /\ Code(Bits(RawBits, 5), 5)
      BY <2>2, Widths, CodeBits
    <3>2. Code(escape, 4 + 5)
      BY <3>1, CodeJoin, Zenon DEF escape
    <3>3. 4 + 5 = 9
      OBVIOUS
    <3>4. Code(escape, 9)
      BY <3>2, <3>3, Zenon
    <3> QED BY <3>4 DEF Code
  <2>4. code = head \o (escape \o raws)
    BY <1>3, <1>5
  <2>5. escape \o raws \in Seq(Binary) /\ Len(code) = 15 + Len(raws) /\ Len(raws) \in Nat
    <3>1. escape \o raws \in Seq(Binary) /\ Len(escape \o raws) = 9 + Len(raws) /\ Len(raws) \in Nat
      BY <2>1, <2>3, Joined
    <3>2. Len(code) = 6 + Len(escape \o raws)
      BY <1>2, <2>4, <3>1, Joined
    <3> QED BY <3>1, <3>2
  <2>6. At(bits, pos + 6, escape \o raws)
    BY <1>2, <1>4, <2>4, <2>5, AtParts
  <2>7. At(bits, pos + 6, escape) /\ At(bits, (pos + 6) + 9, raws)
    BY <2>1, <2>3, <2>6, AtParts
  <2>8. At(bits, pos + 6, Bits(15, 4)) /\ At(bits, (pos + 6) + 4, Bits(RawBits, 5))
    <3> DEFINE x == Bits(15, 4)
               y == Bits(RawBits, 5)
    <3>1. x \in Seq(Binary) /\ Len(x) = 4 /\ y \in Seq(Binary)
      BY <2>2
    <3>2. At(bits, pos + 6, x \o y)
      BY <2>7 DEF escape
    <3> HIDE DEF x, y
    <3>3. At(bits, pos + 6, x) /\ At(bits, (pos + 6) + Len(x), y)
      BY <3>1, <3>2, AtParts
    <3> QED BY <3>1, <3>3 DEF x, y
  <2>9. Unsigned(bits, pos + 6, 4) = 15
    <3>1. 15 \in 0 .. Pow2(4) - 1
      BY SmallPowers
    <3> QED BY <2>8, <3>1, UnsignedBack
  <2>10. Unsigned(bits, pos + 10, 5) = RawBits
    <3>1. RawBits \in 0 .. Pow2(5) - 1
      BY SmallPowers, Widths
    <3>2. (pos + 6) + 4 = pos + 10
      BY <1>4
    <3> QED BY <2>8, <3>1, <3>2, UnsignedBack
  <2>11. PICK at : /\ at \in [0 .. Len(residuals) -> Nat \ {0}]
                   /\ at[0] = (pos + 6) + 9 /\ at[Len(residuals)] = ((pos + 6) + 9) + Len(raws)
                   /\ Found(bits, 15, RawBits, at, residuals)
    BY <2>7, RawBack DEF raws
  <2>12. /\ at[0] = pos + 6 + (IF 15 = 15 THEN 9 ELSE 4)
         /\ at[Len(residuals)] = pos + Len(code)
    BY <1>4, <2>5, <2>11
  <2>13. Found(bits, 15, Unsigned(bits, pos + 10, 5), at, residuals) /\ 15 \in 0 .. 15
    BY <2>10, <2>11
  <2> QED BY <2>9, <2>11, <2>12, <2>13 DEF code
<1>6. CASE ~ TooLong(residuals, k)
  <2>1. rices \in Seq(Binary)
    BY <1>1, RiceTypes DEF rices
  <2>2. Bits(k, 4) \in Seq(Binary) /\ Len(Bits(k, 4)) = 4
    <3>1. k \in Int
      BY <1>1
    <3> QED BY <3>1, BitsAre
  <2>4. code = head \o (Bits(k, 4) \o rices)
    BY <1>3, <1>6
  <2>5. Bits(k, 4) \o rices \in Seq(Binary) /\ Len(code) = 10 + Len(rices) /\ Len(rices) \in Nat
    <3>1. /\ Bits(k, 4) \o rices \in Seq(Binary) /\ Len(Bits(k, 4) \o rices) = 4 + Len(rices)
          /\ Len(rices) \in Nat
      BY <2>1, <2>2, Joined
    <3>2. Len(code) = 6 + Len(Bits(k, 4) \o rices)
      BY <1>2, <2>4, <3>1, Joined
    <3> QED BY <3>1, <3>2
  <2>6. At(bits, pos + 6, Bits(k, 4) \o rices)
    BY <1>2, <1>4, <2>4, <2>5, AtParts
  <2>7. At(bits, pos + 6, Bits(k, 4)) /\ At(bits, (pos + 6) + 4, rices)
    BY <2>1, <2>2, <2>6, AtParts
  <2>9. Unsigned(bits, pos + 6, 4) = k
    <3>1. k \in 0 .. Pow2(4) - 1
      BY <1>1, SmallPowers
    <3> QED BY <2>7, <3>1, UnsignedBack
  <2>11. PICK at : /\ at \in [0 .. Len(residuals) -> Nat \ {0}]
                   /\ at[0] = (pos + 6) + 4 /\ at[Len(residuals)] = ((pos + 6) + 4) + Len(rices)
                   /\ \A raw : Found(bits, k, raw, at, residuals)
    BY <1>1, <2>7, RicesBack DEF rices
  <2>12. /\ at[0] = pos + 6 + (IF k = 15 THEN 9 ELSE 4) /\ k \in 0 .. 15
         /\ at[Len(residuals)] = pos + Len(code)
    BY <1>1, <1>4, <2>5, <2>11
  <2>13. Found(bits, k, Unsigned(bits, pos + 10, 5), at, residuals)
    BY <2>11
  <2> QED BY <2>9, <2>11, <2>12, <2>13 DEF code
<1> QED BY <1>5, <1>6

\* The encoded residuals are bits.
LEMMA ResidualsType ==
  ASSUME NEW residuals \in Seq(Range17)
  PROVE  EncodeResiduals(residuals) \in Seq(Binary)
<1> DEFINE k == RiceParam(residuals)
           raws == FlattenSeq([i \in DOMAIN residuals |-> Bits(residuals[i], RawBits)])
           rices == FlattenSeq([i \in DOMAIN residuals |-> Rice(residuals[i], k)])
<1>1. k \in 0 .. 14 /\ k \in Int /\ RawBits \in Int
  BY ParamIs, Widths
<1>2. raws \in Seq(Binary)
  BY RawType
<1>3. rices \in Seq(Binary)
  <2> HIDE DEF k
  <2> QED BY <1>1, RiceTypes
<1>4. /\ Bits(0, 2) \in Seq(Binary) /\ Bits(0, 4) \in Seq(Binary) /\ Bits(15, 4) \in Seq(Binary)
      /\ Bits(RawBits, 5) \in Seq(Binary) /\ Bits(k, 4) \in Seq(Binary)
  <2> HIDE DEF k
  <2> QED BY <1>1, BitsAre
<1>5. EncodeResiduals(residuals) = (Bits(0, 2) \o Bits(0, 4)) \o
        (IF TooLong(residuals, k) THEN (Bits(15, 4) \o Bits(RawBits, 5)) \o raws
         ELSE Bits(k, 4) \o rices)
  BY DEF EncodeResiduals
<1> HIDE DEF k, raws, rices
<1>6. /\ Bits(0, 2) \o Bits(0, 4) \in Seq(Binary)
      /\ (Bits(15, 4) \o Bits(RawBits, 5)) \o raws \in Seq(Binary)
      /\ Bits(k, 4) \o rices \in Seq(Binary)
  BY <1>2, <1>3, <1>4, Joined
<1> QED BY <1>5, <1>6, Joined

\* What Restored reads, sample by sample.
SumStep(bits, start, param, raw, first, g, i) ==
  IF i = 1 THEN [pos |-> start, out |-> <<first>>]
  ELSE Extend(g[i - 1], CodeAt(bits, g[i - 1].pos, param, raw))

\* The readings of a subframe: one sample more at every step.
SumTo(bits, start, param, raw, first, n, g) ==
  g = [i \in 1 .. n |-> SumStep(bits, start, param, raw, first, g, i)]

\* Restored is the last of them, however they were found.
LEMMA RestoredIs ==
  ASSUME NEW bits, NEW pos, NEW first, NEW n \in Nat \ {0}, NEW param, NEW raw, NEW g,
         param = Unsigned(bits, pos, 4), raw = Unsigned(bits, pos + 4, 5),
         SumTo(bits, pos + (IF param = 15 THEN 9 ELSE 4), param, raw, first, n, g)
  PROVE  Restored(bits, pos, first, n) = g[n]
<1> DEFINE start == pos + (IF param = 15 THEN 9 ELSE 4)
           f == CHOOSE x : SumTo(bits, start, param, raw, first, n, x)
<1>1. SumTo(bits, start, param, raw, first, n, f)
  BY Zenon
<1>2. Restored(bits, pos, first, n) = f[n]
  <2> DEFINE p == Unsigned(bits, pos, 4)
             r == Unsigned(bits, pos + 4, 5)
             h == CHOOSE x : SumTo(bits, pos + (IF p = 15 THEN 9 ELSE 4), p, r, first, n, x)
  <2>1. Restored(bits, pos, first, n) = h[n]
    BY Zenon DEF Restored, SumTo, SumStep
  <2>2. p = param /\ r = raw
    OBVIOUS
  <2> HIDE DEF p, r
  <2>3. h = f
    BY <2>2
  <2> QED BY <2>1, <2>3
<1> HIDE DEF f, start
<1> DEFINE T == {0} \cup {i \in 1 .. n : f[i] = g[i]}
<1>3. 0 \in T
  OBVIOUS
<1>4. ASSUME NEW m \in 0 .. n, m \in T, m < n PROVE m + 1 \in T
  <2>1. CASE m = 0
    <3>1. f[1] = [pos |-> start, out |-> <<first>>] /\ g[1] = [pos |-> start, out |-> <<first>>]
      BY <1>1 DEF SumTo, SumStep, start
    <3> QED BY <2>1, <3>1
  <2>2. CASE m # 0
    <3>1. m + 1 \in 1 .. n /\ m + 1 # 1 /\ (m + 1) - 1 = m
      BY <1>4, <2>2
    <3>2. f[m + 1] = SumStep(bits, start, param, raw, first, f, m + 1)
      BY <1>1, <3>1, Zenon DEF SumTo
    <3>3. g[m + 1] = SumStep(bits, start, param, raw, first, g, m + 1)
      BY <3>1, Zenon DEF SumTo, start
    <3>4. f[m] = g[m]
      BY <1>4, <2>2
    <3>5. f[m + 1] = g[m + 1]
      BY <3>1, <3>2, <3>3, <3>4, Zenon DEF SumStep
    <3> QED BY <3>1, <3>5
  <2> QED BY <2>1, <2>2
<1>5. 0 .. n \subseteq T
  <2> HIDE DEF T
  <2> QED BY <1>3, <1>4, Climb
<1> QED BY <1>2, <1>5

\* The beginning of length 1.
LEMMA FirstOnly ==
  ASSUME NEW S, NEW s \in Seq(S), NEW n \in Nat \ {0}, Len(s) = n
  PROVE  SubSeq(s, 1, 1) = <<s[1]>>
<1>1. Len(s) >= 1
  OBVIOUS
<1>2. SubSeq(s, 1, 1) \in Seq(S) /\ Len(SubSeq(s, 1, 1)) = 1 /\ SubSeq(s, 1, 1)[1] = s[1]
  BY <1>1
<1>3. <<s[1]>> \in Seq(S) /\ Len(<<s[1]>>) = 1 /\ <<s[1]>>[1] = s[1]
  BY <1>1
<1> DEFINE a == SubSeq(s, 1, 1)
           b == <<s[1]>>
<1>4. a \in Seq(S) /\ b \in Seq(S) /\ Len(a) = 1 /\ Len(b) = 1 /\ a[1] = b[1]
  BY <1>2, <1>3
<1> HIDE DEF a, b
<1>5. a = b
  BY <1>4
<1> QED BY <1>5 DEF a, b

\* Samples and their differences.
LEMMA ResidualsAre ==
  ASSUME NEW samples \in Seq(Samples), NEW n \in Nat \ {0}, Len(samples) = n
  PROVE  /\ Residuals(samples) \in Seq(Range17) /\ Len(Residuals(samples)) = n - 1
         /\ \A i \in 1 .. n : samples[i] \in Samples /\ samples[i] \in Int
         /\ \A i \in 1 .. n - 1 : Residuals(samples)[i] = samples[i + 1] - samples[i]
<1> DEFINE h == Pow2(SampleBits - 1)
           w == Pow2(SampleBits)
<1>1. SampleBits - 1 \in Nat /\ (SampleBits - 1) + 1 = SampleBits
  BY Widths
<1>2. h \in Nat /\ w = 2 * h
  BY <1>1, Pow2Is
<1>3. Samples = -h .. h - 1 /\ Range17 = -w .. w - 1
  BY DEF Samples, Range17
<1> HIDE DEF h, w
<1>4. \A i \in 1 .. n : samples[i] \in Samples /\ samples[i] \in Int
  BY <1>2, <1>3
<1>5. ASSUME NEW i \in 1 .. n - 1 PROVE samples[i + 1] - samples[i] \in Range17
  <2>1. samples[i] \in -h .. h - 1 /\ samples[i + 1] \in -h .. h - 1
    BY <1>3, <1>4
  <2> QED BY <1>2, <1>3, <2>1
<1>6. Residuals(samples) \in [1 .. n - 1 -> Range17]
  BY <1>5 DEF Residuals
<1>7. n - 1 \in Nat
  OBVIOUS
<1> QED BY <1>4, <1>6, <1>7, Listing DEF Residuals

\* Differences are summed up to the samples again.
LEMMA RestoredBack ==
  ASSUME NEW bits \in Seq(Binary), NEW pos, NEW samples \in Seq(Samples), NEW n \in Nat \ {0},
         Len(samples) = n, At(bits, pos, EncodeResiduals(Residuals(samples)))
  PROVE  Restored(bits, pos + 6, samples[1], n)
           = [pos |-> pos + Len(EncodeResiduals(Residuals(samples))), out |-> samples]
<1> DEFINE residuals == Residuals(samples)
           end == pos + Len(EncodeResiduals(residuals))
<1>1. /\ residuals \in Seq(Range17) /\ Len(residuals) = n - 1
      /\ \A i \in 1 .. n : samples[i] \in Samples /\ samples[i] \in Int
      /\ \A i \in 1 .. n - 1 : residuals[i] = samples[i + 1] - samples[i]
  BY ResidualsAre
<1>2. At(bits, pos, EncodeResiduals(residuals)) /\ pos \in Nat
  BY DEF At
<1> DEFINE raw == Unsigned(bits, (pos + 6) + 4, 5)
<1>3. PICK param, at :
           /\ param \in 0 .. 15
           /\ Unsigned(bits, pos + 6, 4) = param
           /\ at \in [0 .. Len(residuals) -> Nat \ {0}]
           /\ at[0] = pos + 6 + (IF param = 15 THEN 9 ELSE 4)
           /\ at[Len(residuals)] = end
           /\ Found(bits, param, Unsigned(bits, pos + 10, 5), at, residuals)
  <2> HIDE DEF residuals
  <2> QED BY <1>1, <1>2, ResidualsBack
<1>4. Unsigned(bits, pos + 10, 5) = raw
  <2>1. pos + 10 = (pos + 6) + 4
    BY <1>2
  <2> QED BY <2>1
<1> HIDE DEF residuals, raw, end
<1> DEFINE g == [i \in 1 .. n |-> [pos |-> at[i - 1], out |-> SubSeq(samples, 1, i)]]
           start == (pos + 6) + (IF param = 15 THEN 9 ELSE 4)
           first == samples[1]
<1>5. ASSUME NEW i \in 2 .. n
      PROVE  /\ CodeAt(bits, at[i - 1 - 1], param, raw) = [pos |-> at[i - 1], value |-> residuals[i - 1]]
             /\ samples[i - 1] + residuals[i - 1] = samples[i]
  <2>1. i - 1 \in 1 .. n - 1 /\ (i - 1) + 1 = i /\ i \in 1 .. n /\ i - 1 \in 1 .. n
    OBVIOUS
  <2>2. residuals[i - 1] = samples[i] - samples[i - 1] /\ samples[i] \in Int /\ samples[i - 1] \in Int
    BY <1>1, <2>1
  <2>3. CodeAt(bits, at[i - 1 - 1], param, raw) = [pos |-> at[i - 1], value |-> residuals[i - 1]]
    BY <1>1, <1>3, <1>4, <2>1 DEF Found
  <2> QED BY <2>2, <2>3
<1>6. ASSUME NEW i \in 1 .. n PROVE
        g[i] = SumStep(bits, start, param, raw, first, g, i)
  <2>1. CASE i = 1
    <3>1. SubSeq(samples, 1, 1) = <<samples[1]>>
      BY FirstOnly
    <3>2. g[1] = [pos |-> at[0], out |-> SubSeq(samples, 1, 1)]
      BY <2>1
    <3>3. at[0] = start
      BY <1>3
    <3> QED BY <2>1, <3>1, <3>2, <3>3 DEF SumStep
  <2>2. CASE i # 1
    <3>1. i - 1 \in 1 .. n /\ i \in 2 .. n
      BY <2>2
    <3> DEFINE c == CodeAt(bits, at[i - 1 - 1], param, raw)
    <3>2. g[i] = [pos |-> at[i - 1], out |-> SubSeq(samples, 1, i)]
      OBVIOUS
    <3>3. g[i - 1].pos = at[i - 1 - 1] /\ g[i - 1].out = SubSeq(samples, 1, i - 1)
      BY <3>1
    <3>4. SubSeq(samples, 1, i - 1)[i - 1] = samples[i - 1]
      BY <3>1
    <3>5. SubSeq(samples, 1, i) = Append(SubSeq(samples, 1, i - 1), samples[i])
      BY <3>1
    <3>6. c = [pos |-> at[i - 1], value |-> residuals[i - 1]]
          /\ samples[i - 1] + residuals[i - 1] = samples[i]
      BY <1>5, <3>1
    <3> HIDE DEF g, c
    <3>7. g[i] = Extend(g[i - 1], c)
      <4>1. Len(SubSeq(samples, 1, i - 1)) = i - 1
        BY <3>1
      <4>2. g[i - 1].out[Len(g[i - 1].out)] + c.value = samples[i]
        BY <3>3, <3>4, <3>6, <4>1
      <4> QED BY <3>2, <3>3, <3>5, <3>6, <4>2 DEF Extend
    <3>8. c = CodeAt(bits, g[i - 1].pos, param, raw)
      BY <3>3 DEF c
    <3> QED BY <2>2, <3>7, <3>8 DEF SumStep
  <2> QED BY <2>1, <2>2
<1>7. SumTo(bits, start, param, raw, first, n, g)
  <2> HIDE DEF start, first
  <2> DEFINE step(x, i) == SumStep(bits, start, param, raw, first, x, i)
  <2>1. g = [i \in 1 .. n |-> g[i]]
    OBVIOUS
  <2>2. \A i \in 1 .. n : g[i] = step(g, i)
    BY <1>6
  <2> HIDE DEF g
  <2>3. [i \in 1 .. n |-> g[i]] = [i \in 1 .. n |-> step(g, i)]
    BY <2>2, Zenon
  <2>4. g = [i \in 1 .. n |-> step(g, i)]
    BY <2>1, <2>3, Zenon
  <2> QED BY <2>4, Zenon DEF SumTo
<1>8. Restored(bits, pos + 6, first, n) = g[n]
  <2>1. param = Unsigned(bits, pos + 6, 4) /\ raw = Unsigned(bits, (pos + 6) + 4, 5)
    BY <1>3 DEF raw
  <2> HIDE DEF g, first
  <2> QED BY <1>7, <2>1, RestoredIs DEF start
<1>9. g[n] = [pos |-> at[n - 1], out |-> SubSeq(samples, 1, n)] /\ SubSeq(samples, 1, n) = samples
  OBVIOUS
<1>10. at[n - 1] = end
  BY <1>1, <1>3
<1> QED BY <1>8, <1>9, <1>10 DEF end, residuals

\* The kind of a subframe and its first sample.
LEMMA SubframeHead ==
  ASSUME NEW bits \in Seq(Binary), NEW pos, NEW kind \in {0, 9}, NEW v \in Samples, NEW tail, NEW m,
         Code(tail, m),
         At(bits, pos, Bits(0, 1) \o Bits(kind, 6) \o Bits(0, 1) \o Bits(v, SampleBits) \o tail)
  PROVE  /\ Unsigned(bits, pos + 1, 6) = kind
         /\ Signed(bits, pos + 8, SampleBits) = v
         /\ At(bits, pos + 8 + SampleBits, tail)
         /\ Code(Bits(0, 1) \o Bits(kind, 6) \o Bits(0, 1) \o Bits(v, SampleBits) \o tail,
                 8 + SampleBits + m)
<1> DEFINE zero == Bits(0, 1)
           type == Bits(kind, 6)
           first == Bits(v, SampleBits)
           two == zero \o type
           three == two \o zero
           four == three \o first
<1>1. SampleBits - 1 \in Nat /\ (SampleBits - 1) + 1 = SampleBits /\ SampleBits \in Nat
  BY Widths
<1>2. v \in -Pow2(SampleBits - 1) .. Pow2(SampleBits - 1) - 1 /\ v \in Int
  <2>1. Pow2(SampleBits - 1) \in Nat
    BY <1>1, Pow2Is
  <2>2. v \in -Pow2(SampleBits - 1) .. Pow2(SampleBits - 1) - 1
    BY DEF Samples
  <2> QED BY <2>1, <2>2
<1>3. Code(zero, 1) /\ Code(type, 6) /\ Code(first, SampleBits)
  <2>1. 0 \in Int /\ kind \in Int /\ 1 \in Nat /\ 6 \in Nat
    OBVIOUS
  <2> QED BY <1>1, <1>2, <2>1, CodeBits, Zenon
<1>4. At(bits, pos, four \o tail)
  BY Zenon
<1>5. kind \in 0 .. Pow2(6) - 1
  BY SmallPowers
<1> HIDE DEF zero, first, two, three, four
<1>6. Code(two, 1 + 6)
  BY <1>3, CodeJoin, Zenon DEF two
<1>7. Code(three, 1 + 6 + 1)
  BY <1>3, <1>6, CodeJoin, Zenon DEF three
<1>8. Code(four, 1 + 6 + 1 + SampleBits)
  BY <1>3, <1>7, CodeJoin, Zenon DEF four
<1>9. At(bits, pos, four) /\ At(bits, pos + (1 + 6 + 1 + SampleBits), tail) /\ pos \in Nat
  BY <1>4, <1>8, AtCodes
<1>10. At(bits, pos, three) /\ At(bits, pos + (1 + 6 + 1), first)
  BY <1>3, <1>7, <1>9, AtCodes DEF four
<1>11. At(bits, pos, two)
  BY <1>3, <1>6, <1>10, AtCodes DEF three
<1>12. At(bits, pos + 1, type)
  BY <1>3, <1>11, AtCodes DEF two
<1>13. Unsigned(bits, pos + 1, 6) = kind
  BY <1>5, <1>12, UnsignedBack
<1>14. At(bits, pos + 8, first)
  <2>1. pos + (1 + 6 + 1) = pos + 8
    BY <1>9
  <2> QED BY <1>10, <2>1
<1>15. Signed(bits, pos + 8, SampleBits) = v
  BY <1>1, <1>2, <1>14, SignedBack DEF first
<1>16. pos + (1 + 6 + 1 + SampleBits) = pos + 8 + SampleBits
  BY <1>1, <1>9
<1>17. Code(four \o tail, 1 + 6 + 1 + SampleBits + m)
  BY <1>8, CodeJoin, Zenon
<1>18. 1 + 6 + 1 + SampleBits + m = 8 + SampleBits + m
  BY <1>1 DEF Code
<1> QED BY <1>9, <1>13, <1>15, <1>16, <1>17, <1>18 DEF four, three, two, zero, first

\* A subframe is read back: lossless for every block of samples.
LEMMA SubframeBack ==
  ASSUME NEW bits \in Seq(Binary), NEW reading, NEW samples \in Seq(Samples), NEW n \in Nat \ {0},
         Len(samples) = n, At(bits, reading.pos, EncodeSubframe(samples))
  PROVE  /\ EncodeSubframe(samples) \in Seq(Binary)
         /\ DecodeSubframe(bits, reading, n)
              = [pos |-> reading.pos + Len(EncodeSubframe(samples)), out |-> reading.out \o samples]
<1> DEFINE same == \A i \in DOMAIN samples : samples[i] = samples[1]
           kind == IF same THEN 0 ELSE 9
           pos == reading.pos
           residuals == Residuals(samples)
           tail == IF same THEN <<>> ELSE EncodeResiduals(residuals)
           m == Len(tail)
           v == samples[1]
           code == EncodeSubframe(samples)
           read == IF Unsigned(bits, pos + 1, 6) = 0
                   THEN [pos |-> pos + 8 + SampleBits,
                         out |-> [i \in 1 .. n |-> Signed(bits, pos + 8, SampleBits)]]
                   ELSE Restored(bits, pos + 8 + SampleBits + 6, Signed(bits, pos + 8, SampleBits), n)
<1>1. /\ residuals \in Seq(Range17)
      /\ \A i \in 1 .. n : samples[i] \in Samples /\ samples[i] \in Int
  BY ResidualsAre
<1>2. v \in Samples
  BY <1>1
<1>3. DOMAIN samples = 1 .. n /\ samples = [i \in 1 .. n |-> samples[i]]
  OBVIOUS
<1>4. Code(tail, m)
  <2>1. <<>> \in Seq(Binary) /\ EncodeResiduals(residuals) \in Seq(Binary)
    <3> HIDE DEF residuals
    <3> QED BY <1>1, ResidualsType
  <2>2. tail \in Seq(Binary)
    BY <2>1
  <2> HIDE DEF tail
  <2> QED BY <2>2 DEF Code
<1>5. code = Bits(0, 1) \o Bits(kind, 6) \o Bits(0, 1) \o Bits(v, SampleBits) \o tail
  BY Zenon DEF EncodeSubframe
<1>6. At(bits, pos, code)
  OBVIOUS
<1>7. DecodeSubframe(bits, reading, n) = [pos |-> read.pos, out |-> reading.out \o read.out]
  BY Zenon DEF DecodeSubframe
<1>8. kind \in {0, 9} /\ (kind = 0 <=> same)
  OBVIOUS
<1>9. SampleBits \in Nat /\ pos \in Nat \ {0}
  BY <1>6, Widths DEF At
<1>10. same => tail = <<>> /\ samples = [i \in 1 .. n |-> v]
  BY <1>3
<1>11. ~ same => tail = EncodeResiduals(residuals)
  OBVIOUS
<1> HIDE DEF same, kind, pos, tail, v, code
<1>12. /\ Unsigned(bits, pos + 1, 6) = kind /\ Signed(bits, pos + 8, SampleBits) = v
       /\ At(bits, pos + 8 + SampleBits, tail) /\ Code(code, 8 + SampleBits + m)
  <2> HIDE DEF m
  <2> QED BY <1>2, <1>4, <1>5, <1>6, <1>8, SubframeHead
<1>13. Len(code) = 8 + SampleBits + m /\ code \in Seq(Binary) /\ m \in Nat
  BY <1>4, <1>12 DEF Code
<1>14. read = [pos |-> pos + Len(code), out |-> samples]
  <2>1. CASE same
    <3>1. read = [pos |-> pos + 8 + SampleBits, out |-> [i \in 1 .. n |-> v]]
      BY <1>8, <1>12, <2>1
    <3>2. m = 0
      BY <1>10, <2>1
    <3>3. pos + Len(code) = pos + 8 + SampleBits
      <4> HIDE DEF m
      <4> QED BY <1>9, <1>13, <3>2
    <3> QED BY <1>10, <2>1, <3>1, <3>3
  <2>2. CASE ~ same
    <3>1. read = Restored(bits, pos + 8 + SampleBits + 6, v, n)
      BY <1>8, <1>12, <2>2
    <3>2. At(bits, pos + 8 + SampleBits, EncodeResiduals(Residuals(samples)))
      BY <1>11, <1>12, <2>2
    <3>3. Restored(bits, (pos + 8 + SampleBits) + 6, samples[1], n)
            = [pos |-> (pos + 8 + SampleBits) + Len(EncodeResiduals(Residuals(samples))), out |-> samples]
      BY <3>2, RestoredBack
    <3>4. m = Len(EncodeResiduals(Residuals(samples)))
      BY <1>11, <2>2
    <3>5. (pos + 8 + SampleBits) + m = pos + Len(code)
      <4> HIDE DEF m
      <4> QED BY <1>9, <1>13
    <3> HIDE DEF m
    <3> QED BY <3>1, <3>3, <3>4, <3>5 DEF v
  <2> QED BY <2>1, <2>2
<1> HIDE DEF read
<1>15. read.pos = pos + Len(code) /\ read.out = samples
  BY <1>14
<1> QED BY <1>7, <1>13, <1>15 DEF pos, code

-----------------------------------------------------------------------------
(* Checksums.                                                              *)

\* The sum of two bits.
Plus(a, b) == (a + b) % 2

\* It is 0 for equal bits.
LEMMA PlusIs ==
  ASSUME NEW a \in Binary, NEW b \in Binary
  PROVE  Plus(a, b) = IF a = b THEN 0 ELSE 1
<1>1. CASE a = 0 /\ b = 0
  BY <1>1 DEF Plus
<1>2. CASE a = 0 /\ b = 1
  BY <1>2 DEF Plus
<1>3. CASE a = 1 /\ b = 0
  BY <1>3 DEF Plus
<1>4. CASE a = 1 /\ b = 1
  BY <1>4 DEF Plus
<1> QED BY <1>1, <1>2, <1>3, <1>4 DEF Binary

\* Its laws.
LEMMA PlusPlus ==
  ASSUME NEW a \in Binary, NEW b \in Binary, NEW c \in Binary
  PROVE  /\ Plus(a, b) \in Binary /\ Plus(a, a) = 0 /\ Plus(a, 0) = a
         /\ Plus(Plus(a, b), c) = Plus(a, Plus(b, c))
BY PlusIs DEF Binary

\* It is associative.
LEMMA PlusTwice ==
  ASSUME NEW a \in Binary, NEW b \in Binary, NEW c \in Binary
  PROVE  Plus(Plus(a, b), c) = Plus(a, Plus(b, c))
BY PlusPlus

\* The register of a checksum after each bit.
RegTo(bits, poly, n, g) ==
  g = [i \in 0 .. n |-> IF i = 0 THEN [j \in DOMAIN poly |-> 0] ELSE Shift(g[i - 1], bits[i], poly)]

\* next is reg with one bit more, for each of its places.
Shifted(next, reg, b, poly, w) ==
  /\ next \in [1 .. w -> Binary]
  /\ \A p \in 1 .. w :
       next[p] = IF reg[1] = b THEN IF p = w THEN 0 ELSE reg[p + 1]
                 ELSE Plus(IF p = w THEN 0 ELSE reg[p + 1], poly[p])

\* That is what Shift does.
LEMMA ShiftIs ==
  ASSUME NEW w \in Nat \ {0}, NEW poly \in [1 .. w -> Binary], NEW reg \in [1 .. w -> Binary],
         NEW b \in Binary
  PROVE  Shifted(Shift(reg, b, poly), reg, b, poly, w)
<1> DEFINE moved == Append(Tail(reg), 0)
<1>1. reg \in Seq(Binary) /\ Len(reg) = w
  BY Listing
<1>2. Tail(reg) \in Seq(Binary) /\ Len(Tail(reg)) = w - 1 /\ \A p \in 1 .. w - 1 : Tail(reg)[p] = reg[p + 1]
  BY <1>1
<1> DEFINE t == Tail(reg)
<1>3. t \in Seq(Binary) /\ Len(t) = w - 1 /\ \A p \in 1 .. w - 1 : t[p] = reg[p + 1]
  BY <1>2
<1> HIDE DEF t
<1>4. 0 \in Binary
  BY DEF Binary
<1>5. /\ Append(t, 0) \in Seq(Binary) /\ Len(Append(t, 0)) = w
      /\ \A p \in 1 .. w : Append(t, 0)[p] = IF p = w THEN 0 ELSE reg[p + 1]
  BY <1>3, <1>4
<1>6. moved \in [1 .. w -> Binary] /\ \A p \in 1 .. w : moved[p] = IF p = w THEN 0 ELSE reg[p + 1]
  <2>1. moved \in Seq(Binary) /\ Len(moved) = w /\ \A p \in 1 .. w : moved[p] = IF p = w THEN 0 ELSE reg[p + 1]
    BY <1>5, Zenon DEF t
  <2> HIDE DEF moved
  <2> QED BY <2>1
<1> HIDE DEF moved
<1>7. Shift(reg, b, poly) = IF reg[1] = b THEN moved ELSE Xor(moved, poly)
  BY Zenon DEF Shift, moved
<1>8. Xor(moved, poly) = [p \in 1 .. w |-> Plus(moved[p], poly[p])]
  BY <1>6 DEF Xor, Plus
<1>9. \A p \in 1 .. w : Plus(moved[p], poly[p]) \in Binary
  BY <1>6, PlusPlus
<1> QED BY <1>6, <1>7, <1>8, <1>9 DEF Shifted

\* The registers exist, and are bits of the width of the polynomial.
LEMMA RegExists ==
  ASSUME NEW n \in Nat, NEW w \in Nat \ {0}, NEW poly \in [1 .. w -> Binary],
         NEW bits, \A i \in 1 .. n : bits[i] \in Binary
  PROVE  \E g \in [0 .. n -> [1 .. w -> Binary]] : RegTo(bits, poly, n, g)
<1> DEFINE zeros == [j \in DOMAIN poly |-> 0]
           built(m) == \E g \in [0 .. m -> [1 .. w -> Binary]] : RegTo(bits, poly, m, g)
           T == {m \in 0 .. n : built(m)}
<1>1. zeros \in [1 .. w -> Binary]
  BY DEF Binary
<1>2. 0 \in T
  <2> DEFINE g == [i \in 0 .. 0 |-> zeros]
  <2> HIDE DEF zeros
  <2>1. g \in [0 .. 0 -> [1 .. w -> Binary]]
    BY <1>1
  <2>2. g = [i \in 0 .. 0 |-> IF i = 0 THEN zeros ELSE Shift(g[i - 1], bits[i], poly)]
    OBVIOUS
  <2>3. RegTo(bits, poly, 0, g)
    BY <2>2, Zenon DEF RegTo, zeros
  <2> HIDE DEF g
  <2> QED BY <2>1, <2>3
<1>3. ASSUME NEW m \in 0 .. n, m \in T, m < n PROVE m + 1 \in T
  <2>1. PICK g \in [0 .. m -> [1 .. w -> Binary]] : RegTo(bits, poly, m, g)
    BY <1>3
  <2> DEFINE top == Shift(g[m], bits[m + 1], poly)
             h == [i \in 0 .. m + 1 |-> IF i = m + 1 THEN top ELSE g[i]]
  <2>2. top \in [1 .. w -> Binary]
    <3>1. g[m] \in [1 .. w -> Binary] /\ bits[m + 1] \in Binary
      BY <1>3
    <3>2. Shifted(Shift(g[m], bits[m + 1], poly), g[m], bits[m + 1], poly, w)
      BY <3>1, ShiftIs
    <3> QED BY <3>2 DEF Shifted
  <2> HIDE DEF top, zeros
  <2>3. h \in [0 .. m + 1 -> [1 .. w -> Binary]]
    BY <2>2
  <2>4. ASSUME NEW i \in 0 .. m + 1
        PROVE  h[i] = IF i = 0 THEN zeros ELSE Shift(h[i - 1], bits[i], poly)
    <3>1. CASE i = m + 1
      <4>1. h[i] = top /\ h[i - 1] = g[m] /\ i # 0
        BY <3>1
      <4> QED BY <3>1, <4>1 DEF top
    <3>2. CASE i \in 0 .. m
      <4>1. h[i] = g[i] /\ (i # 0 => h[i - 1] = g[i - 1])
        BY <3>2
      <4>2. g[i] = IF i = 0 THEN zeros ELSE Shift(g[i - 1], bits[i], poly)
        BY <2>1, <3>2 DEF RegTo, zeros
      <4> QED BY <4>1, <4>2
    <3> QED BY <3>1, <3>2
  <2>5. h = [i \in 0 .. m + 1 |-> h[i]]
    OBVIOUS
  <2> HIDE DEF h
  <2>6. h = [i \in 0 .. m + 1 |-> IF i = 0 THEN zeros ELSE Shift(h[i - 1], bits[i], poly)]
    BY <2>4, <2>5
  <2>7. RegTo(bits, poly, m + 1, h)
    BY <2>6, Zenon DEF RegTo, zeros
  <2>8. built(m + 1)
    BY <2>3, <2>7
  <2> HIDE DEF built
  <2> QED BY <1>3, <2>8
<1>4. 0 .. n \subseteq T
  <2> HIDE DEF T
  <2> QED BY <1>2, <1>3, Climb
<1>5. n \in T
  <2> HIDE DEF T
  <2> QED BY <1>4
<1>6. built(n)
  <2> HIDE DEF built
  <2> QED BY <1>5
<1> QED BY <1>6

\* Two functions that take the same steps from a to b.
SameSteps(f, g, a, b) ==
  /\ a \in Nat /\ b \in Nat /\ a <= b /\ f[a] = g[a]
  /\ \A i \in a + 1 .. b : f[i - 1] = g[i - 1] => f[i] = g[i]

Same(f, g, b) == f[b] = g[b]

\* They end alike.
LEMMA Agree ==
  ASSUME NEW a, NEW b, NEW f, NEW g, SameSteps(f, g, a, b)
  PROVE  Same(f, g, b)
<1> USE DEF SameSteps, Same
<1> DEFINE T == {j \in 0 .. b - a : f[a + j] = g[a + j]}
<1>1. 0 \in T
  <2>1. a + 0 = a
    OBVIOUS
  <2> QED BY <2>1
<1>2. ASSUME NEW m \in 0 .. b - a, m \in T, m < b - a PROVE m + 1 \in T
  <2>1. a + (m + 1) \in a + 1 .. b /\ (a + (m + 1)) - 1 = a + m
    BY <1>2
  <2>2. f[a + m] = g[a + m]
    BY <1>2
  <2>3. f[a + (m + 1)] = g[a + (m + 1)]
    BY <2>1, <2>2
  <2> QED BY <1>2, <2>3
<1>3. b - a \in Nat
  OBVIOUS
<1>4. 0 .. b - a \subseteq T
  <2> HIDE DEF T
  <2> QED BY <1>1, <1>2, <1>3, Climb
<1>5. b - a \in T /\ a + (b - a) = b
  <2> HIDE DEF T
  <2> QED BY <1>3, <1>4
<1> QED BY <1>5

\* What a byte of n bits begins after and ends with.
ByteOf(k, n, a, b) ==
  /\ a = ByteEnd(k - 1, n) /\ b = ByteEnd(k, n)
  /\ a \in Nat /\ b \in Nat /\ a <= b /\ b <= n

LEMMA BytesAre ==
  ASSUME NEW n \in Nat
  PROVE  /\ LastByte(n) \in Nat /\ ByteEnd(0, n) = 0 /\ ByteEnd(LastByte(n), n) = n
         /\ \A k \in 1 .. LastByte(n) : ByteOf(k, n, ByteEnd(k - 1, n), ByteEnd(k, n))
<1>1. LastByte(n) \in Nat /\ 8 * LastByte(n) >= n
  BY DEF LastByte
<1>2. ByteEnd(0, n) = 0 /\ ByteEnd(LastByte(n), n) = n
  BY <1>1 DEF ByteEnd
<1>3. ASSUME NEW k \in 1 .. LastByte(n)
      PROVE  ByteOf(k, n, ByteEnd(k - 1, n), ByteEnd(k, n))
  BY <1>1 DEF ByteOf, ByteEnd
<1> QED BY <1>1, <1>2, <1>3

\* The registers of a byte, from reg after bit a to the one after bit b.
NextTo(reg, bits, poly, a, b, s) ==
  s = [i \in a .. b |-> IF i = a THEN reg ELSE Shift(s[i - 1], bits[i], poly)]

\* All the registers.
Registers(w, poly, bits, n, g) ==
  /\ w \in Nat \ {0} /\ n \in Nat /\ Len(bits) = n
  /\ g \in [0 .. n -> [1 .. w -> Binary]] /\ RegTo(bits, poly, n, g)

TakenBy(poly, bits, g, k, a, b) == CrcByte(g[a], bits, k, poly) = g[b]

\* A byte takes the register where the bits of it take it one by one.
LEMMA CrcByteIs ==
  ASSUME NEW w, NEW poly, NEW bits, NEW n, NEW g, NEW k, NEW a, NEW b,
         Registers(w, poly, bits, n, g), ByteOf(k, n, a, b)
  PROVE  TakenBy(poly, bits, g, k, a, b)
<1> USE DEF Registers
<1> DEFINE f == CHOOSE x : NextTo(g[a], bits, poly, a, b, x)
           s == [i \in a .. b |-> g[i]]
<1>1. a \in Nat /\ b \in Nat /\ a <= b /\ b <= n /\ a = ByteEnd(k - 1, n) /\ b = ByteEnd(k, n)
  BY DEF ByteOf
<1>2. ASSUME NEW i \in a + 1 .. b PROVE g[i] = Shift(g[i - 1], bits[i], poly)
  <2>1. i \in 0 .. n /\ i # 0
    BY <1>1
  <2> QED BY <2>1, Zenon DEF RegTo
<1>3. NextTo(g[a], bits, poly, a, b, s)
  <2>1. ASSUME NEW i \in a .. b
        PROVE  s[i] = IF i = a THEN g[a] ELSE Shift(s[i - 1], bits[i], poly)
    <3>1. CASE i = a
      BY <3>1
    <3>2. CASE i # a
      <4>1. i \in a + 1 .. b /\ i - 1 \in a .. b
        BY <1>1, <3>2
      <4>2. s[i - 1] = g[i - 1] /\ s[i] = g[i]
        BY <4>1
      <4> QED BY <1>2, <3>2, <4>1, <4>2
    <3> QED BY <3>1, <3>2
  <2>2. s = [i \in a .. b |-> s[i]]
    OBVIOUS
  <2> HIDE DEF s
  <2>3. s = [i \in a .. b |-> IF i = a THEN g[a] ELSE Shift(s[i - 1], bits[i], poly)]
    BY <2>1, <2>2
  <2> QED BY <2>3, Zenon DEF NextTo
<1>4. NextTo(g[a], bits, poly, a, b, f)
  <2> HIDE DEF s
  <2> QED BY <1>3, Zenon
<1>5. CrcByte(g[a], bits, k, poly) = IF g[a] = <<>> THEN g[a] ELSE f[b]
  <2> DEFINE h == CHOOSE x : NextTo(g[a], bits, poly, ByteEnd(k - 1, Len(bits)), ByteEnd(k, Len(bits)), x)
  <2>1. CrcByte(g[a], bits, k, poly)
          = IF g[a] = <<>> THEN g[a] ELSE h[ByteEnd(k, Len(bits))]
    BY Zenon DEF CrcByte, NextTo
  <2> QED BY <1>1, <2>1
<1> HIDE DEF f
<1>6. f[b] = g[b]
  <2>1. f[a] = g[a]
    BY <1>1, <1>4 DEF NextTo
  <2>2. ASSUME NEW i \in a + 1 .. b, f[i - 1] = g[i - 1] PROVE f[i] = g[i]
    <3>1. i \in a .. b /\ i # a
      BY <1>1
    <3>2. f[i] = Shift(f[i - 1], bits[i], poly)
      BY <1>4, <3>1, Zenon DEF NextTo
    <3> QED BY <1>2, <2>2, <3>2
  <2>3. SameSteps(f, g, a, b)
    BY <1>1, <2>1, <2>2 DEF SameSteps
  <2>4. Same(f, g, b)
    BY <2>3, Agree, Zenon
  <2> QED BY <2>4 DEF Same
<1>7. g[a] # <<>>
  <2>1. g[a] \in [1 .. w -> Binary] /\ 1 \in 1 .. w
    BY <1>1
  <2>2. DOMAIN g[a] = 1 .. w /\ DOMAIN <<>> = {}
    BY <2>1
  <2> QED BY <2>1, <2>2
<1> QED BY <1>5, <1>6, <1>7 DEF TakenBy

\* The registers after every byte.
BytesTo(bits, poly, m, h) ==
  h = [k \in 0 .. m |-> IF k = 0 THEN [j \in DOMAIN poly |-> 0] ELSE CrcByte(h[k - 1], bits, k, poly)]

\* The checksum is the last of them.
LEMMA CrcIs ==
  ASSUME NEW w \in Nat \ {0}, NEW poly \in [1 .. w -> Binary], NEW bits \in Seq(Binary),
         NEW n \in Nat, Len(bits) = n
  PROVE  \E g \in [0 .. n -> [1 .. w -> Binary]] : RegTo(bits, poly, n, g) /\ Crc(bits, poly) = g[n]
<1> DEFINE m == LastByte(n)
           f == CHOOSE x : BytesTo(bits, poly, m, x)
<1>1. \A i \in 1 .. n : bits[i] \in Binary
  OBVIOUS
<1>2. PICK g \in [0 .. n -> [1 .. w -> Binary]] : RegTo(bits, poly, n, g)
  BY <1>1, RegExists
<1> DEFINE h == [k \in 0 .. m |-> g[ByteEnd(k, n)]]
<1>3. /\ m \in Nat /\ ByteEnd(0, n) = 0 /\ ByteEnd(m, n) = n
      /\ \A k \in 1 .. m : ByteOf(k, n, ByteEnd(k - 1, n), ByteEnd(k, n))
  BY BytesAre
<1>4. Crc(bits, poly) = f[m]
  <2> DEFINE x == CHOOSE y : BytesTo(bits, poly, LastByte(Len(bits)), y)
  <2>1. Crc(bits, poly) = x[LastByte(Len(bits))]
    BY Zenon DEF Crc, BytesTo
  <2> HIDE DEF m
  <2>2. m = LastByte(Len(bits))
    BY DEF m
  <2> QED BY <2>1, <2>2, Zenon
<1> HIDE DEF m
<1>5. ASSUME NEW k \in 1 .. m PROVE h[k] = CrcByte(h[k - 1], bits, k, poly)
  <2>1. k \in 0 .. m /\ k - 1 \in 0 .. m /\ k \in Nat
    BY <1>3
  <2>2. ByteOf(k, n, ByteEnd(k - 1, n), ByteEnd(k, n))
    BY <1>3
  <2>3. CrcByte(g[ByteEnd(k - 1, n)], bits, k, poly) = g[ByteEnd(k, n)]
    <3>1. Registers(w, poly, bits, n, g)
      BY <1>2 DEF Registers
    <3>2. TakenBy(poly, bits, g, k, ByteEnd(k - 1, n), ByteEnd(k, n))
      BY <2>2, <3>1, CrcByteIs, Zenon
    <3> QED BY <3>2 DEF TakenBy
  <2> QED BY <2>1, <2>3
<1>6. h[0] = [j \in DOMAIN poly |-> 0]
  <2>1. h[0] = g[0]
    BY <1>3
  <2>2. g[0] = [j \in DOMAIN poly |-> 0]
    BY <1>2 DEF RegTo
  <2> QED BY <2>1, <2>2
<1>7. BytesTo(bits, poly, m, h)
  <2>1. h = [k \in 0 .. m |-> h[k]]
    OBVIOUS
  <2> HIDE DEF h
  <2>2. ASSUME NEW k \in 0 .. m
        PROVE  h[k] = IF k = 0 THEN [j \in DOMAIN poly |-> 0] ELSE CrcByte(h[k - 1], bits, k, poly)
    <3>1. k # 0 => k \in 1 .. m
      BY <1>3
    <3> QED BY <1>5, <1>6, <3>1, Zenon
  <2>3. h = [k \in 0 .. m |-> IF k = 0 THEN [j \in DOMAIN poly |-> 0]
                              ELSE CrcByte(h[k - 1], bits, k, poly)]
    BY <2>1, <2>2
  <2> QED BY <2>3, Zenon DEF BytesTo
<1>8. BytesTo(bits, poly, m, f)
  <2> HIDE DEF h
  <2> QED BY <1>7, Zenon
<1>9. h[m] = g[n]
  BY <1>3
<1> HIDE DEF f, h
<1>10. f[m] = h[m]
  <2>1. f[0] = h[0]
    BY <1>3, <1>6, <1>8 DEF BytesTo
  <2>2. ASSUME NEW k \in 0 + 1 .. m, f[k - 1] = h[k - 1] PROVE f[k] = h[k]
    <3>1. k \in 0 .. m /\ k # 0 /\ k \in 1 .. m
      BY <1>3
    <3>2. f[k] = CrcByte(f[k - 1], bits, k, poly)
      BY <1>8, <3>1, Zenon DEF BytesTo
    <3> QED BY <1>5, <2>2, <3>1, <3>2
  <2>3. SameSteps(f, h, 0, m)
    BY <1>3, <2>1, <2>2 DEF SameSteps
  <2>4. Same(f, h, m)
    BY <2>3, Agree, Zenon
  <2> QED BY <2>4 DEF Same
<1> QED BY <1>2, <1>4, <1>9, <1>10

\* c is a, of m bits, and then b, of n bits.
JoinOf(c, a, b, m, n) ==
  /\ c \in Seq(Binary) /\ Len(c) = m + n
  /\ \A j \in 1 .. m + n : c[j] = IF j <= m THEN a[j] ELSE b[j - m]

\* Two codes joined are that.
LEMMA JoinAt ==
  ASSUME NEW a, NEW b, NEW m, NEW n, Code(a, m), Code(b, n)
  PROVE  JoinOf(a \o b, a, b, m, n)
BY DEF Code, JoinOf

\* sub is what one step of long division makes of bits, bit by bit.
Subtracted(sub, bits, i, poly, w, size) ==
  /\ sub \in [1 .. size -> Binary]
  /\ \A j \in 1 .. size :
       sub[j] = IF bits[i] = 0 \/ j < i \/ j > i + w THEN bits[j]
                ELSE IF j = i THEN Plus(bits[i], 1) ELSE Plus(bits[j], poly[j - i])

\* That is what Subtract does.
LEMMA SubtractIs ==
  ASSUME NEW w \in Nat \ {0}, NEW poly \in [1 .. w -> Binary], NEW size \in Nat,
         NEW bits \in [1 .. size -> Binary], NEW i \in 1 .. size, i + w <= size
  PROVE  Subtracted(Subtract(bits, i, poly), bits, i, poly, w, size)
<1>1. CASE bits[i] = 0
  BY <1>1 DEF Subtract, Subtracted
<1>2. CASE bits[i] # 0
  <2> DEFINE last == i + w
             gen == <<1>> \o poly
             a == SubSeq(bits, 1, i - 1)
             s == SubSeq(bits, i, last)
             b == Xor(s, gen)
             c == SubSeq(bits, last + 1, size)
             ab == a \o b
             abc == ab \o c
  <2>1. poly \in Seq(Binary) /\ Len(poly) = w /\ bits \in Seq(Binary) /\ Len(bits) = size
    BY Listing
  <2>2. last \in Nat /\ last <= size /\ last = i + w
    OBVIOUS
  <2>3. gen \in Seq(Binary) /\ Len(gen) = w + 1 /\ gen[1] = 1 /\ \A p \in 1 .. w : gen[p + 1] = poly[p]
    <3>1. <<1>> \in Seq(Binary) /\ Len(<<1>>) = 1
      BY DEF Binary
    <3> DEFINE one == <<1>>
    <3>2. one \in Seq(Binary) /\ Len(one) = 1 /\ one[1] = 1
      BY <3>1
    <3> HIDE DEF one
    <3> DEFINE both == one \o poly
    <3>3. /\ both \in Seq(Binary) /\ Len(both) = 1 + w
          /\ \A j \in 1 .. 1 + w : both[j] = IF j <= 1 THEN one[j] ELSE poly[j - 1]
      <4>1. Code(one, 1) /\ Code(poly, w)
        BY <2>1, <3>2 DEF Code
      <4>2. JoinOf(both, one, poly, 1, w)
        BY <4>1, JoinAt, Zenon
      <4> HIDE DEF both
      <4> QED BY <4>2 DEF JoinOf
    <3> HIDE DEF both
    <3>4. both \in Seq(Binary) /\ Len(both) = w + 1 /\ both[1] = 1 /\ \A p \in 1 .. w : both[p + 1] = poly[p]
      BY <3>2, <3>3
    <3> QED BY <3>4 DEF both, one
  <2> HIDE DEF gen
  <2>4. a \in Seq(Binary) /\ Len(a) = i - 1 /\ \A j \in 1 .. i - 1 : a[j] = bits[j]
    BY <2>1
  <2>5. s \in Seq(Binary) /\ Len(s) = w + 1 /\ \A p \in 1 .. w + 1 : s[p] = bits[i + p - 1]
    BY <2>1, <2>2
  <2>6. c \in Seq(Binary) /\ Len(c) = size - last /\ \A p \in 1 .. size - last : c[p] = bits[last + p]
    BY <2>1, <2>2
  <2> HIDE DEF a, s, c, last
  <2>7. b \in Seq(Binary) /\ Len(b) = w + 1 /\ \A p \in 1 .. w + 1 : b[p] = Plus(s[p], gen[p])
    <3>1. \A p \in 1 .. w + 1 : s[p] \in Binary /\ gen[p] \in Binary
      BY <2>3, <2>5
    <3>2. \A p \in 1 .. w + 1 : Plus(s[p], gen[p]) \in Binary
      BY <3>1, PlusPlus
    <3>3. DOMAIN s = 1 .. w + 1
      BY <2>5
    <3>4. b = [p \in 1 .. w + 1 |-> Plus(s[p], gen[p])]
      BY <3>3, Zenon DEF Xor, Plus
    <3>5. b \in [1 .. w + 1 -> Binary] /\ w + 1 \in Nat
      BY <3>2, <3>4
    <3> QED BY <3>4, <3>5, Listing
  <2> HIDE DEF b
  <2>8. /\ ab \in Seq(Binary) /\ Len(ab) = (i - 1) + (w + 1)
        /\ \A j \in 1 .. (i - 1) + (w + 1) : ab[j] = IF j <= i - 1 THEN a[j] ELSE b[j - (i - 1)]
    <3>1. Code(a, i - 1) /\ Code(b, w + 1)
      BY <2>4, <2>7 DEF Code
    <3>2. JoinOf(ab, a, b, i - 1, w + 1)
      BY <3>1, JoinAt, Zenon
    <3> HIDE DEF ab
    <3> QED BY <3>2 DEF JoinOf
  <2>9. /\ ab \in Seq(Binary) /\ Len(ab) = last
        /\ \A j \in 1 .. last : ab[j] = IF j <= i - 1 THEN a[j] ELSE b[j - (i - 1)]
    <3>1. (i - 1) + (w + 1) = last
      BY <2>2
    <3> HIDE DEF ab
    <3> QED BY <2>8, <3>1
  <2> HIDE DEF ab
  <2>10. /\ abc \in Seq(Binary) /\ Len(abc) = last + (size - last)
         /\ \A j \in 1 .. last + (size - last) : abc[j] = IF j <= last THEN ab[j] ELSE c[j - last]
    <3>1. Code(ab, last) /\ Code(c, size - last)
      BY <2>2, <2>6, <2>9 DEF Code
    <3>2. JoinOf(abc, ab, c, last, size - last)
      BY <3>1, JoinAt, Zenon
    <3> HIDE DEF abc
    <3> QED BY <3>2 DEF JoinOf
  <2>11. last + (size - last) = size
    BY <2>2
  <2>12. Subtract(bits, i, poly) = abc
    <3>1. Len(poly) = w /\ Len(bits) = size /\ i + w = last
      BY <2>1, <2>2
    <3>2. Subtract(bits, i, poly)
            = SubSeq(bits, 1, i - 1) \o Xor(SubSeq(bits, i, i + w), <<1>> \o poly)
                \o SubSeq(bits, i + w + 1, size)
      BY <1>2, <2>1, Zenon DEF Subtract
    <3> QED BY <3>2, Zenon DEF abc, ab, a, b, c, s, gen, last
  <2> HIDE DEF abc
  <2>13. abc \in [1 .. size -> Binary]
    BY <2>10, <2>11
  <2>14. ASSUME NEW j \in 1 .. size
         PROVE  abc[j] = IF j < i \/ j > i + w THEN bits[j]
                         ELSE IF j = i THEN Plus(bits[i], 1) ELSE Plus(bits[j], poly[j - i])
    <3>1. CASE j < i
      <4>1. j \in 1 .. last + (size - last) /\ j <= last /\ j \in 1 .. last /\ j \in 1 .. i - 1
        BY <2>2, <2>11, <3>1
      <4>2. abc[j] = ab[j] /\ ab[j] = a[j] /\ a[j] = bits[j]
        BY <2>4, <2>9, <2>10, <4>1
      <4> QED BY <3>1, <4>2
    <3>2. CASE j = i
      <4>1. abc[j] = b[1]
        <5>1. j <= last /\ ~ (j <= i - 1) /\ j - (i - 1) = 1 /\ j \in 1 .. last
          BY <2>2, <3>2
        <5> QED BY <2>9, <2>10, <2>11, <5>1
      <4>2. b[1] = Plus(bits[i], 1)
        <5>1. b[1] = Plus(s[1], gen[1]) /\ s[1] = bits[i + 1 - 1] /\ i + 1 - 1 = i
          BY <2>5, <2>7
        <5> QED BY <2>3, <5>1
      <4> QED BY <3>2, <4>1, <4>2
    <3>3. CASE j > i /\ j <= i + w
      <4> DEFINE p == j - i
      <4>1. p \in 1 .. w /\ p + 1 \in 1 .. w + 1 /\ j - (i - 1) = p + 1 /\ i + (p + 1) - 1 = j
        BY <3>3
      <4>2. abc[j] = b[p + 1]
        <5>1. j <= last /\ ~ (j <= i - 1) /\ j \in 1 .. last
          BY <2>2, <3>3
        <5> QED BY <2>9, <2>10, <2>11, <4>1, <5>1
      <4>3. b[p + 1] = Plus(s[p + 1], gen[p + 1]) /\ s[p + 1] = bits[i + (p + 1) - 1]
        BY <2>5, <2>7, <4>1
      <4>4. b[p + 1] = Plus(bits[j], poly[p])
        BY <2>3, <4>1, <4>3
      <4> QED BY <3>3, <4>2, <4>4
    <3>4. CASE j > i + w
      <4>1. j \in 1 .. last + (size - last) /\ ~ (j <= last)
        BY <2>2, <2>11, <3>4
      <4>2. abc[j] = c[j - last]
        BY <2>10, <4>1
      <4> DEFINE q == j - last
      <4>3. q \in 1 .. size - last /\ last + q = j
        BY <2>2, <3>4
      <4> HIDE DEF q
      <4>4. c[q] = bits[last + q]
        BY <2>6, <4>3
      <4>5. abc[j] = bits[j]
        BY <4>2, <4>3, <4>4 DEF q
      <4>6. ~ (j < i) /\ j > i + w
        BY <3>4
      <4> QED BY <4>5, <4>6
    <3> QED BY <3>1, <3>2, <3>3, <3>4
  <2> QED BY <1>2, <2>12, <2>13, <2>14 DEF Subtracted
<1> QED BY <1>1, <1>2

\* What is left of the bits after i steps of long division, with the register of
\* their checksum.
Remains(all, i, reg, w, size) ==
  [j \in 1 .. size |-> IF j <= i THEN 0 ELSE IF j <= i + w THEN Plus(all[j], reg[j - i]) ELSE all[j]]

\* The step at bit i of the division of so many bits by a polynomial of degree w.
Dividing(w, poly, size, all, i, reg) ==
  /\ w \in Nat \ {0} /\ poly \in [1 .. w -> Binary] /\ size \in Nat
  /\ all \in [1 .. size -> Binary] /\ i \in 1 .. size /\ i + w <= size
  /\ reg \in [1 .. w -> Binary]

\* What that step does.
Divided(w, poly, size, all, i, reg) ==
  Remains(all, i, Shift(reg, all[i], poly), w, size)
    = Subtract(Remains(all, i - 1, reg, w, size), i, poly)

\* A step of the division takes the register a step on: what remains of the bits
\* that were passed is the register, added to the bits that follow.
LEMMA RemainsStep ==
  ASSUME NEW w, NEW poly, NEW size, NEW all, NEW i, NEW reg, Dividing(w, poly, size, all, i, reg)
  PROVE  Divided(w, poly, size, all, i, reg)
<1> SUFFICES ASSUME w \in Nat \ {0}, poly \in [1 .. w -> Binary], size \in Nat,
                    all \in [1 .. size -> Binary], i \in 1 .. size, i + w <= size,
                    reg \in [1 .. w -> Binary]
             PROVE  Remains(all, i, Shift(reg, all[i], poly), w, size)
                      = Subtract(Remains(all, i - 1, reg, w, size), i, poly)
  BY DEF Dividing, Divided
<1> DEFINE next == Shift(reg, all[i], poly)
           old == Remains(all, i - 1, reg, w, size)
           new == Remains(all, i, next, w, size)
           sub == Subtract(old, i, poly)
           moved(p) == IF p = w THEN 0 ELSE reg[p + 1]
<1>1. 0 \in Binary /\ 1 \in Binary /\ all[i] \in Binary
  BY DEF Binary
<1>2. next \in [1 .. w -> Binary]
  BY <1>1, ShiftIs DEF Shifted
<1>3. ASSUME NEW p \in 1 .. w
      PROVE  next[p] = IF reg[1] = all[i] THEN moved(p) ELSE Plus(moved(p), poly[p])
  <2>1. Shifted(next, reg, all[i], poly, w)
    BY <1>1, ShiftIs
  <2> HIDE DEF next
  <2> QED BY <2>1, Zenon DEF Shifted
<1>4. ASSUME NEW j \in 1 .. size
      PROVE  /\ old[j] = IF j <= i - 1 THEN 0
                         ELSE IF j <= (i - 1) + w THEN Plus(all[j], reg[j - (i - 1)]) ELSE all[j]
             /\ new[j] = IF j <= i THEN 0 ELSE IF j <= i + w THEN Plus(all[j], next[j - i]) ELSE all[j]
  BY Zenon DEF Remains
<1>5. old = [j \in 1 .. size |-> old[j]] /\ new = [j \in 1 .. size |-> new[j]]
  BY Zenon DEF Remains
<1> HIDE DEF old, new, next
<1>6. ASSUME NEW j \in 1 .. size PROVE old[j] \in Binary
  <2>1. CASE j <= i - 1
    BY <1>1, <1>4, <2>1
  <2>2. CASE ~ (j <= i - 1) /\ j <= (i - 1) + w
    <3>1. all[j] \in Binary /\ reg[j - (i - 1)] \in Binary
      BY <2>2
    <3>2. old[j] = Plus(all[j], reg[j - (i - 1)])
      BY <1>4, <2>2
    <3> QED BY <3>1, <3>2, PlusPlus
  <2>3. CASE j > (i - 1) + w
    <3>1. old[j] = all[j] /\ all[j] \in Binary
      BY <1>4, <2>3
    <3> QED BY <3>1
  <2> QED BY <2>1, <2>2, <2>3
<1>7. old \in [1 .. size -> Binary]
  BY <1>5, <1>6
<1>8. /\ sub \in [1 .. size -> Binary]
      /\ \A j \in 1 .. size :
           sub[j] = IF old[i] = 0 \/ j < i \/ j > i + w THEN old[j]
                    ELSE IF j = i THEN Plus(old[i], 1) ELSE Plus(old[j], poly[j - i])
  <2>1. Subtracted(sub, old, i, poly, w, size)
    BY <1>7, SubtractIs
  <2> HIDE DEF sub
  <2> QED BY <2>1, Zenon DEF Subtracted
<1> HIDE DEF sub
<1>9. old[i] = Plus(all[i], reg[1]) /\ reg[1] \in Binary
  <2>1. i - (i - 1) = 1 /\ ~ (i <= i - 1) /\ i <= (i - 1) + w /\ 1 \in 1 .. w
    OBVIOUS
  <2> QED BY <1>4, <2>1
<1>10. old[i] = 0 <=> reg[1] = all[i]
  BY <1>1, <1>9, PlusIs
<1>11. ASSUME NEW j \in 1 .. size PROVE new[j] = sub[j]
  <2>1. CASE j < i
    <3>1. new[j] = 0 /\ old[j] = 0
      BY <1>4, <2>1
    <3>2. sub[j] = old[j]
      BY <1>8, <2>1
    <3> QED BY <3>1, <3>2
  <2>2. CASE j = i
    <3>1. new[j] = 0
      BY <1>4, <2>2
    <3>2. CASE old[i] = 0
      BY <1>8, <2>2, <3>1, <3>2
    <3>3. CASE old[i] # 0
      <4>1. old[i] = 1
        BY <1>6, <3>3 DEF Binary
      <4>2. sub[j] = Plus(old[i], 1)
        BY <1>8, <2>2, <3>3
      <4>3. Plus(1, 1) = 0
        BY <1>1, PlusPlus
      <4> QED BY <3>1, <4>1, <4>2, <4>3
    <3> QED BY <3>2, <3>3
  <2>3. CASE j > i /\ j <= i + w
    <3> DEFINE p == j - i
    <3>1. p \in 1 .. w /\ p + 1 = j - (i - 1)
      BY <2>3
    <3>2. new[j] = Plus(all[j], next[p])
      BY <1>4, <2>3
    <3>3. old[j] = Plus(all[j], moved(p))
      <4>1. CASE p = w
        <5>1. j > (i - 1) + w /\ ~ (j <= i - 1)
          BY <2>3, <4>1
        <5>2. old[j] = all[j] /\ all[j] \in Binary
          BY <1>4, <5>1
        <5> QED BY <1>1, <4>1, <5>2, PlusPlus
      <4>2. CASE p # w
        <5>1. j <= (i - 1) + w /\ ~ (j <= i - 1)
          BY <2>3, <3>1, <4>2
        <5>2. old[j] = Plus(all[j], reg[p + 1])
          BY <1>4, <3>1, <5>1
        <5> QED BY <4>2, <5>2
      <4> QED BY <4>1, <4>2
    <3>4. moved(p) \in Binary /\ all[j] \in Binary /\ poly[p] \in Binary
      BY <1>1, <3>1
    <3>5. sub[j] = IF old[i] = 0 THEN old[j] ELSE Plus(old[j], poly[p])
      BY <1>8, <2>3
    <3>6. next[p] = IF reg[1] = all[i] THEN moved(p) ELSE Plus(moved(p), poly[p])
      BY <1>3, <3>1
    <3> HIDE DEF p, moved
    <3>7. Plus(Plus(all[j], moved(p)), poly[p]) = Plus(all[j], Plus(moved(p), poly[p]))
      BY <3>4, PlusTwice
    <3> QED BY <1>10, <3>2, <3>3, <3>5, <3>6, <3>7
  <2>4. CASE j > i + w
    <3>1. new[j] = all[j] /\ old[j] = all[j]
      BY <1>4, <2>4
    <3>2. sub[j] = old[j]
      BY <1>8, <2>4
    <3> QED BY <3>1, <3>2
  <2> QED BY <2>1, <2>2, <2>3, <2>4
<1>12. new = sub
  BY <1>5, <1>8, <1>11
<1> QED BY <1>12 DEF new, sub, old, next

\* Long division, step by step.
DivTo(bits, poly, n, g) ==
  g = [i \in 0 .. n |-> IF i = 0 THEN bits ELSE Subtract(g[i - 1], i, poly)]

\* The steps of a byte of them, from rest after step a to the one after step b.
SubtractTo(rest, poly, a, b, s) ==
  s = [i \in a .. b |-> IF i = a THEN rest ELSE Subtract(s[i - 1], i, poly)]

\* A byte of steps leads where they lead one by one.
LEMMA SubtractByteIs ==
  ASSUME NEW poly, NEW n \in Nat, NEW g, NEW bits, DivTo(bits, poly, n, g),
         \A i \in 0 .. n : g[i] # <<>>, NEW k \in Nat, NEW a, NEW b, ByteOf(k, n, a, b)
  PROVE  SubtractByte(g[a], k, n, poly) = g[b]
<1> DEFINE f == CHOOSE x : SubtractTo(g[a], poly, a, b, x)
           s == [i \in a .. b |-> g[i]]
<1>1. a \in Nat /\ b \in Nat /\ a <= b /\ b <= n /\ a = ByteEnd(k - 1, n) /\ b = ByteEnd(k, n)
  BY DEF ByteOf
<1>2. ASSUME NEW i \in a + 1 .. b PROVE g[i] = Subtract(g[i - 1], i, poly)
  <2>1. i \in 0 .. n /\ i # 0
    BY <1>1
  <2> QED BY <2>1, Zenon DEF DivTo
<1>3. SubtractTo(g[a], poly, a, b, s)
  <2>1. ASSUME NEW i \in a .. b
        PROVE  s[i] = IF i = a THEN g[a] ELSE Subtract(s[i - 1], i, poly)
    <3>1. CASE i = a
      BY <3>1
    <3>2. CASE i # a
      <4>1. i \in a + 1 .. b /\ i - 1 \in a .. b
        BY <1>1, <3>2
      <4>2. s[i - 1] = g[i - 1] /\ s[i] = g[i]
        BY <4>1
      <4> QED BY <1>2, <3>2, <4>1, <4>2
    <3> QED BY <3>1, <3>2
  <2>2. s = [i \in a .. b |-> s[i]]
    OBVIOUS
  <2> HIDE DEF s
  <2>3. s = [i \in a .. b |-> IF i = a THEN g[a] ELSE Subtract(s[i - 1], i, poly)]
    BY <2>1, <2>2
  <2> QED BY <2>3, Zenon DEF SubtractTo
<1>4. SubtractTo(g[a], poly, a, b, f)
  <2> HIDE DEF s
  <2> QED BY <1>3, Zenon
<1>5. SubtractByte(g[a], k, n, poly) = IF g[a] = <<>> THEN g[a] ELSE f[b]
  <2> DEFINE h == CHOOSE x : SubtractTo(g[a], poly, ByteEnd(k - 1, n), ByteEnd(k, n), x)
  <2>1. SubtractByte(g[a], k, n, poly) = IF g[a] = <<>> THEN g[a] ELSE h[ByteEnd(k, n)]
    BY Zenon DEF SubtractByte, SubtractTo
  <2> QED BY <1>1, <2>1
<1> HIDE DEF f
<1>6. f[b] = g[b]
  <2>1. f[a] = g[a]
    BY <1>1, <1>4 DEF SubtractTo
  <2>2. ASSUME NEW i \in a + 1 .. b, f[i - 1] = g[i - 1] PROVE f[i] = g[i]
    <3>1. i \in a .. b /\ i # a
      BY <1>1
    <3>2. f[i] = Subtract(f[i - 1], i, poly)
      BY <1>4, <3>1, Zenon DEF SubtractTo
    <3> QED BY <1>2, <2>2, <3>2
  <2>3. SameSteps(f, g, a, b)
    BY <1>1, <2>1, <2>2 DEF SameSteps
  <2>4. Same(f, g, b)
    BY <2>3, Agree, Zenon
  <2> QED BY <2>4 DEF Same
<1>7. g[a] # <<>>
  BY <1>1
<1> QED BY <1>5, <1>6, <1>7

\* What is left after every byte of steps.
DivBytesTo(bits, poly, n, m, h) ==
  h = [k \in 0 .. m |-> IF k = 0 THEN bits ELSE SubtractByte(h[k - 1], k, n, poly)]

\* Bits are divisible if a division that is known ends with zeros.
LEMMA DivisibleIs ==
  ASSUME NEW bits, NEW poly, NEW n \in Nat, Len(bits) - Len(poly) = n, NEW g, DivTo(bits, poly, n, g),
         \A i \in 0 .. n : g[i] # <<>>, g[n] = [j \in 1 .. Len(bits) |-> 0]
  PROVE  Divisible(bits, poly)
<1> DEFINE m == LastByte(n)
           f == CHOOSE x : DivBytesTo(bits, poly, n, m, x)
           h == [k \in 0 .. m |-> g[ByteEnd(k, n)]]
<1>1. /\ m \in Nat /\ ByteEnd(0, n) = 0 /\ ByteEnd(m, n) = n
      /\ \A k \in 1 .. m : ByteOf(k, n, ByteEnd(k - 1, n), ByteEnd(k, n))
  BY BytesAre
<1>2. Divisible(bits, poly) <=> f[m] = [j \in 1 .. Len(bits) |-> 0]
  <2> DEFINE steps == Len(bits) - Len(poly)
             x == CHOOSE y : DivBytesTo(bits, poly, steps, LastByte(steps), y)
  <2>1. Divisible(bits, poly) <=> x[LastByte(steps)] = [j \in 1 .. Len(bits) |-> 0]
    BY Zenon DEF Divisible, DivBytesTo
  <2>2. steps = n
    OBVIOUS
  <2> HIDE DEF steps
  <2> QED BY <2>1, <2>2, Zenon
<1> HIDE DEF m
<1>3. ASSUME NEW k \in 1 .. m PROVE h[k] = SubtractByte(h[k - 1], k, n, poly)
  <2>1. k \in 0 .. m /\ k - 1 \in 0 .. m /\ k \in Nat
    BY <1>1
  <2>2. ByteOf(k, n, ByteEnd(k - 1, n), ByteEnd(k, n))
    BY <1>1
  <2>3. SubtractByte(g[ByteEnd(k - 1, n)], k, n, poly) = g[ByteEnd(k, n)]
    BY <2>1, <2>2, SubtractByteIs
  <2> QED BY <2>1, <2>3
<1>4. h[0] = bits
  <2>1. h[0] = g[0]
    BY <1>1
  <2>2. g[0] = bits
    BY DEF DivTo
  <2> QED BY <2>1, <2>2
<1>5. DivBytesTo(bits, poly, n, m, h)
  <2>1. h = [k \in 0 .. m |-> h[k]]
    OBVIOUS
  <2> HIDE DEF h
  <2>2. ASSUME NEW k \in 0 .. m
        PROVE  h[k] = IF k = 0 THEN bits ELSE SubtractByte(h[k - 1], k, n, poly)
    <3>1. k # 0 => k \in 1 .. m
      BY <1>1
    <3> QED BY <1>3, <1>4, <3>1, Zenon
  <2>3. h = [k \in 0 .. m |-> IF k = 0 THEN bits ELSE SubtractByte(h[k - 1], k, n, poly)]
    BY <2>1, <2>2
  <2> QED BY <2>3, Zenon DEF DivBytesTo
<1>6. DivBytesTo(bits, poly, n, m, f)
  <2> HIDE DEF h
  <2> QED BY <1>5, Zenon
<1>7. h[m] = g[n]
  BY <1>1
<1> HIDE DEF f, h
<1>8. f[m] = h[m]
  <2>1. f[0] = h[0]
    BY <1>1, <1>4, <1>6 DEF DivBytesTo
  <2>2. ASSUME NEW k \in 0 + 1 .. m, f[k - 1] = h[k - 1] PROVE f[k] = h[k]
    <3>1. k \in 0 .. m /\ k # 0 /\ k \in 1 .. m
      BY <1>1
    <3>2. f[k] = SubtractByte(f[k - 1], k, n, poly)
      BY <1>6, <3>1, Zenon DEF DivBytesTo
    <3> QED BY <1>3, <2>2, <3>1, <3>2
  <2>3. SameSteps(f, h, 0, m)
    BY <1>1, <2>1, <2>2 DEF SameSteps
  <2>4. Same(f, h, m)
    BY <2>3, Agree, Zenon
  <2> QED BY <2>4 DEF Same
<1> QED BY <1>2, <1>7, <1>8

\* Bits with their checksum divide: a reader accepts them.
LEMMA CrcDivides ==
  ASSUME NEW w \in Nat \ {0}, NEW poly, Code(poly, w), NEW bits \in Seq(Binary)
  PROVE  Code(Crc(bits, poly), w) /\ Divisible(bits \o Crc(bits, poly), poly)
<1> DEFINE n == Len(bits)
           crc == Crc(bits, poly)
           all == bits \o crc
           size == n + w
<1>1. n \in Nat /\ Code(bits, n)
  BY DEF Code
<1> HIDE DEF n
<1>2. poly \in [1 .. w -> Binary]
  BY DEF Code
<1>3. PICK g \in [0 .. n -> [1 .. w -> Binary]] : RegTo(bits, poly, n, g) /\ crc = g[n]
  <2>1. Len(bits) = n
    BY DEF n
  <2> QED BY <1>1, <1>2, <2>1, CrcIs, ZenonT(60)
<1> HIDE DEF crc
<1>4. crc \in [1 .. w -> Binary]
  BY <1>1, <1>3
<1>5. Code(crc, w)
  BY <1>4, Listing DEF Code
<1>6. JoinOf(all, bits, crc, n, w)
  BY <1>1, <1>5, JoinAt, Zenon
<1> HIDE DEF all
<1>7. all \in [1 .. size -> Binary] /\ Len(all) = size /\ size \in Nat
  BY <1>1, <1>6 DEF JoinOf
<1>8. /\ \A j \in 1 .. n : all[j] = bits[j]
      /\ \A j \in 1 .. w : all[n + j] = crc[j]
  BY <1>1, <1>6 DEF JoinOf
<1> DEFINE d == [i \in 0 .. n |-> Remains(all, i, g[i], w, size)]
<1>9. d[0] = all
  <2>1. g[0] = [j \in DOMAIN poly |-> 0]
    BY <1>1, <1>3 DEF RegTo
  <2>2. \A j \in 1 .. w : g[0][j] = 0
    BY <1>2, <2>1
  <2>3. d[0] = Remains(all, 0, g[0], w, size)
    BY <1>1
  <2>4. ASSUME NEW j \in 1 .. size
        PROVE  (IF j <= 0 THEN 0 ELSE IF j <= 0 + w THEN Plus(all[j], g[0][j - 0]) ELSE all[j]) = all[j]
    <3>1. all[j] \in Binary
      BY <1>7
    <3>2. Plus(all[j], 0) = all[j]
      BY <3>1, PlusPlus DEF Binary
    <3>3. CASE j <= w
      <4>1. g[0][j - 0] = 0
        BY <2>2, <3>3
      <4> QED BY <3>2, <3>3, <4>1
    <3>4. CASE j > w
      BY <3>4
    <3> QED BY <3>3, <3>4
  <2>5. Remains(all, 0, g[0], w, size) = [j \in 1 .. size |-> all[j]]
    BY <2>4, Zenon DEF Remains
  <2> QED BY <1>7, <2>3, <2>5
<1>10. ASSUME NEW i \in 1 .. n PROVE d[i] = Subtract(d[i - 1], i, poly)
  <2>1. i \in 0 .. n /\ i # 0 /\ i - 1 \in 0 .. n /\ i \in 1 .. size /\ i + w <= size
    BY <1>1
  <2>2. g[i] = Shift(g[i - 1], bits[i], poly) /\ g[i - 1] \in [1 .. w -> Binary]
    BY <1>3, <2>1 DEF RegTo
  <2>3. bits[i] = all[i]
    BY <1>8
  <2>4. d[i] = Remains(all, i, g[i], w, size) /\ d[i - 1] = Remains(all, i - 1, g[i - 1], w, size)
    BY <2>1
  <2> DEFINE r == g[i - 1]
  <2> HIDE DEF d, size
  <2>5. r \in [1 .. w -> Binary]
    BY <2>2
  <2> HIDE DEF r
  <2> DEFINE z == size
  <2>6. z \in Nat /\ all \in [1 .. z -> Binary] /\ i \in 1 .. z /\ i + w <= z
    BY <1>7, <2>1
  <2> HIDE DEF z
  <2>7. Remains(all, i, Shift(r, all[i], poly), w, z) = Subtract(Remains(all, i - 1, r, w, z), i, poly)
    <3>1. Dividing(w, poly, z, all, i, r)
      BY <1>2, <2>5, <2>6 DEF Dividing
    <3>2. Divided(w, poly, z, all, i, r)
      BY <3>1, RemainsStep, Zenon
    <3> QED BY <3>2 DEF Divided
  <2> QED BY <2>2, <2>3, <2>4, <2>7 DEF r, z
<1>11. DivTo(all, poly, n, d)
  <2> DEFINE step(i) == IF i = 0 THEN all ELSE Subtract(d[i - 1], i, poly)
  <2>1. d = [i \in 0 .. n |-> d[i]]
    OBVIOUS
  <2> HIDE DEF d
  <2>2. ASSUME NEW i \in 0 .. n PROVE d[i] = step(i)
    <3>1. CASE i = 0
      BY <1>9, <3>1
    <3>2. CASE i \in 1 .. n
      BY <1>10, <3>2
    <3> QED BY <1>1, <3>1, <3>2
  <2>3. [i \in 0 .. n |-> d[i]] = [i \in 0 .. n |-> step(i)]
    BY <2>2, Zenon
  <2>4. d = [i \in 0 .. n |-> step(i)]
    BY <2>1, <2>3, Zenon
  <2> QED BY <2>4, Zenon DEF DivTo
<1>12. d[n] = [j \in 1 .. Len(all) |-> 0]
  <2>1. d[n] = Remains(all, n, g[n], w, size)
    BY <1>1
  <2>2. ASSUME NEW j \in 1 .. size
        PROVE  (IF j <= n THEN 0 ELSE IF j <= n + w THEN Plus(all[j], g[n][j - n]) ELSE all[j]) = 0
    <3>1. CASE j <= n
      BY <3>1
    <3>2. CASE j > n
      <4>1. j - n \in 1 .. w /\ n + (j - n) = j /\ j <= n + w
        BY <1>1, <3>2
      <4>2. all[j] = crc[j - n] /\ all[j] \in Binary /\ g[n][j - n] = all[j]
        BY <1>3, <1>7, <1>8, <4>1
      <4>3. Plus(all[j], all[j]) = 0
        BY <4>2, PlusPlus
      <4> QED BY <3>2, <4>1, <4>2, <4>3
    <3> QED BY <1>1, <3>1, <3>2
  <2>3. Remains(all, n, g[n], w, size) = [j \in 1 .. size |-> 0]
    BY <2>2, Zenon DEF Remains
  <2> QED BY <1>7, <2>1, <2>3
<1>13. Len(all) - Len(poly) = n
  <2>1. Len(poly) = w
    BY DEF Code
  <2> QED BY <1>1, <1>7, <2>1
<1>14. ASSUME NEW i \in 0 .. n PROVE d[i] # <<>>
  <2>1. d[i] = Remains(all, i, g[i], w, size)
    OBVIOUS
  <2>2. DOMAIN Remains(all, i, g[i], w, size) = 1 .. size
    BY DEF Remains
  <2>3. 1 \in 1 .. size /\ DOMAIN <<>> = {}
    BY <1>1
  <2> QED BY <2>1, <2>2, <2>3
<1>15. Divisible(all, poly)
  <2> HIDE DEF d, size
  <2> QED BY <1>1, <1>11, <1>12, <1>13, <1>14, DivisibleIs
<1> QED BY <1>5, <1>15 DEF all, crc

-----------------------------------------------------------------------------
(* Coded numbers.                                                          *)

\* Marks of bytes.
LEMMA ByteMarks ==
  ASSUME NEW bits, NEW codes, NEW at, NEW pos, NEW end, NEW n \in Nat, Len(codes) = n,
         Marks(bits, codes, at, pos, end), \A i \in 1 .. n : Len(codes[i]) = 8
  PROVE  /\ end = pos + 8 * n /\ pos \in Nat \ {0}
         /\ \A i \in 1 .. n : At(bits, pos + 8 * (i - 1), codes[i])
<1>1. /\ at \in [0 .. n -> Nat \ {0}] /\ at[0] = pos /\ at[n] = end
      /\ \A i \in 1 .. n : at[i] = at[i - 1] + 8 /\ At(bits, at[i - 1], codes[i])
  BY DEF Marks
<1> DEFINE T == {i \in 0 .. n : at[i] = pos + 8 * i}
<1>2. 0 \in T
  BY <1>1
<1>3. ASSUME NEW m \in 0 .. n, m \in T, m < n PROVE m + 1 \in T
  <2>1. m + 1 \in 1 .. n /\ (m + 1) - 1 = m
    BY <1>3
  <2>2. at[m + 1] = at[m] + 8 /\ at[m] = pos + 8 * m /\ pos \in Nat
    BY <1>1, <1>3, <2>1
  <2> QED BY <2>1, <2>2
<1>4. 0 .. n \subseteq T
  <2> HIDE DEF T
  <2> QED BY <1>2, <1>3, Climb
<1>5. ASSUME NEW i \in 1 .. n PROVE At(bits, pos + 8 * (i - 1), codes[i])
  <2>1. i - 1 \in 0 .. n
    OBVIOUS
  <2>2. at[i - 1] = pos + 8 * (i - 1)
    BY <1>4, <2>1
  <2> QED BY <1>1, <2>2
<1>6. at[n] = pos + 8 * n
  BY <1>4
<1>7. pos \in Nat \ {0}
  BY <1>1
<1> QED BY <1>1, <1>5, <1>6, <1>7

\* Ones counts the ones before a zero.
LEMMA OnesBack ==
  ASSUME NEW bits, NEW pos, NEW k \in 0 .. 7, bits[pos + k] = 0,
         \A m \in 0 .. k - 1 : bits[pos + m] = 1
  PROVE  Ones(bits, pos) = k
<1> DEFINE P(n) == bits[pos + n] = 0 /\ \A m \in 0 .. n - 1 : bits[pos + m] = 1
           c == CHOOSE n \in 0 .. 7 : P(n)
<1>1. P(k)
  OBVIOUS
<1>2. ASSUME NEW n \in 0 .. 7, P(n) PROVE n = k
  <2>1. CASE n < k
    <3>1. n \in 0 .. k - 1
      BY <2>1
    <3> QED BY <1>2, <3>1
  <2>2. CASE k < n
    <3>1. k \in 0 .. n - 1
      BY <2>2
    <3> QED BY <1>2, <3>1
  <2> QED BY <2>1, <2>2
<1>3. c \in 0 .. 7 /\ P(c)
  <2> HIDE DEF P
  <2> QED BY <1>1, Zenon
<1>4. c = k
  <2> HIDE DEF P, c
  <2> QED BY <1>2, <1>3
<1> QED BY <1>4, Zenon DEF Ones, P

\* Six bits of a number.
LEMMA Six ==
  ASSUME NEW v \in Nat, NEW k \in Nat
  PROVE  /\ v \div Pow2(k) \in Nat
         /\ (v \div Pow2(k)) \div 64 = v \div Pow2(k + 6)
<1> DEFINE q(i) == v \div Pow2(k + i)
           b(i) == q(i) % 2
<1>1. ASSUME NEW i \in Nat PROVE q(i) = 2 * q(i + 1) + b(i) /\ q(i) \in Int /\ b(i) \in {0, 1}
  <2>1. k + i \in Nat /\ (k + i) + 1 = k + (i + 1)
    OBVIOUS
  <2>2. q(i) = 2 * q(i + 1) + b(i) /\ q(i) \in Int
    BY <2>1, HalfDiv
  <2>3. ASSUME NEW x \in Int PROVE x % 2 \in {0, 1}
    OBVIOUS
  <2> HIDE DEF q
  <2> QED BY <2>2, <2>3
<1>2. q(0) \in Nat /\ k + 0 = k
  <2>1. Pow2(k + 0) \in Nat /\ Pow2(k + 0) >= 1
    BY Pow2Is
  <2> DEFINE p == Pow2(k + 0)
  <2>2. p \in Nat /\ p >= 1
    BY <2>1
  <2> HIDE DEF p
  <2>3. v \div p \in Nat
    BY <2>2
  <2> QED BY <2>3 DEF p
<1> HIDE DEF q, b
<1>3. /\ q(0) = 2 * q(1) + b(0) /\ q(1) = 2 * q(2) + b(1) /\ q(2) = 2 * q(3) + b(2)
      /\ q(3) = 2 * q(4) + b(3) /\ q(4) = 2 * q(5) + b(4) /\ q(5) = 2 * q(6) + b(5)
      /\ b(0) \in {0, 1} /\ b(1) \in {0, 1} /\ b(2) \in {0, 1}
      /\ b(3) \in {0, 1} /\ b(4) \in {0, 1} /\ b(5) \in {0, 1}
      /\ q(0) \in Int /\ q(1) \in Int /\ q(2) \in Int /\ q(3) \in Int /\ q(4) \in Int
      /\ q(5) \in Int /\ q(6) \in Int
  <2>1. 0 + 1 = 1 /\ 1 + 1 = 2 /\ 2 + 1 = 3 /\ 3 + 1 = 4 /\ 4 + 1 = 5 /\ 5 + 1 = 6
    OBVIOUS
  <2>2. /\ 0 \in Nat /\ 1 \in Nat /\ 2 \in Nat /\ 3 \in Nat /\ 4 \in Nat /\ 5 \in Nat /\ 6 \in Nat
    OBVIOUS
  <2>3. /\ q(0) = 2 * q(0 + 1) + b(0) /\ q(1) = 2 * q(1 + 1) + b(1) /\ q(2) = 2 * q(2 + 1) + b(2)
        /\ q(3) = 2 * q(3 + 1) + b(3) /\ q(4) = 2 * q(4 + 1) + b(4) /\ q(5) = 2 * q(5 + 1) + b(5)
    BY <1>1, <2>2, Zenon
  <2>4. /\ b(0) \in {0, 1} /\ b(1) \in {0, 1} /\ b(2) \in {0, 1}
        /\ b(3) \in {0, 1} /\ b(4) \in {0, 1} /\ b(5) \in {0, 1}
        /\ q(0) \in Int /\ q(1) \in Int /\ q(2) \in Int /\ q(3) \in Int /\ q(4) \in Int
        /\ q(5) \in Int /\ q(6) \in Int
    BY <1>1, <2>2, Zenon
  <2> QED BY <2>1, <2>3, <2>4, Zenon
<1> DEFINE r == b(0) + 2 * b(1) + 4 * b(2) + 8 * b(3) + 16 * b(4) + 32 * b(5)
<1>4. q(0) = 64 * q(6) + r /\ r \in 0 .. 64 - 1 /\ q(6) \in Int /\ q(0) \in Int
  BY <1>3
<1> HIDE DEF r
<1>5. q(0) \div 64 = q(6)
  BY <1>4, DivIs
<1> QED BY <1>2, <1>5 DEF q

\* How many bytes there are.
LEMMA Bytes ==
  ASSUME NEW v \in FrameNumbers
  PROVE  \/ NumberBytes(v) = 1 /\ v < 128
         \/ NumberBytes(v) = 2 /\ v < 2048
         \/ NumberBytes(v) = 3 /\ v < 65536
         \/ NumberBytes(v) = 4 /\ v < 2097152
         \/ NumberBytes(v) = 5
<1> DEFINE passed == {limit \in {128, 2048, 65536, 2097152} : v >= limit}
           one == {128}
           two == {128, 2048}
           three == {128, 2048, 65536}
           four == {128, 2048, 65536, 2097152}
<1>0. v \in Nat /\ v <= 67108863
  BY SMT DEF FrameNumbers
<1>1. NumberBytes(v) = 1 + Cardinality(passed)
  BY SMT DEF NumberBytes
<1>2. Cardinality({}) = 0
  BY FS_EmptySet, SMT
<1>3. IsFiniteSet(one) /\ Cardinality(one) = 1
  BY FS_Singleton, SMT
<1>4. IsFiniteSet(two) /\ Cardinality(two) = 2
  <2>1. two = one \cup {2048} /\ ~ (2048 \in one)
    BY SMT
  <2> HIDE DEF one, two
  <2> QED BY <1>3, <2>1, FS_AddElement, SMT
<1>5. IsFiniteSet(three) /\ Cardinality(three) = 3
  <2>1. three = two \cup {65536} /\ ~ (65536 \in two)
    BY SMT
  <2> HIDE DEF two, three
  <2> QED BY <1>4, <2>1, FS_AddElement, SMT
<1>6. IsFiniteSet(four) /\ Cardinality(four) = 4
  <2>1. four = three \cup {2097152} /\ ~ (2097152 \in three)
    BY SMT
  <2> HIDE DEF three, four
  <2> QED BY <1>5, <2>1, FS_AddElement, SMT
<1>7. CASE v < 128
  <2>1. passed = {}
    BY <1>0, <1>7, SMT
  <2> QED BY <1>1, <1>2, <1>7, <2>1, SMT
<1>8. CASE v >= 128 /\ v < 2048
  <2>1. passed = one
    BY <1>0, <1>8, SMT
  <2> HIDE DEF passed, one
  <2> QED BY <1>1, <1>3, <1>8, <2>1, SMT
<1>9. CASE v >= 2048 /\ v < 65536
  <2>1. passed = two
    BY <1>0, <1>9, SMT
  <2> HIDE DEF passed, two
  <2> QED BY <1>1, <1>4, <1>9, <2>1, SMT
<1>10. CASE v >= 65536 /\ v < 2097152
  <2>1. passed = three
    BY <1>0, <1>10, SMT
  <2> HIDE DEF passed, three
  <2> QED BY <1>1, <1>5, <1>10, <2>1, SMT
<1>11. CASE v >= 2097152
  <2>1. passed = four
    BY <1>0, <1>11, SMT
  <2> HIDE DEF passed, four
  <2> QED BY <1>1, <1>6, <1>11, <2>1, SMT
<1> QED BY <1>0, <1>7, <1>8, <1>9, <1>10, <1>11, SMT

\* The bytes of a number after the first.
NumberTail(v, n) ==
  [i \in 1 .. n - 1 |-> Bits(2, 2) \o Bits(v \div Pow2(6 * (n - 1 - i)), 6)]

\* Those bytes are codes: each begins with 10 and has six bits of the number.
LEMMA NumberTailIs ==
  ASSUME NEW v \in Nat, NEW n \in Nat \ {0}
  PROVE  /\ NumberTail(v, n) \in Seq(Seq(Binary)) /\ Len(NumberTail(v, n)) = n - 1
         /\ \A i \in 1 .. n - 1 :
              /\ Len(NumberTail(v, n)[i]) = 8
              /\ NumberTail(v, n)[i] = Bits(2, 2) \o Bits(v \div Pow2(6 * (n - 1 - i)), 6)
              /\ Code(Bits(2, 2), 2) /\ Code(Bits(v \div Pow2(6 * (n - 1 - i)), 6), 6)
              /\ v \div Pow2(6 * (n - 1 - i)) \in Nat
         /\ Code(FlattenSeq(NumberTail(v, n)), 8 * (n - 1))
<1> DEFINE tail == NumberTail(v, n)
           flat == FlattenSeq(tail)
           two == Bits(2, 2)
           six(i) == Bits(v \div Pow2(6 * (n - 1 - i)), 6)
<1>1. ASSUME NEW i \in 1 .. n - 1
      PROVE  Code(two, 2) /\ Code(six(i), 6) /\ Code(two \o six(i), 8) /\ v \div Pow2(6 * (n - 1 - i)) \in Nat
  <2> DEFINE q == v \div Pow2(6 * (n - 1 - i))
  <2>1. q \in Nat
    <3>1. 6 * (n - 1 - i) \in Nat
      OBVIOUS
    <3> QED BY <3>1, Six
  <2>2. q \in Int /\ 2 \in Int /\ 2 \in Nat /\ 6 \in Nat
    BY <2>1
  <2> HIDE DEF q
  <2>3. Code(two, 2) /\ Code(Bits(q, 6), 6)
    BY <2>2, CodeBits, Zenon
  <2>4. Code(two \o Bits(q, 6), 2 + 6)
    BY <2>3, CodeJoin, Zenon
  <2>5. 2 + 6 = 8
    OBVIOUS
  <2>6. Code(two \o Bits(q, 6), 8)
    BY <2>4, <2>5, Zenon
  <2> QED BY <2>1, <2>3, <2>6, Zenon DEF q
<1>2. \A i \in 1 .. n - 1 : tail[i] = two \o six(i)
  BY Zenon DEF NumberTail
<1>3. tail = [i \in 1 .. n - 1 |-> tail[i]]
  BY Zenon DEF NumberTail
<1> HIDE DEF tail, two, six
<1>4. \A i \in 1 .. n - 1 : tail[i] \in Seq(Binary) /\ Len(tail[i]) = 8
  BY <1>1, <1>2 DEF Code
<1>5. n - 1 \in Nat
  OBVIOUS
<1>6. tail \in [1 .. n - 1 -> Seq(Binary)]
  BY <1>3, <1>4
<1>7. tail \in Seq(Seq(Binary)) /\ Len(tail) = n - 1
  BY <1>5, <1>6, Listing
<1>8. flat \in Seq(Binary)
  BY <1>7, FlattenType
<1>9. At(flat, 1, flat)
  <2> HIDE DEF flat
  <2> QED BY <1>8 DEF At
<1>10. PICK at : Marks(flat, tail, at, 1, 1 + Len(flat))
  BY <1>7, <1>8, <1>9, FlattenAt
<1>11. 1 + Len(flat) = 1 + 8 * (n - 1)
  <2> DEFINE m == n - 1
             end == 1 + Len(flat)
  <2>1. m \in Nat /\ Len(tail) = m /\ Marks(flat, tail, at, 1, end) /\ \A i \in 1 .. m : Len(tail[i]) = 8
    BY <1>4, <1>5, <1>7, <1>10
  <2> HIDE DEF m, end, flat
  <2>2. end = 1 + 8 * m
    BY <2>1, ByteMarks
  <2> QED BY <2>2 DEF m, end
<1>12. Code(flat, 8 * (n - 1))
  <2> HIDE DEF flat
  <2> QED BY <1>5, <1>8, <1>11 DEF Code
<1> QED BY <1>1, <1>2, <1>4, <1>7, <1>12 DEF tail, two, six

\* The number that is put together byte by byte.
NumberTo(bits, pos, lead, m, g) ==
  g = [i \in 0 .. m |-> IF i = 0 THEN Unsigned(bits, pos + lead + 1, 7 - lead)
                        ELSE 64 * g[i - 1] + Unsigned(bits, pos + 8 * i + 2, 6)]

\* The number is the last of them.
LEMMA CodedIs ==
  ASSUME NEW bits, NEW pos, NEW lead, lead = Ones(bits, pos), NEW n \in Nat \ {0},
         n = IF lead = 0 THEN 1 ELSE lead, NEW g, NumberTo(bits, pos, lead, n - 1, g)
  PROVE  CodedAt(bits, pos) = [pos |-> pos + 8 * n, value |-> g[n - 1]]
<1> DEFINE m == n - 1
           f == CHOOSE x : NumberTo(bits, pos, lead, m, x)
<1>1. NumberTo(bits, pos, lead, m, f) /\ NumberTo(bits, pos, lead, m, g)
  BY Zenon
<1>2. CodedAt(bits, pos) = [pos |-> pos + 8 * n, value |-> f[n - 1]]
  <2> DEFINE l == Ones(bits, pos)
             b == IF l = 0 THEN 1 ELSE l
             h == CHOOSE x : NumberTo(bits, pos, l, b - 1, x)
  <2>1. CodedAt(bits, pos) = [pos |-> pos + 8 * b, value |-> h[b - 1]]
    BY Zenon DEF CodedAt, NumberTo
  <2>2. l = lead /\ b = n
    OBVIOUS
  <2> HIDE DEF l, b
  <2> QED BY <2>1, <2>2, Zenon
<1>3. m \in Nat
  OBVIOUS
<1> HIDE DEF f, m
<1> DEFINE T == {i \in 0 .. m : f[i] = g[i]}
<1>4. 0 \in T
  BY <1>1, <1>3 DEF NumberTo
<1>5. ASSUME NEW i \in 0 .. m, i \in T, i < m PROVE i + 1 \in T
  <2>1. i + 1 \in 0 .. m /\ i + 1 # 0 /\ (i + 1) - 1 = i
    BY <1>3, <1>5
  <2>2. /\ f[i + 1] = 64 * f[(i + 1) - 1] + Unsigned(bits, pos + 8 * (i + 1) + 2, 6)
        /\ g[i + 1] = 64 * g[(i + 1) - 1] + Unsigned(bits, pos + 8 * (i + 1) + 2, 6)
    BY <1>1, <2>1, Zenon DEF NumberTo
  <2>3. f[i] = g[i]
    BY <1>5
  <2> QED BY <2>1, <2>2, <2>3
<1>6. 0 .. m \subseteq T
  <2> HIDE DEF T
  <2> QED BY <1>3, <1>4, <1>5, Climb
<1>7. f[m] = g[m]
  BY <1>3, <1>6
<1> QED BY <1>2, <1>7 DEF m

\* The bits of the first byte.
NumberLead(v, n) ==
  IF n = 1 THEN Bits(v, 8)
  ELSE [i \in 1 .. n |-> 1] \o <<0>> \o Bits(v \div Pow2(6 * (n - 1)), 7 - n)

\* It is a byte.
LEMMA NumberLeadIs ==
  ASSUME NEW v \in Nat, NEW n \in 1 .. 5
  PROVE  /\ Code(NumberLead(v, n), 8)
         /\ n # 1 => Code([i \in 1 .. n |-> 1], n) /\ Code(<<0>>, 1)
                     /\ Code(Bits(v \div Pow2(6 * (n - 1)), 7 - n), 7 - n)
                     /\ Code([i \in 1 .. n |-> 1] \o <<0>>, n + 1)
<1> DEFINE ones == [i \in 1 .. n |-> 1]
           zero == <<0>>
           rest == Bits(v \div Pow2(6 * (n - 1)), 7 - n)
           both == ones \o zero
<1>1. CASE n = 1
  <2>1. v \in Int /\ 8 \in Nat
    OBVIOUS
  <2>2. Code(Bits(v, 8), 8)
    BY <2>1, CodeBits, Zenon
  <2> QED BY <1>1, <2>2, Zenon DEF NumberLead
<1>2. CASE n # 1
  <2>1. Code(ones, n)
    <3>1. ones \in [1 .. n -> Binary] /\ n \in Nat
      BY DEF Binary
    <3> HIDE DEF ones
    <3> QED BY <3>1, Listing DEF Code
  <2>2. Code(zero, 1)
    BY DEF Code, Binary
  <2>3. Code(rest, 7 - n)
    <3>1. 6 * (n - 1) \in Nat /\ 7 - n \in Nat
      OBVIOUS
    <3>2. v \div Pow2(6 * (n - 1)) \in Int
      BY <3>1, Six
    <3> QED BY <3>1, <3>2, CodeBits, Zenon
  <2>4. Code(both, n + 1)
    BY <2>1, <2>2, CodeJoin, Zenon
  <2>5. Code(both \o rest, (n + 1) + (7 - n))
    BY <2>3, <2>4, CodeJoin, Zenon
  <2>6. (n + 1) + (7 - n) = 8
    OBVIOUS
  <2>7. Code(both \o rest, 8)
    BY <2>5, <2>6, Zenon
  <2>8. NumberLead(v, n) = both \o rest
    BY <1>2, Zenon DEF NumberLead
  <2> QED BY <1>2, <2>1, <2>2, <2>3, <2>4, <2>7, <2>8, Zenon
<1> QED BY <1>1, <1>2

\* Small powers again.
LEMMA Powers ==
  /\ Pow2(12) = 4096 /\ Pow2(15) = 32768 /\ Pow2(16) = 65536 /\ Pow2(18) = 262144
  /\ Pow2(24) = 16777216
<1> DEFINE two(n) == Pow2(n)
<1>1. ASSUME NEW n \in Nat PROVE two(n + 1) = 2 * two(n)
  BY Pow2Is
<1>2. /\ two(8) = 256
  BY SmallPowers
<1> HIDE DEF two
<1>3. /\ two(9) = 512 /\ two(10) = 1024 /\ two(11) = 2048 /\ two(12) = 4096
  <2>1. two(8 + 1) = 2 * two(8) /\ two(9 + 1) = 2 * two(9) /\ two(10 + 1) = 2 * two(10) /\ two(11 + 1) = 2 * two(11)
    BY <1>1, SMT
  <2> QED BY <1>2, <2>1, SMT
<1>4. /\ two(13) = 8192 /\ two(14) = 16384 /\ two(15) = 32768 /\ two(16) = 65536
  <2>1. two(12 + 1) = 2 * two(12) /\ two(13 + 1) = 2 * two(13) /\ two(14 + 1) = 2 * two(14) /\ two(15 + 1) = 2 * two(15)
    BY <1>1, SMT
  <2> QED BY <1>3, <2>1, SMT
<1>5. /\ two(17) = 131072 /\ two(18) = 262144 /\ two(19) = 524288 /\ two(20) = 1048576
  <2>1. two(16 + 1) = 2 * two(16) /\ two(17 + 1) = 2 * two(17) /\ two(18 + 1) = 2 * two(18) /\ two(19 + 1) = 2 * two(19)
    BY <1>1, SMT
  <2> QED BY <1>4, <2>1, SMT
<1>6. /\ two(21) = 2097152 /\ two(22) = 4194304 /\ two(23) = 8388608 /\ two(24) = 16777216
  <2>1. two(20 + 1) = 2 * two(20) /\ two(21 + 1) = 2 * two(21) /\ two(22 + 1) = 2 * two(22) /\ two(23 + 1) = 2 * two(23)
    BY <1>1, SMT
  <2> QED BY <1>5, <2>1, SMT
<1> QED BY <1>3, <1>4, <1>5, <1>6, SMT DEF two

\* What is above all bytes but the first fits the first.
LEMMA LeadFits ==
  ASSUME NEW v \in FrameNumbers, NEW n, n = NumberBytes(v)
  PROVE  /\ n \in 1 .. 5 /\ v \in Nat /\ v \div Pow2(0) = v /\ (n = 1 => v <= 127)
         /\ n # 1 => v \div Pow2(6 * (n - 1)) \in 0 .. Pow2(7 - n) - 1
<1>1. v \in Nat /\ v <= 67108863
  BY SMT DEF FrameNumbers
<1>2. /\ Pow2(0) = 1 /\ Pow2(2) = 4 /\ Pow2(3) = 8 /\ Pow2(4) = 16 /\ Pow2(5) = 32 /\ Pow2(6) = 64
  BY SmallPowers
<1>3. v \div Pow2(0) = v
  BY <1>1, <1>2, SMT
<1>4. CASE n = 1 /\ v < 128
  BY <1>1, <1>3, <1>4, SMT
<1>5. CASE n = 2 /\ v < 2048
  <2>1. 6 * (n - 1) = 6 /\ 7 - n = 5
    BY <1>5, SMT
  <2>2. v \div 64 \in 0 .. 31
    BY <1>1, <1>5, SMT
  <2> QED BY <1>1, <1>2, <1>3, <1>5, <2>1, <2>2, SMT
<1>6. CASE n = 3 /\ v < 65536
  <2>1. 6 * (n - 1) = 12 /\ 7 - n = 4
    BY <1>6, SMT
  <2>2. v \div 4096 \in 0 .. 15
    BY <1>1, <1>6, SMT
  <2> QED BY <1>1, <1>2, <1>3, <1>6, <2>1, <2>2, Powers, SMT
<1>7. CASE n = 4 /\ v < 2097152
  <2>1. 6 * (n - 1) = 18 /\ 7 - n = 3
    BY <1>7, SMT
  <2>2. v \div 262144 \in 0 .. 7
    BY <1>1, <1>7, SMT
  <2> QED BY <1>1, <1>2, <1>3, <1>7, <2>1, <2>2, Powers, SMT
<1>8. CASE n = 5
  <2>1. 6 * (n - 1) = 24 /\ 7 - n = 2
    BY <1>8, SMT
  <2>2. v \div 16777216 \in 0 .. 3
    BY <1>1, SMT
  <2> QED BY <1>1, <1>2, <1>3, <1>8, <2>1, <2>2, Powers, SMT
<1> QED BY <1>4, <1>5, <1>6, <1>7, <1>8, Bytes, SMT

\* The first byte of a number, and what is read of it.
LEMMA LeadBack ==
  ASSUME NEW bits \in Seq(Binary), NEW pos, NEW v \in FrameNumbers, NEW n, n = NumberBytes(v),
         At(bits, pos, NumberLead(v, n))
  PROVE  LET lead == Ones(bits, pos)
         IN /\ n = IF lead = 0 THEN 1 ELSE lead
            /\ Unsigned(bits, pos + lead + 1, 7 - lead) = v \div Pow2(6 * (n - 1))
<1>1. /\ n \in 1 .. 5 /\ v \in Nat /\ v \div Pow2(0) = v /\ (n = 1 => v <= 127)
      /\ n # 1 => v \div Pow2(6 * (n - 1)) \in 0 .. Pow2(7 - n) - 1
  BY LeadFits
<1>2. pos \in Nat \ {0}
  BY DEF At
<1>3. CASE n = 1
  <2> DEFINE code == Bits(v, 8)
             low == Bits(v, 7)
             top == (v \div Pow2(7)) % 2
  <2>1. At(bits, pos, code)
    BY <1>3, Zenon DEF NumberLead
  <2>2. Code(<<0>>, 1) /\ Code(low, 7)
    <3>1. Code(<<0>>, 1)
      BY DEF Code, Binary
    <3>2. v \in Int /\ 7 \in Nat
      BY <1>1
    <3> QED BY <3>1, <3>2, CodeBits, Zenon
  <2>3. top = 0
    <3>1. v \div 128 = 0
      BY <1>1, <1>3
    <3>2. top = 0 % 2
      BY <3>1, SmallPowers
    <3> QED BY <3>2
  <2>4. code = <<0>> \o low
    <3>1. v \in Int /\ 7 \in Nat /\ 7 + 1 = 8
      BY <1>1
    <3>2. Bits(v, 7 + 1) = <<(v \div Pow2(7)) % 2>> \o Bits(v, 7)
      BY <3>1, BitsTail, Zenon
    <3> HIDE DEF top, low
    <3> QED BY <2>3, <3>1, <3>2, Zenon DEF top, low
  <2>5. At(bits, pos, <<0>> \o low)
    BY <2>1, <2>4
  <2>6. At(bits, pos, <<0>>) /\ At(bits, pos + 1, low)
    BY <2>2, <2>5, AtCodes
  <2>7. bits[pos + 0] = 0
    <3>1. Len(<<0>>) = 1 /\ <<0>>[1] = 0 /\ pos + 1 - 1 = pos + 0
      BY <1>2
    <3> QED BY <2>6, <3>1 DEF At
  <2>8. Ones(bits, pos) = 0
    <3>1. 0 \in 0 .. 7 /\ \A m \in 0 .. 0 - 1 : bits[pos + m] = 1
      OBVIOUS
    <3> QED BY <2>7, <3>1, OnesBack
  <2>9. Unsigned(bits, pos + 1, 7) = v
    <3>1. v \in 0 .. Pow2(7) - 1
      BY <1>1, <1>3, SmallPowers
    <3> QED BY <2>6, <3>1, UnsignedBack
  <2>10. pos + 0 + 1 = pos + 1 /\ 7 - 0 = 7 /\ 6 * (n - 1) = 0
    BY <1>2, <1>3
  <2> QED BY <1>1, <1>3, <2>8, <2>9, <2>10
<1>4. CASE n # 1
  <2> DEFINE ones == [i \in 1 .. n |-> 1]
             both == ones \o <<0>>
             top == v \div Pow2(6 * (n - 1))
             rest == Bits(top, 7 - n)
  <2>1. NumberLead(v, n) = both \o rest
    BY <1>4, Zenon DEF NumberLead
  <2>2. Code(ones, n) /\ Code(<<0>>, 1) /\ Code(rest, 7 - n) /\ Code(both, n + 1)
    BY <1>1, <1>4, NumberLeadIs
  <2>3. At(bits, pos, both \o rest)
    BY <2>1
  <2> HIDE DEF both, rest, ones
  <2>4. At(bits, pos, both) /\ At(bits, pos + (n + 1), rest)
    BY <2>2, <2>3, AtCodes
  <2>5. At(bits, pos, ones) /\ At(bits, pos + n, <<0>>)
    BY <2>2, <2>4, AtCodes DEF both
  <2>6. bits[pos + n] = 0
    <3>1. Len(<<0>>) = 1 /\ <<0>>[1] = 0 /\ (pos + n) + 1 - 1 = pos + n
      BY <1>1, <1>2
    <3> QED BY <2>5, <3>1 DEF At
  <2>7. ASSUME NEW m \in 0 .. n - 1 PROVE bits[pos + m] = 1
    <3>1. m + 1 \in 1 .. n /\ pos + (m + 1) - 1 = pos + m
      BY <1>1, <1>2
    <3>2. Len(ones) = n /\ ones[m + 1] = 1
      BY <2>2, <3>1 DEF Code, ones
    <3> QED BY <2>5, <3>1, <3>2 DEF At
  <2>8. Ones(bits, pos) = n
    <3>1. n \in 0 .. 7
      BY <1>1
    <3> QED BY <2>6, <2>7, <3>1, OnesBack
  <2>9. Unsigned(bits, pos + (n + 1), 7 - n) = top
    <3>1. 7 - n \in Nat
      BY <1>1
    <3>2. top \in 0 .. Pow2(7 - n) - 1
      BY <1>1, <1>4
    <3> HIDE DEF top
    <3> QED BY <2>4, <3>1, <3>2, UnsignedBack DEF rest
  <2>10. pos + n + 1 = pos + (n + 1) /\ n # 0
    BY <1>1, <1>2
  <2> QED BY <2>8, <2>9, <2>10
<1> QED BY <1>3, <1>4

\* A number is read back.
LEMMA CodedBack ==
  ASSUME NEW v \in FrameNumbers, NEW n, n = NumberBytes(v)
  PROVE  /\ n \in 1 .. 5 /\ Code(CodedNumber(v), 8 * n)
         /\ \A bits \in Seq(Binary) : \A pos :
              At(bits, pos, CodedNumber(v)) => CodedAt(bits, pos) = [pos |-> pos + 8 * n, value |-> v]
<1> DEFINE lead == NumberLead(v, n)
           tail == NumberTail(v, n)
           flat == FlattenSeq(tail)
           code == CodedNumber(v)
<1>1. /\ n \in 1 .. 5 /\ v \in Nat /\ v \div Pow2(0) = v
  BY LeadFits
<1>2. n \in Nat \ {0} /\ n - 1 \in Nat
  BY <1>1
<1>3. code = lead \o flat
  <2> DEFINE m == NumberBytes(v)
  <2>1. code = NumberLead(v, m) \o FlattenSeq(NumberTail(v, m))
    BY Zenon DEF CodedNumber, NumberLead, NumberTail
  <2> QED BY <2>1
<1>4. Code(lead, 8) /\ Code(flat, 8 * (n - 1))
  BY <1>1, <1>2, NumberLeadIs, NumberTailIs
<1>5. /\ tail \in Seq(Seq(Binary)) /\ Len(tail) = n - 1
      /\ \A i \in 1 .. n - 1 :
           /\ Len(tail[i]) = 8
           /\ tail[i] = Bits(2, 2) \o Bits(v \div Pow2(6 * (n - 1 - i)), 6)
           /\ Code(Bits(2, 2), 2) /\ Code(Bits(v \div Pow2(6 * (n - 1 - i)), 6), 6)
           /\ v \div Pow2(6 * (n - 1 - i)) \in Nat
  BY <1>1, <1>2, NumberTailIs, Zenon
<1> HIDE DEF lead, tail, flat, code
<1>6. Code(code, 8 * n)
  <2>1. Code(code, 8 + 8 * (n - 1))
    BY <1>3, <1>4, CodeJoin, Zenon
  <2>2. 8 + 8 * (n - 1) = 8 * n
    BY <1>1
  <2> QED BY <2>1, <2>2, Zenon
<1>7. ASSUME NEW bits \in Seq(Binary), NEW pos, At(bits, pos, code)
      PROVE  CodedAt(bits, pos) = [pos |-> pos + 8 * n, value |-> v]
  <2> DEFINE ones == Ones(bits, pos)
             g == [i \in 0 .. n - 1 |-> v \div Pow2(6 * (n - 1 - i))]
  <2>1. At(bits, pos, lead) /\ At(bits, pos + 8, flat) /\ pos \in Nat \ {0}
    BY <1>3, <1>4, <1>7, AtCodes
  <2>2. /\ n = IF ones = 0 THEN 1 ELSE ones
        /\ Unsigned(bits, pos + ones + 1, 7 - ones) = v \div Pow2(6 * (n - 1))
    BY <2>1, LeadBack DEF lead
  <2>3. PICK at : Marks(bits, tail, at, pos + 8, pos + 8 + Len(flat))
    BY <1>5, <2>1, FlattenAt DEF flat
  <2>4. \A i \in 1 .. n - 1 : At(bits, pos + 8 + 8 * (i - 1), tail[i])
    <3> DEFINE m == n - 1
               end == pos + 8 + Len(flat)
               start == pos + 8
    <3>1. m \in Nat /\ Len(tail) = m /\ Marks(bits, tail, at, start, end) /\ \A i \in 1 .. m : Len(tail[i]) = 8
      BY <1>2, <1>5, <2>3
    <3> HIDE DEF m, end, start
    <3>2. \A i \in 1 .. m : At(bits, start + 8 * (i - 1), tail[i])
      BY <3>1, ByteMarks
    <3> QED BY <3>2 DEF m, start
  <2>5. ASSUME NEW i \in 1 .. n - 1
        PROVE  g[i] = 64 * g[i - 1] + Unsigned(bits, pos + 8 * i + 2, 6)
    <3> DEFINE k == 6 * (n - 1 - i)
               q == v \div Pow2(k)
               p == pos + 8 * i + 2
    <3>1. k \in Nat /\ k + 6 = 6 * (n - 1 - (i - 1)) /\ i \in 0 .. n - 1 /\ i - 1 \in 0 .. n - 1
      BY <1>1
    <3>2. g[i] = q /\ g[i - 1] = v \div Pow2(k + 6)
      BY <3>1
    <3>3. q \in Nat /\ q \div 64 = v \div Pow2(k + 6)
      BY <1>1, <3>1, Six
    <3>4. pos + 8 + 8 * (i - 1) + 2 = p
      BY <2>1
    <3>5. At(bits, p, Bits(q, 6))
      <4>1. At(bits, pos + 8 + 8 * (i - 1), Bits(2, 2) \o Bits(q, 6))
        BY <1>5, <2>4
      <4>2. Code(Bits(2, 2), 2) /\ Code(Bits(q, 6), 6)
        BY <1>5
      <4> HIDE DEF q, k
      <4>3. At(bits, pos + 8 + 8 * (i - 1) + 2, Bits(q, 6))
        BY <4>1, <4>2, AtCodes
      <4> QED BY <3>4, <4>3
    <3> HIDE DEF g, q, k, p
    <3>6. Unsigned(bits, p, 6) = (q \div Pow2(6 - 6)) - Pow2(6) * (q \div Pow2(6))
      <4>1. q \in Int /\ 6 \in Nat /\ 6 \in 0 .. 6
        BY <3>3
      <4> QED BY <3>5, <4>1, UnsignedAt
    <3>7. Unsigned(bits, p, 6) = q - 64 * (q \div 64)
      <4>1. 6 - 6 = 0 /\ Pow2(0) = 1 /\ Pow2(6) = 64 /\ q \div 1 = q
        BY <3>3, SmallPowers
      <4> QED BY <3>6, <4>1
    <3>8. q = 64 * g[i - 1] + Unsigned(bits, p, 6)
      BY <3>2, <3>3, <3>7
    <3> QED BY <3>2, <3>8 DEF p
  <2>6. g[0] = Unsigned(bits, pos + ones + 1, 7 - ones)
    <3>1. g[0] = v \div Pow2(6 * (n - 1 - 0)) /\ n - 1 - 0 = n - 1
      BY <1>1
    <3> QED BY <2>2, <3>1
  <2>7. NumberTo(bits, pos, ones, n - 1, g)
    <3> DEFINE step(i) == IF i = 0 THEN Unsigned(bits, pos + ones + 1, 7 - ones)
                          ELSE 64 * g[i - 1] + Unsigned(bits, pos + 8 * i + 2, 6)
    <3>1. g = [i \in 0 .. n - 1 |-> g[i]]
      OBVIOUS
    <3> HIDE DEF g, ones
    <3>2. ASSUME NEW i \in 0 .. n - 1 PROVE g[i] = step(i)
      <4>1. CASE i = 0
        BY <2>6, <4>1
      <4>2. CASE i \in 1 .. n - 1
        BY <2>5, <4>2
      <4> QED BY <1>1, <4>1, <4>2
    <3>3. [i \in 0 .. n - 1 |-> g[i]] = [i \in 0 .. n - 1 |-> step(i)]
      BY <3>2, Zenon
    <3>4. g = [i \in 0 .. n - 1 |-> step(i)]
      BY <3>1, <3>3, Zenon
    <3> QED BY <3>4, Zenon DEF NumberTo
  <2>8. CodedAt(bits, pos) = [pos |-> pos + 8 * n, value |-> g[n - 1]]
    <3> HIDE DEF g
    <3> QED BY <1>2, <2>2, <2>7, CodedIs
  <2>9. g[n - 1] = v
    <3>1. g[n - 1] = v \div Pow2(6 * (n - 1 - (n - 1))) /\ 6 * (n - 1 - (n - 1)) = 0
      BY <1>1
    <3> QED BY <1>1, <3>1
  <2> QED BY <2>8, <2>9
<1> QED BY <1>1, <1>6, <1>7 DEF code

-----------------------------------------------------------------------------
(* Headers.                                                                *)

\* A value that is listed is where Index says.
LEMMA IndexIs ==
  ASSUME NEW table, NEW value, Listed(table, value)
  PROVE  Index(table, value) \in DOMAIN table /\ table[Index(table, value)] = value
<1> DEFINE i == CHOOSE j \in DOMAIN table : table[j] = value
<1>1. \E j \in DOMAIN table : table[j] = value
  BY Zenon DEF Listed
<1>2. i \in DOMAIN table /\ table[i] = value
  BY <1>1, Zenon
<1> QED BY <1>2, Zenon DEF Index

\* Nothing is a code of no bits.
LEMMA NoBits == Code(<<>>, 0)
BY DEF Code

\* A number in a field.
LEMMA FieldBack ==
  ASSUME NEW v \in Nat, NEW d \in Nat, v <= Pow2(d) - 1
  PROVE  /\ Code(Bits(v, d), d)
         /\ \A bits \in Seq(Binary) : \A pos : At(bits, pos, Bits(v, d)) => Unsigned(bits, pos, d) = v
<1>1. v \in Int /\ v \in 0 .. Pow2(d) - 1
  <2>1. Pow2(d) \in Nat
    BY Pow2Is
  <2> QED BY <2>1
<1> QED BY <1>1, CodeBits, UnsignedBack

\* The code of a size, and the field that follows, are read back.
LEMMA SizeBack ==
  ASSUME NEW size \in BlockSizes, NEW c, c = BlockSizeCode(size)
  PROVE  /\ c \in 1 .. 15 /\ SizeBits(c) \in Nat /\ Code(SizeField(size), SizeBits(c))
         /\ \A bits \in Seq(Binary) : \A pos :
              At(bits, pos, SizeField(size)) => SizeMeant(c, Unsigned(bits, pos, SizeBits(c))) = size
<1>1. size \in Nat /\ size >= 1 /\ size <= 65536
  BY SMT DEF BlockSizes
<1>2. SizeField(size) = IF c = 6 THEN Bits(size - 1, 8) ELSE IF c = 7 THEN Bits(size - 1, 16) ELSE <<>>
  BY SMT DEF SizeField
<1>3. CASE Listed(SizeTable, size)
  <2>1. c \in DOMAIN SizeTable /\ SizeTable[c] = size
    <3>1. c = Index(SizeTable, size)
      BY <1>3, SMT DEF BlockSizeCode
    <3> QED BY <1>3, <3>1, IndexIs, SMT
  <2>2. c \in 1 .. 15
    BY <2>1, SMT DEF SizeTable
  <2> DEFINE given(i) == IF i = 1 THEN 192 ELSE IF i \in 2 .. 5 THEN 576 * Pow2(i - 2)
                         ELSE IF i \in {6, 7} THEN 0 ELSE 256 * Pow2(i - 8)
  <2>3. /\ given(1) = SizeTable[1] /\ given(2) = SizeTable[2] /\ given(3) = SizeTable[3]
        /\ given(4) = SizeTable[4] /\ given(5) = SizeTable[5] /\ given(6) = SizeTable[6]
        /\ given(7) = SizeTable[7] /\ given(8) = SizeTable[8] /\ given(9) = SizeTable[9]
        /\ given(10) = SizeTable[10] /\ given(11) = SizeTable[11] /\ given(12) = SizeTable[12]
        /\ given(13) = SizeTable[13] /\ given(14) = SizeTable[14] /\ given(15) = SizeTable[15]
    BY SmallPowers, SMT DEF SizeTable
  <2>4. given(6) = 0 /\ given(7) = 0
    BY SMT
  <2> HIDE DEF given
  <2>5. given(c) = size /\ c # 6 /\ c # 7
    BY <1>1, <2>1, <2>2, <2>3, <2>4, SMT
  <2>6. SizeField(size) = <<>> /\ SizeBits(c) = 0
    BY <1>2, <2>5, SMT DEF SizeBits
  <2>7. ASSUME NEW field PROVE SizeMeant(c, field) = size
    BY <2>2, <2>5, SMT DEF SizeMeant, given
  <2> QED BY <2>2, <2>6, <2>7, NoBits, SMT
<1>4. CASE ~ Listed(SizeTable, size) /\ size <= 256
  <2>1. c = 6
    BY <1>4, SMT DEF BlockSizeCode
  <2>2. SizeField(size) = Bits(size - 1, 8) /\ SizeBits(c) = 8
    BY <1>2, <2>1, SMT DEF SizeBits
  <2>3. size - 1 \in Nat /\ 8 \in Nat /\ size - 1 <= Pow2(8) - 1
    BY <1>1, <1>4, SmallPowers, SMT
  <2> DEFINE v == size - 1
  <2> HIDE DEF v
  <2>4. /\ Code(Bits(v, 8), 8)
        /\ \A bits \in Seq(Binary) : \A pos : At(bits, pos, Bits(v, 8)) => Unsigned(bits, pos, 8) = v
    BY <2>3, FieldBack, SMT DEF v
  <2>5. SizeMeant(6, v) = size
    BY <1>1, SMT DEF SizeMeant, v
  <2> QED BY <2>1, <2>2, <2>4, <2>5, SMT DEF v
<1>5. CASE ~ Listed(SizeTable, size) /\ ~ (size <= 256)
  <2>1. c = 7
    BY <1>5, SMT DEF BlockSizeCode
  <2>2. SizeField(size) = Bits(size - 1, 16) /\ SizeBits(c) = 16
    BY <1>2, <2>1, SMT DEF SizeBits
  <2>3. size - 1 \in Nat /\ 16 \in Nat /\ size - 1 <= Pow2(16) - 1
    BY <1>1, <1>5, Powers, SMT
  <2> DEFINE v == size - 1
  <2> HIDE DEF v
  <2>4. /\ Code(Bits(v, 16), 16)
        /\ \A bits \in Seq(Binary) : \A pos : At(bits, pos, Bits(v, 16)) => Unsigned(bits, pos, 16) = v
    BY <2>3, FieldBack, SMT DEF v
  <2>5. SizeMeant(7, v) = size
    BY <1>1, SMT DEF SizeMeant, v
  <2> QED BY <2>1, <2>2, <2>4, <2>5, SMT DEF v
<1> QED BY <1>3, <1>4, <1>5, SMT

\* The code of a rate, and the field that follows, are read back.
LEMMA RateBack ==
  ASSUME NEW rate \in HeaderRates, NEW c, c = SampleRateCode(rate)
  PROVE  /\ c \in 1 .. 15 /\ RateBits(c) \in Nat /\ Code(RateField(rate), RateBits(c))
         /\ \A bits \in Seq(Binary) : \A pos :
              At(bits, pos, RateField(rate)) => RateMeant(c, Unsigned(bits, pos, RateBits(c))) = rate
<1>1. rate \in Nat /\ rate >= 1 /\ (rate <= 65535 \/ (rate % 10 = 0 /\ rate <= 655350))
  BY SMT DEF HeaderRates
<1>2. RateField(rate) = IF c = 12 THEN Bits(rate \div 1000, 8) ELSE IF c = 13 THEN Bits(rate, 16)
                        ELSE IF c = 14 THEN Bits(rate \div 10, 16) ELSE <<>>
  BY SMT DEF RateField
<1> DEFINE listed == Listed(RateTable, rate)
           round == rate % 1000 = 0 /\ rate <= 255000
<1>3. c = IF listed THEN Index(RateTable, rate) ELSE IF round THEN 12 ELSE IF rate <= 65535 THEN 13 ELSE 14
  BY SMT DEF SampleRateCode
<1>4. CASE listed
  <2>1. c \in DOMAIN RateTable /\ RateTable[c] = rate
    BY <1>3, <1>4, IndexIs, SMT
  <2>2. c \in 1 .. 11
    BY <2>1, SMT DEF RateTable
  <2>3. RateField(rate) = <<>> /\ RateBits(c) = 0
    BY <1>2, <2>2, SMT DEF RateBits
  <2>4. ASSUME NEW field PROVE RateMeant(c, field) = rate
    <3>1. RateMeant(c, field) = RateTable[c]
      BY <2>2, SMT DEF RateMeant, RateTable
    <3> QED BY <2>1, <3>1, SMT
  <2> QED BY <2>2, <2>3, <2>4, NoBits, SMT
<1> HIDE DEF listed, round
<1>5. CASE ~ listed /\ round
  <2>1. c = 12
    BY <1>3, <1>5, SMT
  <2> DEFINE v == rate \div 1000
  <2>2. RateField(rate) = Bits(v, 8) /\ RateBits(c) = 8
    BY <1>2, <2>1, SMT DEF RateBits
  <2>3. v \in Nat /\ 8 \in Nat /\ v <= Pow2(8) - 1 /\ 1000 * v = rate
    <3>1. v \in Nat /\ v <= 255 /\ 1000 * v = rate
      BY <1>1, <1>5, SMT DEF round
    <3> QED BY <3>1, SmallPowers, SMT
  <2> HIDE DEF v
  <2>4. /\ Code(Bits(v, 8), 8)
        /\ \A bits \in Seq(Binary) : \A pos : At(bits, pos, Bits(v, 8)) => Unsigned(bits, pos, 8) = v
    BY <2>3, FieldBack, SMT
  <2>5. RateMeant(12, v) = rate
    BY <2>3, SMT DEF RateMeant
  <2> QED BY <2>1, <2>2, <2>4, <2>5, SMT
<1>6. CASE ~ listed /\ ~ round /\ rate <= 65535
  <2>1. c = 13
    BY <1>3, <1>6, SMT
  <2>2. RateField(rate) = Bits(rate, 16) /\ RateBits(c) = 16
    BY <1>2, <2>1, SMT DEF RateBits
  <2>3. rate \in Nat /\ 16 \in Nat /\ rate <= Pow2(16) - 1
    BY <1>1, <1>6, Powers, SMT
  <2>4. /\ Code(Bits(rate, 16), 16)
        /\ \A bits \in Seq(Binary) : \A pos : At(bits, pos, Bits(rate, 16)) => Unsigned(bits, pos, 16) = rate
    BY <2>3, FieldBack, SMT
  <2>5. RateMeant(13, rate) = rate
    BY SMT DEF RateMeant
  <2> QED BY <2>1, <2>2, <2>4, <2>5, SMT
<1>7. CASE ~ listed /\ ~ round /\ ~ (rate <= 65535)
  <2>1. c = 14
    BY <1>3, <1>7, SMT
  <2> DEFINE v == rate \div 10
  <2>2. RateField(rate) = Bits(v, 16) /\ RateBits(c) = 16
    BY <1>2, <2>1, SMT DEF RateBits
  <2>3. v \in Nat /\ 16 \in Nat /\ v <= Pow2(16) - 1 /\ 10 * v = rate
    <3>1. v \in Nat /\ v <= 65535 /\ 10 * v = rate
      BY <1>1, <1>7, SMT
    <3> QED BY <3>1, Powers, SMT
  <2> HIDE DEF v
  <2>4. /\ Code(Bits(v, 16), 16)
        /\ \A bits \in Seq(Binary) : \A pos : At(bits, pos, Bits(v, 16)) => Unsigned(bits, pos, 16) = v
    BY <2>3, FieldBack, SMT
  <2>5. RateMeant(14, v) = rate
    BY <2>3, SMT DEF RateMeant
  <2> QED BY <2>1, <2>2, <2>4, <2>5, SMT
<1> QED BY <1>4, <1>5, <1>6, <1>7, SMT

\* The fields of fixed length: their joint length, and what a reader finds.
LEMMA FixedFields ==
  ASSUME NEW sync, NEW a, NEW b, NEW c, NEW d, NEW e,
         Code(sync, 16), Code(a, 4), Code(b, 4), Code(c, 4), Code(d, 3), Code(e, 1)
  PROVE  /\ Code(sync \o a \o b \o c \o d \o e, 32)
         /\ \A bits \in Seq(Binary) :
              At(bits, 1, sync \o a \o b \o c \o d \o e) =>
                At(bits, 1, sync) /\ At(bits, 17, a) /\ At(bits, 21, b) /\ At(bits, 25, c)
<1> DEFINE c1 == sync \o a
           c2 == c1 \o b
           c3 == c2 \o c
           c4 == c3 \o d
           c5 == c4 \o e
<1>1. 16 + 4 = 20 /\ 20 + 4 = 24 /\ 24 + 4 = 28 /\ 28 + 3 = 31 /\ 31 + 1 = 32
  OBVIOUS
<1> HIDE DEF c1, c2, c3, c4, c5
<1>2. Code(c1, 20)
  <2>1. Code(c1, 16 + 4)
    BY CodeJoin, Zenon DEF c1
  <2> QED BY <1>1, <2>1, Zenon
<1>3. Code(c2, 24)
  <2>1. Code(c2, 20 + 4)
    BY <1>2, CodeJoin, Zenon DEF c2
  <2> QED BY <1>1, <2>1, Zenon
<1>4. Code(c3, 28)
  <2>1. Code(c3, 24 + 4)
    BY <1>3, CodeJoin, Zenon DEF c3
  <2> QED BY <1>1, <2>1, Zenon
<1>5. Code(c4, 31)
  <2>1. Code(c4, 28 + 3)
    BY <1>4, CodeJoin, Zenon DEF c4
  <2> QED BY <1>1, <2>1, Zenon
<1>6. Code(c5, 32)
  <2>1. Code(c5, 31 + 1)
    BY <1>5, CodeJoin, Zenon DEF c5
  <2> QED BY <1>1, <2>1, Zenon
<1>7. ASSUME NEW bits \in Seq(Binary), At(bits, 1, c5)
      PROVE  At(bits, 1, sync) /\ At(bits, 17, a) /\ At(bits, 21, b) /\ At(bits, 25, c)
  <2>1. At(bits, 1, c4)
    BY <1>5, <1>7, AtCodes DEF c5
  <2>2. At(bits, 1, c3)
    BY <1>4, <2>1, AtCodes DEF c4
  <2>3. At(bits, 1, c2) /\ At(bits, 1 + 24, c)
    BY <1>3, <2>2, AtCodes DEF c3
  <2>4. At(bits, 1, c1) /\ At(bits, 1 + 20, b)
    BY <1>2, <2>3, AtCodes DEF c2
  <2>5. At(bits, 1, sync) /\ At(bits, 1 + 16, a)
    BY <2>4, AtCodes DEF c1
  <2>6. 1 + 24 = 25 /\ 1 + 20 = 21 /\ 1 + 16 = 17
    OBVIOUS
  <2> QED BY <2>3, <2>4, <2>5, <2>6
<1> QED BY <1>6, <1>7 DEF c5, c4, c3, c2, c1

\* The whole of a code that stands at the beginning.
LEMMA Prefix ==
  ASSUME NEW bits \in Seq(Binary), NEW code, NEW n, Code(code, n), At(bits, 1, code)
  PROVE  SubSeq(bits, 1, n) = code
<1>1. n \in Nat /\ n <= Len(bits) /\ Len(bits) \in Nat /\ code \in Seq(Binary) /\ Len(code) = n
      /\ \A i \in 1 .. n : bits[1 + i - 1] = code[i]
  BY DEF Code, At
<1> DEFINE s == SubSeq(bits, 1, n)
<1>2. s \in Seq(Binary) /\ Len(s) = n /\ \A i \in 1 .. n : s[i] = bits[i]
  BY <1>1
<1>3. \A i \in 1 .. n : s[i] = code[i]
  BY <1>1, <1>2
<1> HIDE DEF s
<1>4. s = code
  BY <1>1, <1>2, <1>3
<1> QED BY <1>4 DEF s

\* The polynomials are codes of their degree.
LEMMA PolysAre ==
  /\ Code(Poly8, 8) /\ Code(Poly16, 16)
<1>1. 7 \in Int /\ 8 \in Nat /\ 32773 \in Int /\ 16 \in Nat
  BY SMT
<1> QED BY <1>1, CodeBits, SMT DEF Poly8, Poly16

\* The sync code.
LEMMA SyncBack ==
  /\ Code(Bits(65528, 16), 16)
  /\ \A bits \in Seq(Binary) : At(bits, 1, Bits(65528, 16)) => Unsigned(bits, 1, 15) = 32764
<1>1. 65528 \in Int /\ 16 \in Nat /\ 15 \in 0 .. 16
  BY SMT
<1>2. ASSUME NEW bits \in Seq(Binary), At(bits, 1, Bits(65528, 16))
      PROVE  Unsigned(bits, 1, 15) = 32764
  <2>1. Unsigned(bits, 1, 15) = (65528 \div Pow2(16 - 15)) - Pow2(15) * (65528 \div Pow2(16))
    BY <1>1, <1>2, UnsignedAt, SMT
  <2>2. Pow2(16 - 15) = 2 /\ Pow2(16) = 65536
    BY SmallPowers, Powers, SMT
  <2>3. 65528 \div 2 = 32764 /\ 65528 \div 65536 = 0
    BY SMT
  <2>4. Pow2(15) = 32768
    BY Powers, SMT
  <2> QED BY <2>1, <2>2, <2>3, <2>4, SMT
<1> QED BY <1>1, <1>2, CodeBits, SMT

\* The code of a width is one of three bits.
LEMMA SampleSizeIs == SampleSizeCode(SampleBits) \in Int
<1>1. CASE Listed(BpsTable, SampleBits)
  <2>1. Index(BpsTable, SampleBits) \in DOMAIN BpsTable
    BY <1>1, IndexIs
  <2>2. SampleSizeCode(SampleBits) = Index(BpsTable, SampleBits)
    BY <1>1, Zenon DEF SampleSizeCode
  <2> QED BY <2>1, <2>2, SMT DEF BpsTable
<1>2. CASE ~ Listed(BpsTable, SampleBits)
  BY <1>2 DEF SampleSizeCode
<1> QED BY <1>1, <1>2

\* A header is read back: its fields, where the subframes begin, and its checksum
\* fits.
LEMMA HeaderBack ==
  ASSUME NEW size \in BlockSizes, NEW rate \in HeaderRates, NEW channels \in 1 .. 2,
         NEW index \in FrameNumbers, NEW head, head = FrameHeader(size, channels, rate, index)
  PROVE  /\ head \in Seq(Binary)
         /\ \A bits \in Seq(Binary) : At(bits, 1, head) =>
              /\ ReadHeader(bits) = [size |-> size, rate |-> rate, channels |-> channels,
                                     number |-> index, body |-> 1 + Len(head)]
              /\ SoundHeader(bits)
<1> DEFINE sc == BlockSizeCode(size)
           rc == SampleRateCode(rate)
           n == NumberBytes(index)
           sb == SizeBits(sc)
           rb == RateBits(rc)
           sync == Bits(65528, 16)
           a == Bits(sc, 4)
           b == Bits(rc, 4)
           c == Bits(channels - 1, 4)
           d == Bits(SampleSizeCode(SampleBits), 3)
           e == Bits(0, 1)
           num == CodedNumber(index)
           sf == SizeField(size)
           rf == RateField(rate)
           fixed == sync \o a \o b \o c \o d \o e
           f1 == fixed \o num
           f2 == f1 \o sf
           fields == f2 \o rf
           crc == Crc(fields, Poly8)
<1>1. fields = HeaderFields(size, channels, rate, index)
  BY SMT DEF HeaderFields
<1>2. head = fields \o crc
  <2> HIDE DEF fields
  <2> QED BY <1>1, SMT DEF FrameHeader
<1>3. /\ sc \in 1 .. 15 /\ sb \in Nat /\ Code(sf, sb)
      /\ \A bits \in Seq(Binary) : \A pos : At(bits, pos, sf) => SizeMeant(sc, Unsigned(bits, pos, sb)) = size
  BY SizeBack, SMT
<1>4. /\ rc \in 1 .. 15 /\ rb \in Nat /\ Code(rf, rb)
      /\ \A bits \in Seq(Binary) : \A pos : At(bits, pos, rf) => RateMeant(rc, Unsigned(bits, pos, rb)) = rate
  BY RateBack, SMT
<1>5. /\ n \in 1 .. 5 /\ Code(num, 8 * n)
      /\ \A bits \in Seq(Binary) : \A pos :
           At(bits, pos, num) => CodedAt(bits, pos) = [pos |-> pos + 8 * n, value |-> index]
  BY CodedBack, SMT
<1>6. /\ Code(sync, 16)
      /\ \A bits \in Seq(Binary) : At(bits, 1, sync) => Unsigned(bits, 1, 15) = 32764
  BY SyncBack, SMT
<1> HIDE DEF sync, sf, rf, num
<1>7. /\ Code(a, 4) /\ \A bits \in Seq(Binary) : \A pos : At(bits, pos, a) => Unsigned(bits, pos, 4) = sc
      /\ Code(b, 4) /\ \A bits \in Seq(Binary) : \A pos : At(bits, pos, b) => Unsigned(bits, pos, 4) = rc
  <2> HIDE DEF sc, rc
  <2>1. sc \in Nat /\ sc <= Pow2(4) - 1 /\ rc \in Nat /\ rc <= Pow2(4) - 1 /\ 4 \in Nat
    BY <1>3, <1>4, SmallPowers, SMT
  <2> QED BY <2>1, FieldBack, SMT
<1>8. /\ Code(c, 4)
      /\ \A bits \in Seq(Binary) : \A pos : At(bits, pos, c) => Unsigned(bits, pos, 4) = channels - 1
  <2> DEFINE v == channels - 1
  <2>1. v \in Nat /\ v <= Pow2(4) - 1 /\ 4 \in Nat
    BY SmallPowers
  <2> HIDE DEF v
  <2>2. /\ Code(Bits(v, 4), 4)
        /\ \A bits \in Seq(Binary) : \A pos : At(bits, pos, Bits(v, 4)) => Unsigned(bits, pos, 4) = v
    BY <2>1, FieldBack
  <2> QED BY <2>2 DEF v
<1>9. Code(d, 3) /\ Code(e, 1)
  <2>1. 3 \in Nat /\ 0 \in Int /\ 1 \in Nat
    OBVIOUS
  <2> QED BY <2>1, SampleSizeIs, CodeBits, Zenon
<1> HIDE DEF a, b, c, d, e, sc, rc, n, sb, rb
<1>10. /\ Code(fixed, 32)
       /\ \A bits \in Seq(Binary) : At(bits, 1, fixed) =>
            At(bits, 1, sync) /\ At(bits, 17, a) /\ At(bits, 21, b) /\ At(bits, 25, c)
  <2>1. Code(sync, 16) /\ Code(a, 4) /\ Code(b, 4) /\ Code(c, 4) /\ Code(d, 3) /\ Code(e, 1)
    BY <1>6, <1>7, <1>8, <1>9
  <2> QED BY <2>1, FixedFields, SMT
<1> HIDE DEF fixed
<1>11. Code(f1, 32 + 8 * n)
  BY <1>5, <1>10, CodeJoin, Zenon
<1> HIDE DEF f1
<1>12. Code(f2, 32 + 8 * n + sb)
  BY <1>3, <1>11, CodeJoin, Zenon
<1> HIDE DEF f2
<1>13. Code(fields, 32 + 8 * n + sb + rb)
  BY <1>4, <1>12, CodeJoin, Zenon
<1> HIDE DEF fields
<1>14. Code(crc, 8) /\ Divisible(fields \o crc, Poly8)
  <2>1. fields \in Seq(Binary)
    BY <1>13 DEF Code
  <2>2. 8 \in Nat \ {0}
    OBVIOUS
  <2> QED BY <2>1, <2>2, PolysAre, CrcDivides
<1> HIDE DEF crc
<1>15. Code(head, 32 + 8 * n + sb + rb + 8)
  BY <1>2, <1>13, <1>14, CodeJoin, Zenon
<1>16. head \in Seq(Binary) /\ Len(head) = 32 + 8 * n + sb + rb + 8
  BY <1>15 DEF Code
<1>17. ASSUME NEW bits \in Seq(Binary), At(bits, 1, head)
       PROVE  /\ ReadHeader(bits) = [size |-> size, rate |-> rate, channels |-> channels,
                                     number |-> index, body |-> 1 + Len(head)]
              /\ SoundHeader(bits)
  <2>1. At(bits, 1, fields)
    BY <1>2, <1>13, <1>14, <1>17, AtCodes
  <2>2. At(bits, 1, f2) /\ At(bits, 1 + (32 + 8 * n + sb), rf)
    BY <1>4, <1>12, <2>1, AtCodes DEF fields
  <2>3. At(bits, 1, f1) /\ At(bits, 1 + (32 + 8 * n), sf)
    BY <1>3, <1>11, <2>2, AtCodes DEF f2
  <2>4. At(bits, 1, fixed) /\ At(bits, 1 + 32, num)
    BY <1>5, <1>10, <2>3, AtCodes DEF f1
  <2>5. At(bits, 1, sync) /\ At(bits, 17, a) /\ At(bits, 21, b) /\ At(bits, 25, c)
    BY <1>10, <2>4
  <2>6. /\ Unsigned(bits, 17, 4) = sc /\ Unsigned(bits, 21, 4) = rc
        /\ Unsigned(bits, 25, 4) = channels - 1 /\ Unsigned(bits, 1, 15) = 32764
    BY <1>6, <1>7, <1>8, <2>5, SMT
  <2>7. CodedAt(bits, 33) = [pos |-> 33 + 8 * n, value |-> index]
    <3>1. 1 + 32 = 33
      OBVIOUS
    <3> QED BY <1>5, <2>4, <3>1
  <2>8. /\ 1 + (32 + 8 * n) = 33 + 8 * n /\ 1 + (32 + 8 * n + sb) = 33 + 8 * n + sb
        /\ 33 + 8 * n + sb + rb + 8 = 1 + Len(head) /\ (channels - 1) + 1 = channels
        /\ 1 + Len(head) - 1 = 32 + 8 * n + sb + rb + 8
    BY <1>3, <1>4, <1>5, <1>16
  <2>9. SizeMeant(sc, Unsigned(bits, 33 + 8 * n, sb)) = size
    BY <1>3, <2>3, <2>8
  <2>10. RateMeant(rc, Unsigned(bits, 33 + 8 * n + sb, rb)) = rate
    BY <1>4, <2>2, <2>8
  <2>11. ReadHeader(bits) =
           [size |-> SizeMeant(sc, Unsigned(bits, 33 + 8 * n, sb)),
            rate |-> RateMeant(rc, Unsigned(bits, 33 + 8 * n + sb, rb)),
            channels |-> (channels - 1) + 1, number |-> index, body |-> 33 + 8 * n + sb + rb + 8]
    <3> DEFINE x == Unsigned(bits, 17, 4)
               y == Unsigned(bits, 21, 4)
               z == CodedAt(bits, 33)
    <3>1. ReadHeader(bits) =
           [size |-> SizeMeant(x, Unsigned(bits, z.pos, SizeBits(x))),
            rate |-> RateMeant(y, Unsigned(bits, z.pos + SizeBits(x), RateBits(y))),
            channels |-> Unsigned(bits, 25, 4) + 1, number |-> z.value,
            body |-> z.pos + SizeBits(x) + RateBits(y) + 8]
      BY SMT DEF ReadHeader
    <3>2. x = sc /\ y = rc /\ z.pos = 33 + 8 * n /\ z.value = index
      BY <2>6, <2>7
    <3>3. SizeBits(sc) = sb /\ RateBits(rc) = rb
      BY DEF sb, rb
    <3> HIDE DEF x, y, z
    <3> QED BY <2>6, <3>1, <3>2, <3>3
  <2>12. ReadHeader(bits) = [size |-> size, rate |-> rate, channels |-> channels,
                             number |-> index, body |-> 1 + Len(head)]
    BY <2>8, <2>9, <2>10, <2>11
  <2>13. SoundHeader(bits)
    <3>1. SubSeq(bits, 1, 32 + 8 * n + sb + rb + 8) = head
      BY <1>15, <1>17, Prefix
    <3>2. ReadHeader(bits).body - 1 = 32 + 8 * n + sb + rb + 8
      BY <2>8, <2>12
    <3>3. Divisible(head, Poly8)
      BY <1>2, <1>14
    <3>4. SubSeq(bits, 1, ReadHeader(bits).body - 1) = head
      BY <3>1, <3>2, Zenon
    <3>5. Divisible(SubSeq(bits, 1, ReadHeader(bits).body - 1), Poly8)
      BY <3>3, <3>4, Zenon
    <3> QED BY <2>6, <3>5, SMT DEF SoundHeader
  <2> QED BY <2>12, <2>13
<1> QED BY <1>16, <1>17

-----------------------------------------------------------------------------
(* Frames.                                                                 *)

\* A subframe is a sequence of bits.
LEMMA SubframeType ==
  ASSUME NEW samples \in Seq(Samples), Len(samples) # 0
  PROVE  EncodeSubframe(samples) \in Seq(Binary)
<1> DEFINE same == \A i \in DOMAIN samples : samples[i] = samples[1]
           kind == IF same THEN 0 ELSE 9
           tail == IF same THEN <<>> ELSE EncodeResiduals(Residuals(samples))
           v == samples[1]
           zero == Bits(0, 1)
           type == Bits(kind, 6)
           first == Bits(v, SampleBits)
<1>1. EncodeSubframe(samples) = zero \o type \o zero \o first \o tail
  BY Zenon DEF EncodeSubframe
<1>2. tail \in Seq(Binary)
  <2>1. Residuals(samples) \in Seq(Range17)
    <3>1. Len(samples) \in Nat \ {0}
      OBVIOUS
    <3> DEFINE n == Len(samples)
    <3>2. n \in Nat \ {0} /\ Len(samples) = n
      BY <3>1
    <3> HIDE DEF n
    <3> QED BY <3>2, ResidualsAre
  <2>2. EncodeResiduals(Residuals(samples)) \in Seq(Binary)
    BY <2>1, ResidualsType
  <2> QED BY <2>2
<1>3. v \in Int
  <2>1. SampleBits - 1 \in Nat /\ 1 \in 1 .. Len(samples)
    BY Widths
  <2>2. Pow2(SampleBits - 1) \in Nat
    BY <2>1, Pow2Is
  <2>3. v \in Samples
    BY <2>1
  <2> HIDE DEF v
  <2> QED BY <2>2, <2>3 DEF Samples
<1>4. Code(zero, 1) /\ Code(type, 6) /\ Code(first, SampleBits)
  <2>1. 0 \in Int /\ kind \in Int /\ 1 \in Nat /\ 6 \in Nat /\ SampleBits \in Nat
    BY Widths
  <2> HIDE DEF kind, v
  <2> QED BY <1>3, <2>1, CodeBits, Zenon
<1> HIDE DEF zero, type, first, tail
<1>5. zero \in Seq(Binary) /\ type \in Seq(Binary) /\ first \in Seq(Binary)
  BY <1>4 DEF Code
<1> QED BY <1>1, <1>2, <1>5

\* samples is one channel of a block.
ChannelOf(samples, block, channels, size, c) ==
  /\ samples \in Seq(Samples) /\ Len(samples) = size
  /\ \A i \in 1 .. size : samples[i] = block[(i - 1) * channels + c]

\* Channel is that.
LEMMA ChannelIs ==
  ASSUME NEW block \in Seq(Samples), NEW channels \in 1 .. 2, NEW size \in Nat \ {0},
         Len(block) = size * channels, NEW c \in 1 .. channels
  PROVE  /\ Len(block) \div channels = size
         /\ ChannelOf(Channel(block, channels, c), block, channels, size, c)
<1>1. Len(block) \div channels = size
  <2>1. CASE channels = 1
    BY <2>1
  <2>2. CASE channels = 2
    BY <2>2
  <2> QED BY <2>1, <2>2
<1>2. ASSUME NEW i \in 1 .. size PROVE block[(i - 1) * channels + c] \in Samples
  <2>1. CASE channels = 1
    <3>1. (i - 1) * channels + c \in 1 .. size * channels
      BY <2>1
    <3> QED BY <3>1
  <2>2. CASE channels = 2
    <3>1. (i - 1) * channels + c \in 1 .. size * channels
      BY <2>2
    <3> QED BY <3>1
  <2> QED BY <2>1, <2>2
<1>3. Channel(block, channels, c) = [i \in 1 .. size |-> block[(i - 1) * channels + c]]
  BY <1>1, Zenon DEF Channel
<1>4. Channel(block, channels, c) \in [1 .. size -> Samples]
  BY <1>2, <1>3
<1>5. size \in Nat
  OBVIOUS
<1> QED BY <1>1, <1>3, <1>4, <1>5, Listing DEF ChannelOf

\* Where a code and its parts stand in the bits that begin with it.
LEMMA AtSelf ==
  ASSUME NEW code \in Seq(Binary), NEW rest \in Seq(Binary)
  PROVE  code \o rest \in Seq(Binary) /\ At(code \o rest, 1, code) /\ At(code, 1, code)
<1> DEFINE bits == code \o rest
<1>1. /\ bits \in Seq(Binary) /\ Len(bits) = Len(code) + Len(rest)
      /\ Len(code) \in Nat /\ Len(rest) \in Nat
      /\ \A i \in 1 .. Len(code) : bits[i] = code[i]
  OBVIOUS
<1> HIDE DEF bits
<1>2. At(bits, 1, code) /\ At(code, 1, code)
  BY <1>1 DEF At
<1> QED BY <1>1, <1>2 DEF bits

\* The readings of the subframes.
ReadingTo(bits, start, size, channels, g) ==
  g = [c \in 0 .. channels |->
        IF c = 0 THEN [pos |-> start, out |-> <<>>] ELSE DecodeSubframe(bits, g[c - 1], size)]

\* The samples of the channels in turn.
Woven(out, size, channels) ==
  [i \in 1 .. size * channels |-> out[((i - 1) % channels) * size + (i - 1) \div channels + 1]]

\* The samples of a frame are those of the last reading, in turn.
LEMMA DecodedIs ==
  ASSUME NEW bits, NEW size, NEW channels \in Nat, NEW start,
         ReadHeader(bits).size = size, ReadHeader(bits).channels = channels,
         ReadHeader(bits).body = start, NEW g, ReadingTo(bits, start, size, channels, g)
  PROVE  DecodeFrame(bits) = Woven(g[channels].out, size, channels)
<1> DEFINE f == CHOOSE x : ReadingTo(bits, start, size, channels, x)
<1>1. ReadingTo(bits, start, size, channels, f)
  BY Zenon
<1>2. DecodeFrame(bits) = Woven(f[channels].out, size, channels)
  <2> DEFINE h == ReadHeader(bits)
             s == h.size
             ch == h.channels
             st == h.body
             x == CHOOSE y : ReadingTo(bits, st, s, ch, y)
  <2>1. DecodeFrame(bits) = Woven(x[ch].out, s, ch)
    BY Zenon DEF DecodeFrame, ReadingTo, Woven
  <2>2. s = size /\ ch = channels /\ st = start
    OBVIOUS
  <2> HIDE DEF s, ch, st
  <2> QED BY <2>1, <2>2, Zenon
<1> HIDE DEF f
<1> DEFINE T == {c \in 0 .. channels : f[c] = g[c]}
<1>3. 0 \in T
  BY <1>1 DEF ReadingTo
<1>4. ASSUME NEW m \in 0 .. channels, m \in T, m < channels PROVE m + 1 \in T
  <2>1. m + 1 \in 0 .. channels /\ m + 1 # 0 /\ (m + 1) - 1 = m
    BY <1>4
  <2>2. /\ f[m + 1] = DecodeSubframe(bits, f[m], size)
        /\ g[m + 1] = DecodeSubframe(bits, g[m], size)
    BY <1>1, <2>1, Zenon DEF ReadingTo
  <2>3. f[m] = g[m]
    BY <1>4
  <2> QED BY <2>1, <2>2, <2>3
<1>5. 0 .. channels \subseteq T
  <2> HIDE DEF T
  <2> QED BY <1>3, <1>4, Climb
<1>6. f[channels] = g[channels]
  BY <1>5
<1> QED BY <1>2, <1>6

\* z is x and then y, of n elements each.
DoubleOf(z, x, y, n) ==
  (\A i \in 1 .. n : z[i] = x[i]) /\ (\A i \in 1 .. n : z[n + i] = y[i])

\* Two sequences of the same length, joined.
LEMMA JoinedAt ==
  ASSUME NEW S, NEW x \in Seq(S), NEW y \in Seq(S), NEW n, Len(x) = n, Len(y) = n
  PROVE  DoubleOf(x \o y, x, y, n)
<1>1. \A i \in 1 .. Len(x) : (x \o y)[i] = x[i]
  OBVIOUS
<1>2. \A i \in 1 .. Len(y) : (x \o y)[Len(x) + i] = y[i]
  OBVIOUS
<1> QED BY <1>1, <1>2, Zenon DEF DoubleOf

\* The samples of the block are found channel by channel.
BlockRead(bits, start, size, channels, block, g) ==
  /\ ReadingTo(bits, start, size, channels, g)
  /\ \A c \in 1 .. channels, i \in 1 .. size :
       g[channels].out[(c - 1) * size + i] = block[(i - 1) * channels + c]

\* The subframes of a block are read back, one after the other.
LEMMA SubframesBack ==
  ASSUME NEW bits \in Seq(Binary), NEW block \in Seq(Samples), NEW channels \in 1 .. 2,
         NEW size \in Nat \ {0}, Len(block) = size * channels, NEW start, NEW codes,
         codes = [c \in 1 .. channels |-> EncodeSubframe(Channel(block, channels, c))],
         At(bits, start, FlattenSeq(codes))
  PROVE  \E g : BlockRead(bits, start, size, channels, block, g)
<1> DEFINE ch(c) == Channel(block, channels, c)
<1>1. ASSUME NEW c \in 1 .. channels
      PROVE  /\ ch(c) \in Seq(Samples) /\ Len(ch(c)) = size
             /\ \A i \in 1 .. size : ch(c)[i] = block[(i - 1) * channels + c]
             /\ codes[c] = EncodeSubframe(ch(c)) /\ codes[c] \in Seq(Binary)
  <2>1. /\ ch(c) \in Seq(Samples) /\ Len(ch(c)) = size
        /\ \A i \in 1 .. size : ch(c)[i] = block[(i - 1) * channels + c]
    <3>1. ChannelOf(ch(c), block, channels, size, c)
      BY ChannelIs
    <3> HIDE DEF ch
    <3> QED BY <3>1, Zenon DEF ChannelOf
  <2> HIDE DEF ch
  <2>2. codes[c] = EncodeSubframe(ch(c))
    BY DEF ch
  <2>3. Len(ch(c)) # 0
    BY <2>1
  <2>4. EncodeSubframe(ch(c)) \in Seq(Binary)
    BY <2>1, <2>3, SubframeType
  <2> QED BY <2>1, <2>2, <2>4
<1> HIDE DEF ch
<1>2. codes \in Seq(Seq(Binary)) /\ Len(codes) = channels
  <2>1. codes \in [1 .. channels -> Seq(Binary)]
    BY <1>1
  <2> QED BY <2>1, Listing
<1>3. PICK at : Marks(bits, codes, at, start, start + Len(FlattenSeq(codes)))
  BY <1>2, FlattenAt
<1>4. /\ at[0] = start
      /\ \A c \in 1 .. channels : at[c] = at[c - 1] + Len(codes[c]) /\ At(bits, at[c - 1], codes[c])
  BY <1>2, <1>3 DEF Marks
<1>5. ASSUME NEW c \in 1 .. channels, NEW out
      PROVE  DecodeSubframe(bits, [pos |-> at[c - 1], out |-> out], size)
               = [pos |-> at[c], out |-> out \o ch(c)]
  <2> DEFINE reading == [pos |-> at[c - 1], out |-> out]
  <2>1. reading.pos = at[c - 1] /\ reading.out = out
    OBVIOUS
  <2> HIDE DEF reading
  <2>2. At(bits, reading.pos, EncodeSubframe(ch(c))) /\ ch(c) \in Seq(Samples) /\ Len(ch(c)) = size
    BY <1>1, <1>4, <2>1
  <2>3. DecodeSubframe(bits, reading, size)
          = [pos |-> reading.pos + Len(EncodeSubframe(ch(c))), out |-> reading.out \o ch(c)]
    BY <2>2, SubframeBack
  <2>4. at[c] = at[c - 1] + Len(EncodeSubframe(ch(c)))
    BY <1>1, <1>4
  <2> QED BY <2>1, <2>3, <2>4 DEF reading
<1> DEFINE r(c, out) == [pos |-> at[c], out |-> out]
<1>6. CASE channels = 1
  <2> DEFINE g == [c \in 0 .. 1 |-> IF c = 0 THEN r(0, <<>>) ELSE r(1, <<>> \o ch(1))]
  <2>1. g[0] = r(0, <<>>) /\ g[1] = r(1, <<>> \o ch(1)) /\ g = [c \in 0 .. 1 |-> g[c]]
    OBVIOUS
  <2>2. 1 \in 1 .. channels /\ 1 - 1 = 0
    BY <1>6
  <2>3. DecodeSubframe(bits, r(0, <<>>), size) = r(1, <<>> \o ch(1))
    <3>1. DecodeSubframe(bits, r(1 - 1, <<>>), size) = r(1, <<>> \o ch(1))
      BY <1>5, <2>2
    <3> QED BY <2>2, <3>1, Zenon
  <2>4. <<>> \o ch(1) = ch(1)
    <3>1. ch(1) \in Seq(Samples)
      BY <1>1, <2>2
    <3> QED BY <3>1
  <2> HIDE DEF r
  <2>5. r(0, <<>>) = [pos |-> start, out |-> <<>>]
    BY <1>4 DEF r
  <2> HIDE DEF g
  <2>6. ASSUME NEW c \in 0 .. 1
        PROVE g[c] = IF c = 0 THEN [pos |-> start, out |-> <<>>] ELSE DecodeSubframe(bits, g[c - 1], size)
    <3>1. CASE c = 0
      BY <2>1, <2>5, <3>1
    <3>2. CASE c = 1
      BY <2>1, <2>3, <3>2
    <3> QED BY <3>1, <3>2
  <2>7. ReadingTo(bits, start, size, channels, g)
    <3>1. g = [c \in 0 .. 1 |-> IF c = 0 THEN [pos |-> start, out |-> <<>>]
                                ELSE DecodeSubframe(bits, g[c - 1], size)]
      BY <2>1, <2>6
    <3> QED BY <1>6, <3>1, Zenon DEF ReadingTo
  <2>8. g[channels].out = ch(1)
    BY <1>6, <2>1, <2>4 DEF r
  <2>9. ASSUME NEW c \in 1 .. channels, NEW i \in 1 .. size
        PROVE  g[channels].out[(c - 1) * size + i] = block[(i - 1) * channels + c]
    <3>1. c = 1 /\ (c - 1) * size + i = i
      BY <1>6
    <3>2. ch(1)[i] = block[(i - 1) * channels + 1]
      BY <1>1, <2>2
    <3> QED BY <2>8, <3>1, <3>2, Zenon
  <2> QED BY <2>7, <2>9, Zenon DEF BlockRead
<1>7. CASE channels = 2
  <2> DEFINE one == <<>> \o ch(1)
             two == one \o ch(2)
             g == [c \in 0 .. 2 |-> IF c = 0 THEN r(0, <<>>) ELSE IF c = 1 THEN r(1, one) ELSE r(2, two)]
  <2>1. g[0] = r(0, <<>>) /\ g[1] = r(1, one) /\ g[2] = r(2, two) /\ g = [c \in 0 .. 2 |-> g[c]]
    OBVIOUS
  <2>2. 1 \in 1 .. channels /\ 1 - 1 = 0 /\ 2 \in 1 .. channels /\ 2 - 1 = 1
    BY <1>7
  <2>3. DecodeSubframe(bits, r(0, <<>>), size) = r(1, one)
    <3>1. DecodeSubframe(bits, r(1 - 1, <<>>), size) = r(1, one)
      BY <1>5, <2>2
    <3> QED BY <2>2, <3>1, Zenon
  <2>4. DecodeSubframe(bits, r(1, one), size) = r(2, two)
    <3>1. DecodeSubframe(bits, r(2 - 1, one), size) = r(2, two)
      BY <1>5, <2>2
    <3> QED BY <2>2, <3>1, Zenon
  <2>5. ch(1) \in Seq(Samples) /\ ch(2) \in Seq(Samples) /\ Len(ch(1)) = size /\ Len(ch(2)) = size
    BY <1>1, <2>2
  <2>6. one = ch(1)
    BY <2>5
  <2>7. /\ \A i \in 1 .. size : two[i] = ch(1)[i]
        /\ \A i \in 1 .. size : two[size + i] = ch(2)[i]
    <3> DEFINE x == ch(1)
               y == ch(2)
    <3>1. x \in Seq(Samples) /\ y \in Seq(Samples) /\ Len(x) = size /\ Len(y) = size
      BY <2>5
    <3> HIDE DEF x, y
    <3>2. /\ \A i \in 1 .. size : (x \o y)[i] = x[i]
          /\ \A i \in 1 .. size : (x \o y)[size + i] = y[i]
      <4>1. DoubleOf(x \o y, x, y, size)
        BY <3>1, JoinedAt
      <4> QED BY <4>1, Zenon DEF DoubleOf
    <3>3. two = x \o y
      BY <2>6 DEF x, y
    <3> QED BY <3>2, <3>3 DEF x, y
  <2> HIDE DEF r, one, two
  <2>8. r(0, <<>>) = [pos |-> start, out |-> <<>>]
    BY <1>4 DEF r
  <2> HIDE DEF g
  <2>9. ASSUME NEW c \in 0 .. 2
        PROVE g[c] = IF c = 0 THEN [pos |-> start, out |-> <<>>] ELSE DecodeSubframe(bits, g[c - 1], size)
    <3>1. CASE c = 0
      BY <2>1, <2>8, <3>1
    <3>2. CASE c = 1
      BY <2>1, <2>3, <3>2
    <3>3. CASE c = 2
      BY <2>1, <2>4, <3>3
    <3> QED BY <3>1, <3>2, <3>3
  <2>10. ReadingTo(bits, start, size, channels, g)
    <3>1. g = [c \in 0 .. 2 |-> IF c = 0 THEN [pos |-> start, out |-> <<>>]
                                ELSE DecodeSubframe(bits, g[c - 1], size)]
      BY <2>1, <2>9
    <3> QED BY <1>7, <3>1, Zenon DEF ReadingTo
  <2>11. g[channels].out = two
    BY <1>7, <2>1 DEF r
  <2>12. ASSUME NEW c \in 1 .. channels, NEW i \in 1 .. size
         PROVE  g[channels].out[(c - 1) * size + i] = block[(i - 1) * channels + c]
    <3>1. CASE c = 1
      <4>1. (c - 1) * size + i = i
        BY <3>1
      <4>2. ch(1)[i] = block[(i - 1) * channels + 1]
        BY <1>1, <2>2
      <4> QED BY <2>7, <2>11, <3>1, <4>1, <4>2
    <3>2. CASE c = 2
      <4>1. (c - 1) * size + i = size + i
        BY <3>2
      <4>2. ch(2)[i] = block[(i - 1) * channels + 2]
        BY <1>1, <2>2
      <4> QED BY <2>7, <2>11, <3>2, <4>1, <4>2
    <3> QED BY <1>7, <3>1, <3>2
  <2> QED BY <2>10, <2>12, Zenon DEF BlockRead
<1> QED BY <1>6, <1>7

\* The place of a sample in its channel, and back.
LEMMA Interleaved ==
  ASSUME NEW channels \in 1 .. 2, NEW size \in Nat \ {0}, NEW i \in 1 .. size * channels
  PROVE  \E c \in 1 .. channels, j \in 1 .. size :
           /\ ((i - 1) % channels) * size + (i - 1) \div channels + 1 = (c - 1) * size + j
           /\ (j - 1) * channels + c = i
<1>1. CASE channels = 1
  <2>1. i \in 1 .. size /\ 1 \in 1 .. channels
    BY <1>1
  <2>2. (i - 1) % channels = 0 /\ (i - 1) \div channels = i - 1
    BY <1>1
  <2>3. /\ ((i - 1) % channels) * size + (i - 1) \div channels + 1 = (1 - 1) * size + i
        /\ (i - 1) * channels + 1 = i
    BY <1>1, <2>2
  <2> QED BY <2>1, <2>3, Zenon
<1>2. CASE channels = 2
  <2> DEFINE r == (i - 1) % 2
             q == (i - 1) \div 2
             c == r + 1
             j == q + 1
  <2>1. r \in {0, 1} /\ q \in Nat /\ i - 1 = 2 * q + r /\ i <= size * 2
    BY <1>2
  <2>2. (i - 1) % channels = r /\ (i - 1) \div channels = q
    BY <1>2
  <2> HIDE DEF r, q
  <2>3. c \in 1 .. channels /\ j \in 1 .. size
    BY <1>2, <2>1
  <2>4. r * size + q + 1 = (c - 1) * size + j
    <3>1. c - 1 = r /\ q + 1 = j
      BY <2>1
    <3>2. r * size \in Nat
      BY <2>1
    <3> DEFINE p == r * size
    <3>3. p \in Nat
      BY <3>2
    <3>4. (c - 1) * size + j = p + j
      BY <3>1
    <3> HIDE DEF p, c, j
    <3>5. p + q + 1 = p + j
      BY <2>1, <3>1, <3>3
    <3> QED BY <3>4, <3>5 DEF p
  <2>5. (j - 1) * channels + c = i
    BY <1>2, <2>1
  <2> QED BY <2>2, <2>3, <2>4, <2>5
<1> QED BY <1>1, <1>2

\* The bits that fill up a byte.
Padding(n) == [i \in 1 .. (8 - (n % 8)) % 8 |-> 0]

\* They are bits.
LEMMA PaddingIs ==
  ASSUME NEW n \in Nat
  PROVE  Padding(n) \in Seq(Binary)
<1> DEFINE m == (8 - (n % 8)) % 8
<1>1. m \in Nat
  <2> DEFINE r == n % 8
  <2>1. r \in 0 .. 7
    OBVIOUS
  <2> HIDE DEF r
  <2>2. (8 - r) % 8 \in Nat
    BY <2>1
  <2> QED BY <2>2 DEF r
<1>2. Padding(n) = [i \in 1 .. m |-> 0]
  BY Zenon DEF Padding
<1> HIDE DEF m
<1>3. Padding(n) \in [1 .. m -> Binary]
  BY <1>2 DEF Binary
<1> QED BY <1>1, <1>3, Listing

\* A frame is read back: the header gives what it was made for, the samples are those
\* of the block, and both checksums fit.
LEMMA FrameBack ==
  ASSUME NEW block \in Seq(Samples), NEW channels \in 1 .. 2, NEW size \in BlockSizes,
         Len(block) = size * channels, NEW rate \in HeaderRates, NEW index \in FrameNumbers,
         NEW frame, frame = EncodeFrame(block, channels, rate, index)
  PROVE  /\ frame.number = index /\ frame.size = size
         /\ ReadHeader(frame.bits).number = index /\ ReadHeader(frame.bits).size = size
         /\ ReadHeader(frame.bits).rate = rate /\ ReadHeader(frame.bits).channels = channels
         /\ SoundHeader(frame.bits) /\ Divisible(frame.bits, Poly16)
         /\ DecodeFrame(frame.bits) = block
<1> DEFINE head == FrameHeader(size, channels, rate, index)
           codes == [c \in 1 .. channels |-> EncodeSubframe(Channel(block, channels, c))]
           flat == FlattenSeq(codes)
           body == head \o flat
           pad == Padding(Len(body))
           padded == body \o pad
           crc == Crc(padded, Poly16)
           bits == padded \o crc
           start == 1 + Len(head)
<1>0. size \in Nat \ {0}
  BY SMT DEF BlockSizes
<1>1. frame = [number |-> index, size |-> size, bits |-> bits]
  <2> DEFINE s == Len(block) \div channels
  <2>1. s = size
    <3>1. 1 \in 1 .. channels
      OBVIOUS
    <3> QED BY <1>0, <3>1, ChannelIs
  <2>2. frame = LET h == FrameHeader(s, channels, rate, index)
                    b == h \o flat
                    p == b \o Padding(Len(b))
                IN [number |-> index, size |-> s, bits |-> p \o Crc(p, Poly16)]
    BY Zenon DEF EncodeFrame, Padding
  <2> HIDE DEF s
  <2> QED BY <2>1, <2>2, Zenon
<1>2. /\ head \in Seq(Binary)
      /\ \A x \in Seq(Binary) : At(x, 1, head) =>
           /\ ReadHeader(x) = [size |-> size, rate |-> rate, channels |-> channels,
                               number |-> index, body |-> start]
           /\ SoundHeader(x)
  BY HeaderBack, SMT
<1> HIDE DEF head
<1>3. codes \in Seq(Seq(Binary))
  <2>1. ASSUME NEW c \in 1 .. channels PROVE codes[c] \in Seq(Binary)
    <3> DEFINE x == Channel(block, channels, c)
    <3>1. ChannelOf(x, block, channels, size, c)
      BY <1>0, ChannelIs
    <3>2. codes[c] = EncodeSubframe(x)
      OBVIOUS
    <3> HIDE DEF x
    <3>3. x \in Seq(Samples) /\ Len(x) # 0
      BY <1>0, <3>1 DEF ChannelOf
    <3> QED BY <3>2, <3>3, SubframeType
  <2>2. codes = [c \in 1 .. channels |-> codes[c]] /\ channels \in Nat
    OBVIOUS
  <2> HIDE DEF codes
  <2>3. codes \in [1 .. channels -> Seq(Binary)]
    BY <2>1, <2>2
  <2> QED BY <2>2, <2>3, Listing
<1>4. flat \in Seq(Binary)
  <2> HIDE DEF codes
  <2> QED BY <1>3, FlattenType
<1>5. codes = [c \in 1 .. channels |-> EncodeSubframe(Channel(block, channels, c))]
  OBVIOUS
<1> DEFINE flatOf == FlattenSeq(codes)
<1>6. flatOf = flat
  OBVIOUS
<1> HIDE DEF codes, flat
<1>7. body \in Seq(Binary) /\ At(body, 1, body)
  BY <1>2, <1>4, AtSelf
<1> HIDE DEF body
<1>8. pad \in Seq(Binary)
  <2>1. Len(body) \in Nat
    BY <1>7
  <2> QED BY <2>1, PaddingIs
<1> HIDE DEF pad
<1>9. padded \in Seq(Binary) /\ At(padded, 1, padded) /\ At(padded, 1, body)
  BY <1>7, <1>8, AtSelf
<1> HIDE DEF padded
<1>10. crc \in Seq(Binary) /\ Divisible(bits, Poly16)
  <2>1. 16 \in Nat \ {0}
    OBVIOUS
  <2>2. Code(crc, 16) /\ Divisible(bits, Poly16)
    BY <1>9, <2>1, PolysAre, CrcDivides
  <2> QED BY <2>2 DEF Code
<1> HIDE DEF crc
<1>11. bits \in Seq(Binary) /\ At(bits, 1, padded)
  BY <1>9, <1>10, AtSelf
<1> HIDE DEF bits
<1>12. At(bits, 1, body)
  BY <1>7, <1>8, <1>11, AtParts DEF padded
<1>13. At(bits, 1, head) /\ At(bits, start, flat)
  BY <1>2, <1>4, <1>11, <1>12, AtParts DEF body
<1>14. /\ ReadHeader(bits) = [size |-> size, rate |-> rate, channels |-> channels,
                              number |-> index, body |-> start]
       /\ SoundHeader(bits)
  BY <1>2, <1>11, <1>13
<1> HIDE DEF start
<1>15. PICK g : BlockRead(bits, start, size, channels, block, g)
  <2>1. At(bits, start, FlattenSeq(codes))
    BY <1>6, <1>13
  <2> QED BY <1>0, <1>5, <1>11, <2>1, SubframesBack
<1>16. DecodeFrame(bits) = Woven(g[channels].out, size, channels)
  <2>1. channels \in Nat
    OBVIOUS
  <2>2. /\ ReadHeader(bits).size = size /\ ReadHeader(bits).channels = channels
        /\ ReadHeader(bits).body = start
    BY <1>14
  <2>3. ReadingTo(bits, start, size, channels, g)
    BY <1>15, Zenon DEF BlockRead
  <2> QED BY <2>1, <2>2, <2>3, DecodedIs
<1>17. ASSUME NEW i \in 1 .. size * channels
       PROVE  g[channels].out[((i - 1) % channels) * size + (i - 1) \div channels + 1] = block[i]
  <2>1. PICK c \in 1 .. channels, j \in 1 .. size :
           /\ ((i - 1) % channels) * size + (i - 1) \div channels + 1 = (c - 1) * size + j
           /\ (j - 1) * channels + c = i
    BY <1>0, Interleaved
  <2>2. g[channels].out[(c - 1) * size + j] = block[(j - 1) * channels + c]
    BY <1>15, Zenon DEF BlockRead
  <2> QED BY <2>1, <2>2, Zenon
<1>18. DecodeFrame(bits) = block
  <2>1. block = [i \in 1 .. size * channels |-> block[i]]
    OBVIOUS
  <2>2. [i \in 1 .. size * channels |->
           g[channels].out[((i - 1) % channels) * size + (i - 1) \div channels + 1]]
          = [i \in 1 .. size * channels |-> block[i]]
    BY <1>17, Zenon
  <2> QED BY <1>16, <2>1, <2>2, Zenon DEF Woven
<1>19. frame.number = index /\ frame.size = size /\ frame.bits = bits
  BY <1>1
<1> QED BY <1>10, <1>14, <1>18, <1>19
-----------------------------------------------------------------------------
(* Sums over the pieces of a file.                                         *)

\* The sums of the sizes of the first pieces.
SumsTo(f, m, g) == g = [n \in 0 .. m |-> IF n = 0 THEN 0 ELSE g[n - 1] + f[n].size]
SumsOf(f, g) == SumsTo(f, Len(f), g)

\* Those sums exist: a recursive function does, if every step can be taken.
LEMMA SumsExist ==
  ASSUME NEW f, Len(f) \in Nat
  PROVE  \E g : SumsOf(f, g)
<1> DEFINE T == {m \in 0 .. Len(f) :
                   \E g : SumsTo(f, m, g)}
<1>1. 0 \in T
  <2> DEFINE g == [n \in 0 .. 0 |-> 0]
  <2>1. SumsTo(f, 0, g)
    BY DEF SumsTo
  <2> HIDE DEF g
  <2> QED BY <2>1
<1>2. ASSUME NEW m \in 0 .. Len(f), m \in T, m < Len(f) PROVE m + 1 \in T
  <2>1. PICK g : SumsTo(f, m, g)
    BY <1>2
  <2> DEFINE h == [n \in 0 .. m + 1 |-> IF n = m + 1 THEN g[m] + f[m + 1].size ELSE g[n]]
  <2>2. ASSUME NEW n \in 0 .. m + 1
        PROVE  h[n] = IF n = 0 THEN 0 ELSE h[n - 1] + f[n].size
    <3>1. CASE n = m + 1
      BY <3>1
    <3>2. CASE n \in 0 .. m
      <4>1. h[n] = g[n] /\ (n # 0 => h[n - 1] = g[n - 1])
        BY <3>2
      <4>2. g[n] = IF n = 0 THEN 0 ELSE g[n - 1] + f[n].size
        BY <2>1, <3>2 DEF SumsTo
      <4> QED BY <4>1, <4>2
    <3> QED BY <3>1, <3>2
  <2>3. h = [n \in 0 .. m + 1 |-> h[n]]
    OBVIOUS
  <2>4. SumsTo(f, m + 1, h)
    BY <2>2, <2>3 DEF SumsTo
  <2> HIDE DEF h
  <2> QED BY <1>2, <2>4
<1>3. 0 .. Len(f) \subseteq T
  <2> HIDE DEF T
  <2> QED BY <1>1, <1>2, Climb
<1>4. Len(f) \in T
  BY <1>3
<1> QED BY <1>4 DEF SumsOf

\* One more piece does not change the sums before it.
LEMMA SumsAgree ==
  ASSUME NEW f, Len(f) \in Nat, NEW p, NEW ff, Len(ff) = Len(f) + 1,
         \A n \in 1 .. Len(f) : ff[n] = f[n],
         NEW g, SumsOf(f, g), NEW h, SumsOf(ff, h)
  PROVE  h[Len(f)] = g[Len(f)]
<1> DEFINE T == {n \in 0 .. Len(f) : h[n] = g[n]}
<1>1. 0 \in T
  BY DEF SumsOf, SumsTo
<1>2. ASSUME NEW m \in 0 .. Len(f), m \in T, m < Len(f) PROVE m + 1 \in T
  <2>1. g[m + 1] = g[m] + f[m + 1].size
    BY <1>2 DEF SumsOf, SumsTo
  <2>2. h[m + 1] = h[m] + ff[m + 1].size
    BY <1>2 DEF SumsOf, SumsTo
  <2>3. m + 1 \in 1 .. Len(f)
    BY <1>2
  <2> QED BY <1>2, <2>1, <2>2, <2>3
<1>3. 0 .. Len(f) \subseteq T
  <2> HIDE DEF T
  <2> QED BY <1>1, <1>2, Climb
<1> QED BY <1>3

\* What a file has is the last of those sums.
LEMMA ContentsIs ==
  ASSUME NEW f, Len(f) \in Nat
  PROVE  \E g : SumsOf(f, g) /\ Contents(f) = g[Len(f)]
<1> DEFINE g == CHOOSE x : SumsOf(f, x)
<1>1. SumsOf(f, g)
  BY SumsExist
<1>2. Contents(f) = g[Len(f)]
  BY Zenon DEF Contents, SumsOf, SumsTo
<1> QED BY <1>1, <1>2

\* A sequence of pieces and one more.
LEMMA ContentsGrow ==
  ASSUME NEW P, NEW f \in Seq(P), NEW p \in P
  PROVE  Contents(Append(f, p)) = Contents(f) + p.size
<1> DEFINE ff == Append(f, p)
<1>1. /\ Len(f) \in Nat /\ Len(ff) = Len(f) + 1 /\ ff[Len(f) + 1] = p
      /\ \A n \in 1 .. Len(f) : ff[n] = f[n]
  OBVIOUS
<1> HIDE DEF ff
<1>2. PICK g : SumsOf(f, g) /\ Contents(f) = g[Len(f)]
  BY <1>1, ContentsIs
<1>3. PICK h : SumsOf(ff, h) /\ Contents(ff) = h[Len(ff)]
  BY <1>1, ContentsIs
<1>4. h[Len(f)] = g[Len(f)]
  BY <1>1, <1>2, <1>3, SumsAgree
<1>5. h[Len(f) + 1] = h[Len(f)] + ff[Len(f) + 1].size
  <2>1. SumsTo(ff, Len(f) + 1, h)
    BY <1>1, <1>3 DEF SumsOf
  <2> QED BY <1>1, <2>1 DEF SumsTo
<1> QED BY <1>1, <1>2, <1>3, <1>4, <1>5 DEF ff

\* Of no pieces, nothing.
LEMMA ContentsEmpty == Contents(<<>>) = 0
<1>1. Len(<<>>) = 0
  OBVIOUS
<1>2. PICK g : SumsOf(<<>>, g) /\ Contents(<<>>) = g[Len(<<>>)]
  BY <1>1, ContentsIs
<1> QED BY <1>1, <1>2 DEF SumsOf, SumsTo

\* What a file has is a natural number if the sizes of its pieces are.
LEMMA ContentsNat ==
  ASSUME NEW f, Len(f) \in Nat, \A n \in 1 .. Len(f) : f[n].size \in Nat
  PROVE  Contents(f) \in Nat
<1>1. PICK g : SumsOf(f, g) /\ Contents(f) = g[Len(f)]
  BY ContentsIs
<1> DEFINE T == {n \in 0 .. Len(f) : g[n] \in Nat}
<1>2. 0 \in T
  BY <1>1 DEF SumsOf, SumsTo
<1>3. ASSUME NEW m \in 0 .. Len(f), m \in T, m < Len(f) PROVE m + 1 \in T
  <2>1. g[m + 1] = g[m] + f[m + 1].size
    BY <1>1, <1>3 DEF SumsOf, SumsTo
  <2>2. f[m + 1].size \in Nat
    BY <1>3
  <2> QED BY <1>3, <2>1, <2>2
<1>4. 0 .. Len(f) \subseteq T
  <2> HIDE DEF T
  <2> QED BY <1>2, <1>3, Climb
<1> QED BY <1>1, <1>4

\* A u32 that wraps at every step is the sum wrapped once.
LEMMA ModAdd ==
  ASSUME NEW a \in Nat, NEW b \in Nat, NEW w \in Nat \ {0}
  PROVE  ((a % w) + b) % w = (a + b) % w
<1> DEFINE q == a \div w
           r == a % w
           s == (r + b) \div w
           m == (r + b) % w
<1>1. q \in Int /\ r \in 0 .. w - 1 /\ a = w * q + r
  OBVIOUS
<1> HIDE DEF q, r
<1>2. s \in Int /\ m \in 0 .. w - 1 /\ r + b = w * s + m
  BY <1>1
<1>3. (a + b) = w * (q + s) + m
  <2>1. w * (q + s) = w * q + w * s
    BY <1>1, <1>2
  <2> QED BY <1>1, <1>2, <2>1
<1> HIDE DEF s, m
<1>4. (a + b) % w = m
  <2> DEFINE x == a + b
             p == q + s
  <2>1. x \in Int /\ p \in Int /\ x = w * p + m
    BY <1>1, <1>2, <1>3
  <2> HIDE DEF x, p
  <2>2. x % w = m
    BY <1>2, <2>1, ModIs
  <2> QED BY <2>2 DEF x
<1> QED BY <1>4 DEF m, r
-----------------------------------------------------------------------------
(* Recordings, parts and pieces.                                           *)

\* The samples that the number of a piece counts by.
Unit(r) == (IF r.container = "flac" THEN BlockSize ELSE 1) * r.channels

\* The n samples of each channel at place k.
Part(r, k, n) == SubSeq(r.samples, k * Unit(r) + 1, k * Unit(r) + n * r.channels)

\* The piece they are made into.
Made(r, k, n) ==
  IF r.container = "flac" THEN EncodeFrame(Part(r, k, n), r.channels, r.rate, k)
  ELSE [number |-> k, size |-> n, bits |-> Part(r, k, n)]

\* Place k has n samples of each channel, for FLAC a block at most.
Fits(r, k, n) ==
  /\ k \in 0 .. Len(r.samples) /\ n \in 1 .. Len(r.samples)
  /\ k * Unit(r) + n * r.channels <= Len(r.samples)
  /\ r.container = "flac" => n <= BlockSize

\* What a file of r consists of.
Pieces(r) ==
  {Torn} \cup
  {Made(r, p[1], p[2]) :
     p \in {q \in (0 .. Len(r.samples)) \X (1 .. Len(r.samples)) : Fits(r, q[1], q[2])}}

\* What the assumptions say of a recording.
LEMMA RecordingIs ==
  ASSUME NEW r \in Inputs
  PROVE  /\ r.container \in {"wav", "mp3", "flac"} /\ r.channels \in {1, 2}
         /\ r.rate \in Nat /\ r.rate % 2 ^ 20 = r.rate
         /\ r.samples \in Seq(Samples) /\ Len(r.samples) \in Nat
         /\ Len(r.samples) % r.channels = 0
         /\ Unit(r) \in Nat \ {0}
         /\ BlockSize * r.channels \in Nat \ {0}
<1>1. /\ r.container \in {"wav", "mp3", "flac"} /\ r.channels \in 1 .. 2
      /\ r.rate \in 1 .. 2 ^ 20 - 1 /\ r.samples \in Seq(Samples)
      /\ Len(r.samples) % r.channels = 0
  BY MuxerAssumption
<1>2. r.rate \in Nat /\ r.rate % 2 ^ 20 = r.rate
  <2> DEFINE rate == r.rate
  <2>1. rate \in 1 .. 2 ^ 20 - 1
    BY <1>1
  <2> HIDE DEF rate
  <2>2. rate \in Nat /\ rate % 2 ^ 20 = rate
    BY <2>1
  <2> QED BY <2>2 DEF rate
<1>3. BlockSize \in Nat \ {0}
  BY MuxerAssumption
<1>4. r.channels \in {1, 2}
  BY <1>1
<1>5. BlockSize * r.channels \in Nat \ {0} /\ 1 * r.channels \in Nat \ {0}
  <2>1. CASE r.channels = 1 BY <1>3, <2>1
  <2>2. CASE r.channels = 2 BY <1>3, <2>2
  <2> QED BY <1>4, <2>1, <2>2
<1>6. Unit(r) \in Nat \ {0}
  BY <1>5 DEF Unit
<1>7. Len(r.samples) \in Nat
  BY <1>1
<1> QED BY <1>1, <1>2, <1>4, <1>5, <1>6, <1>7

\* A frame has the number it was given and the size of its block.
LEMMA FrameIs ==
  ASSUME NEW block, NEW channels, NEW rate, NEW k
  PROVE  /\ EncodeFrame(block, channels, rate, k).number = k
         /\ EncodeFrame(block, channels, rate, k).size = Len(block) \div channels
<1>1. \E b : EncodeFrame(block, channels, rate, k) =
               [number |-> k, size |-> Len(block) \div channels, bits |-> b]
  BY Zenon DEF EncodeFrame
<1> QED BY <1>1

\* A part has as many samples as it was cut for.
LEMMA PartIs ==
  ASSUME NEW r \in Inputs, NEW k, NEW n, Fits(r, k, n)
  PROVE  /\ k \in Nat /\ n \in Nat \ {0}
         /\ r.container = "flac" => n <= BlockSize
         /\ Len(Part(r, k, n)) = n * r.channels
         /\ Len(Part(r, k, n)) \div r.channels = n
<1>1. /\ k \in Nat /\ n \in Nat \ {0}
      /\ r.container = "flac" => n <= BlockSize
      /\ k * Unit(r) + n * r.channels <= Len(r.samples)
  BY RecordingIs DEF Fits
<1>2. /\ r.channels \in {1, 2} /\ Unit(r) \in Nat
      /\ r.samples \in Seq(Samples) /\ Len(r.samples) \in Nat
  BY RecordingIs
<1> DEFINE a == k * Unit(r)
           b == n * r.channels
<1>3. a \in Nat /\ b \in Nat /\ a + b <= Len(r.samples)
  BY <1>1, <1>2
<1>4. Part(r, k, n) = SubSeq(r.samples, a + 1, a + b)
  BY DEF Part
<1>5. b \div r.channels = n
  <2>1. CASE r.channels = 1
    BY <1>1, <2>1
  <2>2. CASE r.channels = 2
    BY <1>1, <2>2
  <2> QED BY <1>2, <2>1, <2>2
<1> HIDE DEF a, b
<1>6. Len(SubSeq(r.samples, a + 1, a + b)) = b
  BY <1>2, <1>3
<1> QED BY <1>1, <1>4, <1>5, <1>6 DEF b

\* A piece has the number and the size of its part, and is not a torn one.
LEMMA MadeIs ==
  ASSUME NEW r \in Inputs, NEW k, NEW n, Fits(r, k, n)
  PROVE  /\ Made(r, k, n).number = k /\ Made(r, k, n).size = n
         /\ Made(r, k, n) # Torn /\ Made(r, k, n) \in Pieces(r)
<1>1. Made(r, k, n).number = k /\ Made(r, k, n).size = n
  <2>1. CASE r.container = "flac"
    BY <2>1, FrameIs, PartIs DEF Made
  <2>2. CASE r.container # "flac"
    BY <2>2 DEF Made
  <2> QED BY <2>1, <2>2
<1>2. k \in Nat
  BY PartIs
<1>3. Torn.number = -1
  BY DEF Torn
<1>4. Made(r, k, n) # Torn
  BY <1>1, <1>2, <1>3
<1>5. Made(r, k, n) \in Pieces(r)
  <2> DEFINE Q == {q \in (0 .. Len(r.samples)) \X (1 .. Len(r.samples)) : Fits(r, q[1], q[2])}
  <2>1. <<k, n>> \in Q
    BY DEF Fits
  <2>2. Pieces(r) = {Torn} \cup {Made(r, p[1], p[2]) : p \in Q}
    BY DEF Pieces
  <2> HIDE DEF Q
  <2> QED BY <2>1, <2>2
<1> QED BY <1>1, <1>4, <1>5

\* Every other piece is made of a part.
LEMMA PieceIs ==
  ASSUME NEW r \in Inputs, NEW x \in Pieces(r)
  PROVE  \/ x = Torn
         \/ \E k, n : Fits(r, k, n) /\ x = Made(r, k, n)
BY DEF Pieces

\* The sizes of pieces.
LEMMA SizeIs ==
  ASSUME NEW r \in Inputs, NEW x \in Pieces(r)
  PROVE  /\ x.size \in Nat
         /\ x # Torn => /\ x.number \in Nat /\ x.size \in Nat \ {0}
                        /\ r.container = "flac" => x.size <= BlockSize
<1>1. CASE x = Torn
  BY <1>1 DEF Torn
<1>2. CASE x # Torn
  <2>1. PICK k, n : Fits(r, k, n) /\ x = Made(r, k, n)
    BY <1>2, PieceIs
  <2>2. x.number = k /\ x.size = n
    BY <2>1, MadeIs
  <2>3. /\ k \in Nat /\ n \in Nat \ {0}
        /\ r.container = "flac" => n <= BlockSize
    BY <2>1, PartIs
  <2> QED BY <2>2, <2>3
<1> QED BY <1>1, <1>2
-----------------------------------------------------------------------------
(* Files.                                                                  *)

\* The numbers of the whole pieces rise: none is there twice.
Rising(f) ==
  \A i, j \in 1 .. Len(f) :
    i < j /\ f[i] # Torn /\ f[j] # Torn => f[i].number < f[j].number

\* They are below m.
Below(f, m) == \A i \in 1 .. Len(f) : f[i] # Torn => f[i].number < m

\* FLAC: every frame has a full block,
Full(f) == \A i \in 1 .. Len(f) : f[i] # Torn => f[i].size = BlockSize

\* or is the last piece of the file.
Sized(f) == \A i \in 1 .. Len(f) : f[i] # Torn /\ f[i].size < BlockSize => i = Len(f)

\* A file of r while packets are taken, the next piece having number m.
Open(r, f, m) ==
  /\ f \in Seq(Pieces(r)) /\ Rising(f) /\ Below(f, m)
  /\ r.container = "flac" => Full(f)

\* A file of r at any time: the last piece may be the rest, with number m.
Shut(r, f, m) ==
  /\ f \in Seq(Pieces(r)) /\ Rising(f) /\ Below(f, m + 1)
  /\ r.container = "flac" => Sized(f)

\* A new file.
LEMMA OpenEmpty == ASSUME NEW r PROVE Open(r, <<>>, 0)
BY DEF Open, Rising, Below, Full

\* A sequence and one more.
LEMMA AppendIs ==
  ASSUME NEW P, NEW f \in Seq(P), NEW x \in P
  PROVE  /\ Append(f, x) \in Seq(P) /\ Len(f) \in Nat /\ Len(Append(f, x)) = Len(f) + 1
         /\ Append(f, x)[Len(f) + 1] = x
         /\ \A i \in 1 .. Len(f) : Append(f, x)[i] = f[i]
OBVIOUS

\* What a file of pieces has is a natural number.
LEMMA FileContents ==
  ASSUME NEW r \in Inputs, NEW f \in Seq(Pieces(r))
  PROVE  Contents(f) \in Nat
<1> DEFINE P == Pieces(r)
<1>1. Len(f) \in Nat /\ \A n \in 1 .. Len(f) : f[n] \in P
  <2> HIDE DEF P
  <2>1. f \in Seq(P)
    BY DEF P
  <2> QED BY <2>1
<1>2. \A n \in 1 .. Len(f) : f[n].size \in Nat
  BY <1>1, SizeIs
<1> QED BY <1>1, <1>2, ContentsNat

\* The next number may always be a later one.
LEMMA OpenRises ==
  ASSUME NEW r \in Inputs, NEW f, NEW m \in Nat, Open(r, f, m), NEW mm \in Nat, m <= mm
  PROVE  Open(r, f, mm)
<1>1. ASSUME NEW i \in 1 .. Len(f), f[i] # Torn PROVE f[i].number < mm
  <2>1. f[i] \in Pieces(r) /\ f[i].number < m
    BY <1>1 DEF Open, Below
  <2>2. f[i].number \in Nat
    BY <1>1, <2>1, SizeIs
  <2> QED BY <2>1, <2>2
<1> QED BY <1>1 DEF Open, Below

\* A file that pieces may be added to is also good as it is.
LEMMA OpenShut ==
  ASSUME NEW r \in Inputs, NEW f, NEW m \in Nat, Open(r, f, m)
  PROVE  Shut(r, f, m)
<1>1. Open(r, f, m + 1)
  BY OpenRises
<1>2. BlockSize \in Nat
  BY MuxerAssumption
<1> QED BY <1>1, <1>2 DEF Open, Shut, Full, Sized

\* A torn piece is added.
LEMMA OpenTorn ==
  ASSUME NEW r \in Inputs, NEW f, NEW m \in Nat, Open(r, f, m)
  PROVE  Open(r, Append(f, Torn), m) /\ Contents(Append(f, Torn)) = Contents(f)
<1> DEFINE g == Append(f, Torn)
<1>1. Torn \in Pieces(r) /\ f \in Seq(Pieces(r))
  BY DEF Open, Pieces
<1>2. /\ g \in Seq(Pieces(r)) /\ Len(f) \in Nat /\ Len(g) = Len(f) + 1
      /\ g[Len(f) + 1] = Torn /\ \A i \in 1 .. Len(f) : g[i] = f[i]
  BY <1>1, AppendIs
<1> HIDE DEF g
<1>3. \A i \in 1 .. Len(g) : g[i] # Torn => i \in 1 .. Len(f) /\ g[i] = f[i]
  BY <1>2
<1>4. Open(r, g, m)
  BY <1>2, <1>3 DEF Open, Rising, Below, Full
<1>5. Contents(g) = Contents(f) + Torn.size
  BY <1>1, ContentsGrow DEF g
<1>6. Torn.size = 0
  BY DEF Torn
<1> QED BY <1>1, <1>4, <1>5, <1>6, FileContents DEF g

\* The next piece is added.
LEMMA PieceAdded ==
  ASSUME NEW r \in Inputs, NEW f, NEW m \in Nat, Open(r, f, m), NEW n, Fits(r, m, n)
  PROVE  /\ Shut(r, Append(f, Made(r, m, n)), m)
         /\ (r.container = "flac" => n = BlockSize) => Open(r, Append(f, Made(r, m, n)), m + 1)
         /\ Contents(Append(f, Made(r, m, n))) = Contents(f) + n
<1> DEFINE x == Made(r, m, n)
           g == Append(f, x)
<1>1. x \in Pieces(r) /\ f \in Seq(Pieces(r)) /\ x.number = m /\ x.size = n
  BY MadeIs DEF Open
<1>2. /\ g \in Seq(Pieces(r)) /\ Len(f) \in Nat /\ Len(g) = Len(f) + 1
      /\ g[Len(f) + 1] = x /\ \A i \in 1 .. Len(f) : g[i] = f[i]
  BY <1>1, AppendIs
<1>3. Contents(g) = Contents(f) + n
  BY <1>1, ContentsGrow
<1> HIDE DEF g, x
<1>4. \A i \in 1 .. Len(g) : i = Len(f) + 1 \/ (i \in 1 .. Len(f) /\ g[i] = f[i])
  BY <1>2
<1>5. Rising(g)
  <2> SUFFICES ASSUME NEW i \in 1 .. Len(g), NEW j \in 1 .. Len(g),
                      i < j, g[i] # Torn, g[j] # Torn
               PROVE  g[i].number < g[j].number
    BY DEF Rising
  <2>1. i \in 1 .. Len(f) /\ g[i] = f[i]
    BY <1>2
  <2>2. CASE j = Len(f) + 1
    BY <1>1, <1>2, <2>1, <2>2 DEF Open, Below
  <2>3. CASE j \in 1 .. Len(f)
    BY <1>2, <2>1, <2>3 DEF Open, Rising
  <2> QED BY <1>4, <2>2, <2>3
<1>6. Below(g, m + 1)
  <2>1. Below(f, m + 1)
    BY OpenRises DEF Open
  <2> QED BY <1>1, <1>2, <1>4, <2>1 DEF Below
<1>7. ASSUME r.container = "flac" PROVE Sized(g)
  <2>1. BlockSize \in Nat
    BY MuxerAssumption
  <2> QED BY <1>2, <1>4, <1>7, <2>1 DEF Open, Full, Sized
<1>8. ASSUME r.container = "flac", n = BlockSize PROVE Full(g)
  BY <1>1, <1>2, <1>4, <1>8 DEF Open, Full
<1> QED BY <1>2, <1>3, <1>5, <1>6, <1>7, <1>8 DEF Open, Shut, g, x

\* What is left of a file that breaks off.
LEMMA CutIs ==
  ASSUME NEW P, NEW f \in Seq(P), NEW n \in 0 .. Len(f)
  PROVE  /\ SubSeq(f, 1, n) \in Seq(P) /\ Len(SubSeq(f, 1, n)) = n
         /\ \A i \in 1 .. n : SubSeq(f, 1, n)[i] = f[i]
OBVIOUS

\* It stays good when it gets shorter and pieces in it are torn.
LEMMA ShutLike ==
  ASSUME NEW r \in Inputs, NEW f, NEW m \in Nat, Shut(r, f, m),
         NEW g \in Seq(Pieces(r)), Len(f) \in Nat, Len(g) \in 0 .. Len(f),
         \A i \in 1 .. Len(g) : g[i] = f[i] \/ g[i] = Torn
  PROVE  Shut(r, g, m)
<1>1. \A i \in 1 .. Len(g) : i \in 1 .. Len(f) /\ (g[i] # Torn => g[i] = f[i])
  OBVIOUS
<1>2. Rising(g)
  BY <1>1 DEF Shut, Rising
<1>3. Below(g, m + 1)
  BY <1>1 DEF Shut, Below
<1>4. ASSUME r.container = "flac" PROVE Sized(g)
  BY <1>1, <1>4 DEF Shut, Sized
<1> QED BY <1>2, <1>3, <1>4 DEF Shut

\* So a file that breaks off anywhere is good as far as it goes.
LEMMA ShutBreaks ==
  ASSUME NEW r \in Inputs, NEW f, NEW m \in Nat, Shut(r, f, m), NEW n \in DOMAIN f \cup {0}
  PROVE  /\ Shut(r, SubSeq(f, 1, n), m)
         /\ n > 0 => Shut(r, Append(SubSeq(f, 1, n - 1), Torn), m)
<1> DEFINE P == Pieces(r)
<1>1. f \in Seq(P) /\ Torn \in P
  BY DEF Shut, Pieces
<1> HIDE DEF P
<1>2. Len(f) \in Nat /\ n \in 0 .. Len(f)
  BY <1>1
<1>3. Shut(r, SubSeq(f, 1, n), m)
  <2>1. /\ SubSeq(f, 1, n) \in Seq(P) /\ Len(SubSeq(f, 1, n)) = n
        /\ \A i \in 1 .. n : SubSeq(f, 1, n)[i] = f[i]
    BY <1>1, <1>2, CutIs
  <2> QED BY <1>2, <2>1, ShutLike DEF P
<1>4. ASSUME n > 0 PROVE Shut(r, Append(SubSeq(f, 1, n - 1), Torn), m)
  <2> DEFINE c == SubSeq(f, 1, n - 1)
             g == Append(c, Torn)
  <2>1. /\ c \in Seq(P) /\ Len(c) = n - 1 /\ \A i \in 1 .. n - 1 : c[i] = f[i]
    BY <1>1, <1>2, <1>4, CutIs
  <2> HIDE DEF c
  <2>2. /\ g \in Seq(P) /\ Len(g) = Len(c) + 1 /\ g[Len(c) + 1] = Torn
        /\ \A i \in 1 .. Len(c) : g[i] = c[i]
    BY <1>1, <2>1, AppendIs
  <2> HIDE DEF g
  <2>3. Len(g) = n /\ \A i \in 1 .. n : g[i] = f[i] \/ g[i] = Torn
    BY <1>2, <1>4, <2>1, <2>2
  <2>4. Shut(r, g, m)
    BY <1>2, <2>2, <2>3, ShutLike DEF P
  <2> QED BY <2>4 DEF g, c
<1> QED BY <1>3, <1>4
-----------------------------------------------------------------------------
(* The inductive invariant.                                                *)

\* Samples may still be taken or are being written.
Taking == pc \in {"idle", "flush", "tail"}

\* How many samples an error may cost: a block or a packet, or for MP3 all that
\* the encoder held.
Lost(r) == IF r.container = "mp3" THEN Len(r.samples) ELSE BlockSize * r.channels

\* The parts of the inductive invariant.  Where the muxer is:
Types ==
  /\ input \in Inputs
  /\ fed \in 0 .. Len(input.samples) /\ fed % input.channels = 0
  /\ number \in Nat /\ total \in Nat /\ errors \in Nat
  /\ pc \in {"idle", "flush", "tail", "patch", "size", "closed", "broken"}
  /\ pc = "flush" => Is("flac")
  /\ pc = "size" => Is("wav")

\* What it holds: the samples from the place of the next piece to the last one fed.
Held ==
  /\ buffer \in Seq(Samples)
  /\ Len(buffer) <= (IF Is("flac") THEN 2 * PerBlock ELSE Len(input.samples))
  /\ Is("flac") /\ pc \in {"idle", "tail"} => Len(buffer) < PerBlock
  /\ Is("flac") /\ pc = "flush" => Len(buffer) < 2 * PerBlock
  /\ pc = "tail" => buffer # <<>>
  /\ Is("wav") \/ (Is("flac") /\ pc \in {"patch", "closed"}) => buffer = <<>>
  /\ Taking => /\ number * Unit(input) + Len(buffer) = fed
               /\ buffer = SubSeq(input.samples, number * Unit(input) + 1, fed)

\* The file.
Filed ==
  /\ Taking => Open(input, file, number)
  /\ Shut(input, file, number)

\* What is neither in the file nor held was answered with an error.
Accounted ==
  pc # "broken" =>
    Contents(file) * input.channels + Len(buffer) + errors * Lost(input) >= fed

\* The counts the header will get: FLAC counts samples as they leave the buffer,
\* WAV the bytes that were written.
Totals ==
  /\ Is("flac") /\ Taking => total = number * BlockSize
  /\ Is("flac") /\ pc \in {"patch", "closed"} => total * input.channels = fed
  /\ Is("wav") /\ pc # "broken" => total = (2 * (Contents(file) * input.channels)) % Wrap

\* The header: it has no sizes until the very end.
Headed ==
  /\ header \in IF Is("wav") THEN [rate : Nat, channels : Nat, riff : Nat, total : Nat]
                             ELSE [rate : Nat, channels : Nat, total : Nat]
  /\ header.rate = input.rate /\ header.channels = input.channels
  /\ pc # "closed" => header.total = 0
  /\ pc = "closed" => header.total = IF Is("mp3") THEN 0 ELSE total
  /\ Is("wav") /\ pc \in {"size", "closed"} => header.riff = (36 + total) % Wrap

\* What failed writes left in a WAV file: less than a packet each.
Strayed == stray \in Nat /\ stray <= errors * (2 * PerBlock - 1)

Kept == Types /\ Held /\ Filed /\ Accounted /\ Totals /\ Headed

IInv == Kept /\ Strayed
-----------------------------------------------------------------------------
(* The steps.                                                              *)

\* What the types say of the recording that is made.
LEMMA Known ==
  ASSUME Types
  PROVE  /\ input.container \in {"wav", "mp3", "flac"}
         /\ input.channels \in {1, 2} /\ input.channels \in Nat
         /\ input.samples \in Seq(Samples) /\ Len(input.samples) \in Nat
         /\ Len(input.samples) % input.channels = 0
         /\ Unit(input) \in Nat \ {0} /\ PerBlock \in Nat \ {0}
         /\ Lost(input) \in Nat
BY RecordingIs DEF Types, PerBlock, Lost

\* What a call of write_packet is given.
LEMMA PacketIs ==
  ASSUME Types, NEW n \in Packets, Fed(n)
  PROVE  \E m \in Nat \ {0}, d \in Nat \ {0}, u \in Nat :
           /\ d = m * input.channels /\ d \div input.channels = m /\ d <= PerBlock
           /\ fed' = u /\ u = fed + d /\ u <= Len(input.samples) /\ u % input.channels = 0
           /\ Packet(n) = SubSeq(input.samples, fed + 1, u) /\ Len(Packet(n)) = d
<1> DEFINE s  == input.samples
           ch == input.channels
           u  == UpTo(n)
<1>1. /\ ch \in {1, 2} /\ s \in Seq(Samples) /\ Len(s) \in Nat /\ Len(s) % ch = 0
      /\ fed \in 0 .. Len(s) /\ fed % ch = 0 /\ fed < Len(s)
  BY Known DEF Types, Fed
<1>2. n \in 1 .. BlockSize /\ BlockSize \in Nat /\ PerBlock = BlockSize * ch
  BY MuxerAssumption DEF PerBlock
<1>3. u = IF fed + n * ch < Len(s) THEN fed + n * ch ELSE Len(s)
  BY DEF UpTo
<1>4. fed' = u /\ Packet(n) = SubSeq(s, fed + 1, u)
  BY DEF Fed, Packet
<1> HIDE DEF s, ch, u
<1>5. \E m \in 1 .. n : u = fed + m * ch /\ u <= Len(s) /\ u % ch = 0
  <2>1. CASE ch = 1
    <3>1. u - fed \in 1 .. n
      BY <1>1, <1>2, <1>3, <2>1
    <3>2. u \in Nat /\ u <= Len(s)
      BY <1>1, <1>2, <1>3, <2>1
    <3>3. u = fed + (u - fed) * 1 /\ u % 1 = 0
      BY <1>1, <3>2
    <3> QED BY <2>1, <3>1, <3>2, <3>3
  <2>2. CASE ch = 2
    <3>1. CASE fed + n * ch < Len(s)
      BY <1>1, <1>2, <1>3, <2>2, <3>1
    <3>2. CASE ~ (fed + n * ch < Len(s))
      <4> DEFINE m == (Len(s) - fed) \div 2
      <4>1. m \in 1 .. n /\ Len(s) = fed + m * 2
        BY <1>1, <1>2, <2>2, <3>2
      <4> QED BY <1>1, <1>3, <2>2, <3>2, <4>1
    <3> QED BY <3>1, <3>2
  <2> QED BY <1>1, <2>1, <2>2
<1>6. PICK m \in 1 .. n : u = fed + m * ch /\ u <= Len(s) /\ u % ch = 0
  BY <1>5
<1>7. m * ch <= BlockSize * ch /\ m * ch \in Nat /\ (m * ch) \div ch = m
  <2>1. CASE ch = 1
    BY <1>2, <2>1
  <2>2. CASE ch = 2
    BY <1>2, <2>2
  <2> QED BY <1>1, <2>1, <2>2
<1> DEFINE d == m * ch
<1>8. d \in Nat \ {0} /\ u = fed + d /\ m \in Nat \ {0}
  <2>1. m \in Nat \ {0}
    BY <1>2
  <2>2. m * ch # 0
    BY <1>1, <2>1
  <2> QED BY <1>6, <1>7, <2>1, <2>2
<1>9. d <= PerBlock /\ d \div ch = m
  BY <1>2, <1>7
<1>10. d = m * ch
  OBVIOUS
<1> HIDE DEF d
<1>11. u \in 0 .. Len(s) /\ u \in Nat /\ Len(SubSeq(s, fed + 1, u)) = d /\ u % ch = 0
  BY <1>1, <1>6, <1>8
<1>12. /\ d = m * ch /\ d \div ch = m /\ d <= PerBlock
       /\ fed' = u /\ u = fed + d /\ u <= Len(s) /\ u % ch = 0
       /\ Packet(n) = SubSeq(s, fed + 1, u) /\ Len(Packet(n)) = d
  BY <1>1, <1>4, <1>6, <1>8, <1>9, <1>10, <1>11
<1>13. m \in Nat \ {0} /\ d \in Nat \ {0} /\ u \in Nat
  BY <1>8, <1>11
<1> QED BY <1>12, <1>13, Zenon DEF s, ch

\* A part fits when its last sample is there.
LEMMA NextFits ==
  ASSUME NEW r \in Inputs, NEW k \in Nat, NEW n \in Nat \ {0},
         k * Unit(r) + n * r.channels <= Len(r.samples),
         r.container = "flac" => n <= BlockSize
  PROVE  Fits(r, k, n)
<1> DEFINE u  == Unit(r)
           ch == r.channels
           l  == Len(r.samples)
<1>1. u \in Nat \ {0} /\ ch \in {1, 2} /\ l \in Nat /\ k * u + n * ch <= l
  BY RecordingIs
<1> HIDE DEF u, ch, l
<1>2. k <= k * u
  BY <1>1
<1>3. n <= n * ch /\ n * ch \in Nat
  BY <1>1
<1>4. k * u \in Nat
  BY <1>1
<1>5. k \in 0 .. l /\ n \in 1 .. l
  BY <1>1, <1>2, <1>3, <1>4
<1> QED BY <1>5 DEF Fits, l

\* write_all of the next piece.
LEMMA WriteOutIs ==
  ASSUME NEW n, Types, Open(input, file, number), Fits(input, number, n),
         NEW next, WriteOut(Made(input, number, n), next)
  PROVE  \/ /\ Written /\ errors' = errors /\ pc' = next
            /\ Contents(file') = Contents(file) + n
            /\ Shut(input, file', number)
            /\ (Is("flac") => n = BlockSize) => Open(input, file', number + 1)
         \/ /\ ~ Written /\ errors' = errors + 1
            /\ pc' = IF pc = "tail" THEN "broken" ELSE "idle"
            /\ Contents(file') = Contents(file)
            /\ Open(input, file', number)
<1>1. input \in Inputs /\ number \in Nat /\ errors \in Nat
  BY DEF Types
<1>2. CASE file' = Append(file, Made(input, number, n)) /\ pc' = next /\ errors' = errors
  BY <1>1, <1>2, PieceAdded DEF Is, Written
<1>3. CASE /\ file' = file \/ file' = Append(file, Torn)
           /\ errors' = errors + 1
           /\ pc' = IF pc = "tail" THEN "broken" ELSE "idle"
  <2>1. errors' # errors
    BY <1>1, <1>3
  <2>2. /\ Open(input, Append(file, Torn), number)
        /\ Contents(Append(file, Torn)) = Contents(file)
    BY <1>1, OpenTorn
  <2>3. Open(input, file', number) /\ Contents(file') = Contents(file)
    BY <1>3, <2>2
  <2> QED BY <1>3, <2>1, <2>3 DEF Written
<1> QED BY <1>2, <1>3 DEF WriteOut

\* Samples that were accounted for still are.
LEMMA StillAccounted ==
  ASSUME NEW c \in Nat, NEW n \in Nat, NEW ch \in Nat, NEW b \in Nat, NEW bb \in Nat,
         NEW e \in Nat, NEW lost \in Nat, NEW f \in Nat, NEW ff \in Nat,
         c * ch + b + e * lost >= f
  PROVE  /\ bb >= b + (ff - f) => c * ch + bb + e * lost >= ff
         /\ bb + n * ch >= b + (ff - f) => (c + n) * ch + bb + e * lost >= ff
         /\ bb + lost >= b + (ff - f) => c * ch + bb + (e + 1) * lost >= ff
<1>1. (c + n) * ch = c * ch + n * ch /\ (e + 1) * lost = e * lost + lost
  OBVIOUS
<1>2. c * ch \in Nat /\ n * ch \in Nat /\ e * lost \in Nat
  OBVIOUS
<1> DEFINE x == c * ch
           y == n * ch
           z == e * lost
<1> HIDE DEF x, y, z
<1>3. x \in Nat /\ y \in Nat /\ z \in Nat /\ x + b + z >= f
  BY <1>2 DEF x, y, z
<1>4. /\ bb >= b + (ff - f) => x + bb + z >= ff
      /\ bb + y >= b + (ff - f) => x + y + bb + z >= ff
      /\ bb + lost >= b + (ff - f) => x + bb + (z + lost) >= ff
  BY <1>3
<1> QED BY <1>1, <1>4 DEF x, y, z

\* The header while packets are taken.
LEMMA HeaderStays ==
  ASSUME Headed, UNCHANGED <<input, header>>, pc # "closed",
         pc' \notin {"size", "closed"}
  PROVE  Headed'
BY DEF Headed, Is

\* The arithmetic of pieces.
LEMMA Distributes ==
  ASSUME NEW a \in Nat, NEW b \in Nat, NEW c \in Nat
  PROVE  (a + b) * c = a * c + b * c /\ a * c \in Nat /\ b * c \in Nat /\ (a + b) * c \in Nat
OBVIOUS

\* A stretch that ends before it begins is empty.
LEMMA Beginnings ==
  ASSUME NEW X, NEW s \in Seq(X), NEW a \in Nat
  PROVE  SubSeq(s, a + 1, a) = <<>>
OBVIOUS

\* A packet is written to a WAV file.
LEMMA WavSteps ==
  ASSUME Kept, NEW n \in Packets, WritePacketWav(n)
  PROVE  Kept'
<1> DEFINE s  == input.samples
           ch == input.channels
           c  == Contents(file)
<1>1. /\ Types /\ Held /\ Filed /\ Accounted /\ Totals /\ Headed
      /\ Fed(n) /\ WriteOut(Piece(number, Packet(n)), "idle")
      /\ Is("wav") /\ pc = "idle" /\ fed < Len(s) /\ UNCHANGED <<input, header, buffer>>
      /\ number' = number + Len(Packet(n)) \div ch
      /\ total' = IF Written THEN (total + 2 * Len(Packet(n))) % Wrap ELSE total
  BY DEF Kept, WritePacketWav, Fed
<1>2. /\ ch \in {1, 2} /\ ch \in Nat /\ s \in Seq(Samples) /\ Len(s) \in Nat
      /\ input \in Inputs /\ PerBlock \in Nat /\ Lost(input) = PerBlock
      /\ number \in Nat /\ total \in Nat /\ errors \in Nat /\ fed \in Nat
  BY <1>1, Known DEF Types, Lost, PerBlock, Is
<1>3. PICK m \in Nat \ {0}, d \in Nat \ {0}, u \in Nat :
           /\ d = m * ch /\ d \div ch = m /\ d <= PerBlock
           /\ fed' = u /\ u = fed + d /\ u <= Len(s) /\ u % ch = 0
           /\ Packet(n) = SubSeq(s, fed + 1, u) /\ Len(Packet(n)) = d
  BY <1>1, PacketIs
<1>4. m \in Nat \ {0}
  BY <1>3
<1>5. buffer = <<>> /\ buffer' = <<>> /\ Unit(input) = ch /\ number * ch = fed
  BY <1>1, <1>2 DEF Held, Taking, Unit, Is
<1>6. Open(input, file, number) /\ c \in Nat
  BY <1>1, <1>2, FileContents DEF Filed, Taking, Open
<1>7. Fits(input, number, m)
  <2>1. number * Unit(input) + m * ch <= Len(s)
    BY <1>2, <1>3, <1>5
  <2>2. input.container # "flac"
    BY <1>1 DEF Is
  <2> QED BY <1>2, <1>4, <2>1, <2>2, NextFits
<1>8. Piece(number, Packet(n)) = Made(input, number, m)
  BY <1>1, <1>3, <1>5 DEF Piece, Made, Part, Is
<1>9. \/ /\ Written /\ errors' = errors /\ pc' = "idle"
         /\ Contents(file') = c + m /\ Open(input, file', number + 1)
      \/ /\ ~ Written /\ errors' = errors + 1 /\ pc' = "idle"
         /\ Contents(file') = c /\ Open(input, file', number)
  BY <1>1, <1>6, <1>7, <1>8, WriteOutIs DEF Is
<1>10. number' = number + m /\ number' \in Nat /\ number' * ch = u
  <2>1. (number + m) * ch = number * ch + m * ch
    BY <1>2, <1>4, Distributes
  <2>2. number' = number + m
    BY <1>1, <1>3
  <2> QED BY <1>2, <1>3, <1>4, <1>5, <2>1, <2>2
<1>11. total' \in Nat
  <2> DEFINE l == Len(Packet(n))
  <2>1. l \in Nat /\ Wrap \in Nat \ {0}
    BY <1>3, MuxerAssumption
  <2>2. total' = IF Written THEN (total + 2 * l) % Wrap ELSE total
    BY <1>1
  <2> HIDE DEF l
  <2> QED BY <1>2, <2>1, <2>2
<1>12. Types'
  <2>1. errors' \in Nat /\ pc' = "idle"
    BY <1>2, <1>9
  <2>2. fed' \in 0 .. Len(s) /\ fed' % ch = 0
    BY <1>2, <1>3
  <2>3. input' = input /\ input \in Inputs
    BY <1>1, <1>2
  <2> QED BY <1>10, <1>11, <2>1, <2>2, <2>3 DEF Types, Is
<1>13. Held'
  <2>1. SubSeq(s, u + 1, u) = <<>>
    BY <1>2, <1>3, Beginnings
  <2>2. pc' = "idle" /\ Len(buffer') = 0 /\ ~ Is("flac")'
    BY <1>1, <1>5, <1>9 DEF Is
  <2>3. number' * Unit(input') + Len(buffer') = u
    <3>1. Unit(input') = ch /\ u + 0 = u
      BY <1>1, <1>3, <1>5
    <3> QED BY <1>10, <2>2, <3>1
  <2>4. buffer' = SubSeq(input'.samples, number' * Unit(input') + 1, u)
    BY <1>1, <1>5, <1>10, <2>1
  <2>5. buffer' \in Seq(Samples) /\ Len(buffer') <= Len(input'.samples)
    BY <1>1, <1>2, <1>5, <2>2
  <2>6. fed' = u
    BY <1>3
  <2> QED BY <1>5, <2>2, <2>3, <2>4, <2>5, <2>6 DEF Held, Taking
<1>14. Filed'
  <2>1. Open(input, file', number')
    BY <1>2, <1>4, <1>9, <1>10, OpenRises
  <2>2. Shut(input, file', number')
    BY <1>2, <1>10, <2>1, OpenShut
  <2> QED BY <1>1, <2>1, <2>2 DEF Filed
<1>15. Accounted'
  <2>1. c * ch + 0 + errors * PerBlock >= fed
    BY <1>1, <1>2, <1>5 DEF Accounted
  <2>2. u \in Nat /\ m \in Nat /\ ch \in Nat
    BY <1>2, <1>3
  <2>3. /\ 0 + m * ch >= 0 + (u - fed)
        /\ 0 + PerBlock >= 0 + (u - fed)
    <3>1. 0 + d >= 0 + (u - fed) /\ 0 + PerBlock >= 0 + (u - fed)
      <4> HIDE DEF ch
      <4> QED BY <1>2, <1>3
    <3> QED BY <1>3, <3>1
  <2>4. /\ (c + m) * ch + 0 + errors * PerBlock >= u
        /\ c * ch + 0 + (errors + 1) * PerBlock >= u
    <3> HIDE DEF c, ch
    <3> QED BY <1>2, <1>6, <2>1, <2>2, <2>3, StillAccounted
  <2>5. Contents(file') * ch + 0 + errors' * PerBlock >= u
    BY <1>9, <2>4
  <2>6. Lost(input') = PerBlock /\ Len(buffer') = 0 /\ fed' = u /\ input' = input
    BY <1>1, <1>2, <1>3, <1>5
  <2> QED BY <2>5, <2>6 DEF Accounted
<1>16. Totals'
  <2>1. total = (2 * (c * ch)) % Wrap
    BY <1>1 DEF Totals
  <2>2. CASE Written
    <3> DEFINE x == 2 * (c * ch)
               y == 2 * (m * ch)
    <3>1. x \in Nat /\ y \in Nat /\ Wrap \in Nat \ {0} /\ 2 * ((c + m) * ch) = x + y
      <4>1. /\ (c + m) * ch = c * ch + m * ch
            /\ c * ch \in Nat /\ m * ch \in Nat
        BY SMTT(30), <1>2, <1>4, <1>6, Distributes
      <4>2. Wrap \in Nat \ {0}
        BY MuxerAssumption
      <4> QED BY <4>1, <4>2
    <3>2. total' = ((x % Wrap) + y) % Wrap
      BY <1>1, <1>3, <2>1, <2>2
    <3> HIDE DEF x, y
    <3>3. total' = (x + y) % Wrap
      BY <3>1, <3>2, ModAdd
    <3> QED BY <1>1, <1>9, <2>2, <3>1, <3>3 DEF Totals, Is
  <2>3. CASE ~ Written
    BY <1>1, <1>9, <2>1, <2>3 DEF Totals, Is
  <2> QED BY <2>2, <2>3
<1>17. Headed'
  BY <1>1, <1>9, HeaderStays
<1> QED BY <1>12, <1>13, <1>14, <1>15, <1>16, <1>17 DEF Kept

\* A stretch of samples and the next one; and a stretch of a stretch.
LEMMA Glued ==
  ASSUME NEW X, NEW s \in Seq(X), NEW a \in Nat, NEW b \in Nat, NEW c \in Nat,
         a <= b, b <= c, c <= Len(s)
  PROVE  /\ SubSeq(s, a + 1, b) \o SubSeq(s, b + 1, c) = SubSeq(s, a + 1, c)
         /\ SubSeq(s, a + 1, c) \in Seq(X) /\ Len(SubSeq(s, a + 1, c)) = c - a
OBVIOUS

\* A stretch of a stretch.
LEMMA CutOut ==
  ASSUME NEW X, NEW s \in Seq(X), NEW a \in Nat, NEW b \in Nat, NEW c \in Nat, NEW d \in Nat,
         a <= b, b <= Len(s), c <= d, d <= b - a
  PROVE  /\ SubSeq(SubSeq(s, a + 1, b), c + 1, d) = SubSeq(s, a + c + 1, a + d)
         /\ SubSeq(s, a + c + 1, a + d) \in Seq(X)
         /\ Len(SubSeq(s, a + c + 1, a + d)) = d - c
OBVIOUS

\* What a container that is not WAV holds when it was given a packet.
LEMMA HeldIs ==
  ASSUME Types, Held, pc = "idle", NEW p, NEW u \in Nat, fed <= u, u <= Len(input.samples),
         p = SubSeq(input.samples, fed + 1, u)
  PROVE  /\ buffer \o p = SubSeq(input.samples, number * Unit(input) + 1, u)
         /\ buffer \o p \in Seq(Samples)
         /\ number * Unit(input) + Len(buffer \o p) = u
<1> DEFINE s == input.samples
           a == number * Unit(input)
<1>1. s \in Seq(Samples) /\ a \in Nat /\ fed \in Nat /\ Len(s) \in Nat
  BY Known DEF Types
<1>2. a + Len(buffer) = fed /\ buffer = SubSeq(s, a + 1, fed) /\ Len(buffer) \in Nat
  BY DEF Held, Taking
<1>3. fed <= u /\ u <= Len(s) /\ p = SubSeq(s, fed + 1, u)
  OBVIOUS
<1> HIDE DEF s, a
<1>4. a <= fed
  BY <1>1, <1>2
<1>5. /\ SubSeq(s, a + 1, fed) \o SubSeq(s, fed + 1, u) = SubSeq(s, a + 1, u)
      /\ SubSeq(s, a + 1, u) \in Seq(Samples) /\ Len(SubSeq(s, a + 1, u)) = u - a
  BY <1>1, <1>3, <1>4, Glued
<1>6. a + (u - a) = u
  BY <1>1
<1> QED BY <1>2, <1>3, <1>5, <1>6 DEF s, a

\* A packet is given to LAME, which gives what it likes.
LEMMA Mp3Steps ==
  ASSUME Kept, NEW n \in Packets, WritePacketMp3(n)
  PROVE  Kept'
<1> DEFINE s  == input.samples
           ch == input.channels
           c  == Contents(file)
           held == buffer \o Packet(n)
           a == number * ch
           b == Len(buffer)
<1>1. /\ Types /\ Held /\ Filed /\ Accounted /\ Totals /\ Headed
      /\ Fed(n) /\ Is("mp3") /\ pc = "idle" /\ fed < Len(s)
      /\ UNCHANGED <<input, header, total>>
  BY DEF Kept, WritePacketMp3, Fed
<1>2. /\ ch \in {1, 2} /\ ch \in Nat /\ s \in Seq(Samples) /\ Len(s) \in Nat
      /\ input \in Inputs /\ Lost(input) = Len(s) /\ Unit(input) = ch
      /\ number \in Nat /\ total \in Nat /\ errors \in Nat /\ fed \in Nat
  BY <1>1, Known DEF Types, Lost, Unit, Is
<1>3. PICK k \in 0 .. Len(held) \div ch :
        /\ IF k = 0 THEN UNCHANGED <<file, stray, errors, pc>>
           ELSE WriteOut(Piece(number, SubSeq(held, 1, k * ch)), "idle")
        /\ buffer' = SubSeq(held, k * ch + 1, Len(held))
        /\ number' = number + k
  BY DEF WritePacketMp3
<1>4. PICK m \in Nat \ {0}, d \in Nat \ {0}, u \in Nat :
           /\ d = m * ch /\ d \div ch = m /\ d <= PerBlock
           /\ fed' = u /\ u = fed + d /\ u <= Len(s) /\ u % ch = 0
           /\ Packet(n) = SubSeq(s, fed + 1, u) /\ Len(Packet(n)) = d
  BY <1>1, PacketIs
<1>5. /\ held = SubSeq(s, a + 1, u) /\ held \in Seq(Samples)
      /\ a + Len(held) = u /\ Len(held) \in Nat
      /\ a + b = fed /\ b \in Nat /\ a \in Nat
  <2>1. /\ held = SubSeq(s, a + 1, u) /\ held \in Seq(Samples)
        /\ a + Len(held) = u
    <3>1. fed <= u
      BY <1>2, <1>4
    <3>2. u <= Len(input.samples) /\ Packet(n) = SubSeq(input.samples, fed + 1, u)
      BY <1>4
    <3>3. /\ buffer \o Packet(n) = SubSeq(input.samples, number * Unit(input) + 1, u)
          /\ buffer \o Packet(n) \in Seq(Samples)
          /\ number * Unit(input) + Len(buffer \o Packet(n)) = u
      <4> HIDE DEF s, a, held, ch
      <4> QED BY <1>1, <3>1, <3>2, HeldIs
    <3> QED BY <1>2, <3>3
  <2>2. a + b = fed /\ b \in Nat
    BY <1>1, <1>2 DEF Held, Taking
  <2>3. a \in Nat
    BY <1>2, Distributes
  <2>4. Len(held) \in Nat
    <3> HIDE DEF held
    <3> QED BY <2>1
  <2> QED BY <2>1, <2>2, <2>3, <2>4
<1> DEFINE q == k * ch
<1>6. k \in Nat /\ q \in Nat /\ q <= Len(held) /\ number' = number + k /\ number' * ch = a + q
  <2> DEFINE h == Len(held)
  <2>1. k \in 0 .. h \div ch /\ h \in Nat
    BY <1>3, <1>5
  <2> HIDE DEF h
  <2>2. k \in Nat /\ q \in Nat /\ q <= h
    <3>1. CASE ch = 1
      BY <2>1, <3>1
    <3>2. CASE ch = 2
      BY <2>1, <3>2
    <3> QED BY <1>2, <3>1, <3>2
  <2>3. (number + k) * ch = a + q
    BY <1>2, <2>2, Distributes
  <2> QED BY <1>3, <2>2, <2>3 DEF h
<1> DEFINE h == Len(held)
           l == Len(s)
<1>7. /\ a \in Nat /\ b \in Nat /\ q \in Nat /\ h \in Nat /\ l \in Nat /\ fed \in Nat
      /\ a + h = u /\ a + b = fed /\ u = fed + d /\ u <= l /\ q <= h
  BY <1>2, <1>4, <1>5, <1>6
<1> HIDE DEF held, a, b, c, q, h, l
<1>7a. a <= u /\ h = u - a /\ h = b + d /\ h <= l
  BY <1>7
<1> HIDE DEF s
<1>8. /\ SubSeq(held, 1, q) = SubSeq(s, a + 1, a + q)
      /\ Len(SubSeq(held, 1, q)) = q
  <2>1. /\ SubSeq(SubSeq(s, a + 1, u), 0 + 1, q) = SubSeq(s, a + 0 + 1, a + q)
        /\ Len(SubSeq(s, a + 0 + 1, a + q)) = q - 0
    <3>1. s \in Seq(Samples) /\ u <= Len(s) /\ 0 <= q /\ q <= u - a
      BY <1>2, <1>7, <1>7a DEF l
    <3> QED BY <1>7, <1>7a, <3>1, CutOut
  <2>2. a + 0 = a /\ 0 + 1 = 1 /\ q - 0 = q
    BY <1>5, <1>6
  <2> QED BY <1>5, <2>1, <2>2
<1>9. /\ buffer' = SubSeq(s, a + q + 1, u) /\ buffer' \in Seq(Samples)
      /\ Len(buffer') = h - q
  <2>1. /\ SubSeq(SubSeq(s, a + 1, u), q + 1, h) = SubSeq(s, a + q + 1, a + h)
        /\ SubSeq(s, a + q + 1, a + h) \in Seq(Samples)
        /\ Len(SubSeq(s, a + q + 1, a + h)) = h - q
    <3>1. s \in Seq(Samples) /\ u <= Len(s) /\ h <= u - a
      BY <1>2, <1>7, <1>7a DEF l
    <3> QED BY <1>7, <1>7a, <3>1, CutOut
  <2>2. buffer' = SubSeq(SubSeq(s, a + 1, u), q + 1, h)
    BY <1>3, <1>5 DEF q, h
  <2> QED BY <1>7, <2>1, <2>2
<1>10. Open(input, file, number) /\ c \in Nat
  BY <1>1, <1>2, FileContents DEF Filed, Taking, Open, c
<1>11. \/ /\ errors' = errors /\ pc' = "idle"
          /\ Contents(file') = c + k /\ Open(input, file', number')
       \/ /\ errors' = errors + 1 /\ pc' = "idle"
          /\ Contents(file') = c /\ Open(input, file', number')
  <2>1. CASE k = 0
    <3>1. file' = file /\ errors' = errors /\ pc' = "idle" /\ number' = number
      BY <1>1, <1>2, <1>3, <1>6, <2>1
    <3>2. c + k = c
      BY <1>10, <2>1
    <3> QED BY <1>10, <3>1, <3>2 DEF c
  <2>2. CASE k # 0
    <3>1. k \in Nat \ {0} /\ input.container # "flac" /\ number' = number + k
      BY <1>1, <1>6, <2>2 DEF Is
    <3>2. number * Unit(input) + k * ch <= Len(s)
      <4>1. a + q <= l
        BY <1>7
      <4> QED BY <1>2, <4>1 DEF a, q, l
    <3>3. Fits(input, number, k)
      BY <1>2, <3>1, <3>2, NextFits DEF s
    <3>4. Piece(number, SubSeq(held, 1, k * ch)) = Made(input, number, k)
      <4>1. q \div ch = k
        <5>1. CASE ch = 1
          BY <1>6, <5>1 DEF q
        <5>2. CASE ch = 2
          BY <1>6, <5>2 DEF q
        <5> QED BY <1>2, <5>1, <5>2
      <4>2. Part(input, number, k) = SubSeq(s, a + 1, a + q)
        BY <1>2 DEF Part, a, q, s
      <4> QED BY <1>8, <3>1, <4>1, <4>2 DEF Piece, Made, q
    <3>5. WriteOut(Made(input, number, k), "idle")
      BY <1>3, <2>2, <3>4
    <3>6. \/ /\ errors' = errors /\ pc' = "idle"
             /\ Contents(file') = c + k /\ Open(input, file', number + 1)
          \/ /\ errors' = errors + 1 /\ pc' = "idle"
             /\ Contents(file') = c /\ Open(input, file', number)
      BY <1>1, <1>10, <3>1, <3>3, <3>5, WriteOutIs DEF Is, c
    <3>7. number + 1 \in Nat /\ number + 1 <= number' /\ number <= number' /\ number' \in Nat
      BY <1>2, <3>1
    <3> QED BY <1>2, <3>6, <3>7, OpenRises
  <2> QED BY <2>1, <2>2
<1>12. Types'
  <2>1. errors' \in Nat /\ pc' = "idle" /\ number' \in Nat /\ total' \in Nat
    BY <1>1, <1>2, <1>6, <1>11
  <2>2. fed' \in 0 .. Len(s) /\ fed' % ch = 0
    BY <1>2, <1>4
  <2>3. input' = input /\ input \in Inputs
    BY <1>1, <1>2
  <2> QED BY <2>1, <2>2, <2>3 DEF Types, Is, s
<1>13. Held'
  <2>1. pc' = "idle" /\ ~ Is("flac")' /\ ~ Is("wav")'
    BY <1>1, <1>11 DEF Is
  <2>2. number' * Unit(input') = a + q
    BY <1>1, <1>2, <1>6
  <2>3. a + q + (h - q) = u /\ h - q <= l
    BY <1>7, <1>7a
  <2>4. /\ number' * Unit(input') + Len(buffer') = fed'
        /\ buffer' = SubSeq(input'.samples, number' * Unit(input') + 1, fed')
        /\ Len(buffer') <= Len(input'.samples)
    BY <1>1, <1>4, <1>9, <2>2, <2>3 DEF l, s
  <2> QED BY <1>9, <2>1, <2>4 DEF Held, Taking
<1>14. Filed'
  <2>1. Open(input, file', number') /\ number' \in Nat
    BY <1>2, <1>6, <1>11
  <2>2. Shut(input, file', number')
    BY <1>2, <2>1, OpenShut
  <2> QED BY <1>1, <2>1, <2>2 DEF Filed
<1>15. Accounted'
  <2>1. c * ch + b + errors * l >= fed
    BY <1>1, <1>2 DEF Accounted, b, c, l
  <2> DEFINE bb == h - q
  <2>2. /\ bb \in Nat /\ bb + q >= b + (u - fed) /\ bb + l >= b + (u - fed)
    BY <1>7, <1>7a
  <2>3. bb + k * ch >= b + (u - fed)
    BY <2>2 DEF q
  <2> HIDE DEF bb, ch
  <2>4. /\ (c + k) * ch + bb + errors * l >= u
        /\ c * ch + bb + (errors + 1) * l >= u
    BY <1>2, <1>6, <1>7, <1>10, <2>1, <2>2, <2>3, StillAccounted
  <2>5. Contents(file') * ch + bb + errors' * l >= u
    BY <1>11, <2>4
  <2>6. Lost(input') = l /\ Len(buffer') = bb /\ fed' = u /\ input' = input
    BY <1>1, <1>2, <1>4, <1>9 DEF l, bb
  <2> QED BY <2>5, <2>6 DEF Accounted, ch
<1>16. Totals'
  BY <1>1 DEF Totals, Is
<1>17. Headed'
  BY <1>1, <1>11, HeaderStays
<1> QED BY <1>12, <1>13, <1>14, <1>15, <1>16, <1>17 DEF Kept

\* A packet is given to the FLAC muxer.
LEMMA FlacSteps ==
  ASSUME Kept, NEW n \in Packets, WritePacketFlac(n)
  PROVE  Kept'
<1> DEFINE s  == input.samples
           ch == input.channels
           c  == Contents(file)
           a  == number * Unit(input)
           b  == Len(buffer)
<1>1. /\ Types /\ Held /\ Filed /\ Accounted /\ Totals /\ Headed
      /\ Fed(n) /\ Is("flac") /\ pc = "idle" /\ pc' = "flush"
      /\ buffer' = buffer \o Packet(n)
      /\ UNCHANGED <<input, header, number, total, file, errors>>
  BY DEF Kept, WritePacketFlac, Fed
<1>2. /\ ch \in {1, 2} /\ ch \in Nat /\ s \in Seq(Samples) /\ Len(s) \in Nat
      /\ input \in Inputs /\ Lost(input) = PerBlock /\ PerBlock \in Nat
      /\ number \in Nat /\ total \in Nat /\ errors \in Nat /\ fed \in Nat
  BY <1>1, Known DEF Types, Lost, PerBlock, Is
<1>3. PICK m \in Nat \ {0}, d \in Nat \ {0}, u \in Nat :
           /\ d = m * ch /\ d \div ch = m /\ d <= PerBlock
           /\ fed' = u /\ u = fed + d /\ u <= Len(s) /\ u % ch = 0
           /\ Packet(n) = SubSeq(s, fed + 1, u) /\ Len(Packet(n)) = d
  BY <1>1, PacketIs
<1>4. /\ buffer' = SubSeq(s, a + 1, u) /\ buffer' \in Seq(Samples)
      /\ a + Len(buffer') = u
  <2>1. fed <= u
    BY <1>2, <1>3
  <2>2. u <= Len(input.samples) /\ Packet(n) = SubSeq(input.samples, fed + 1, u)
    BY <1>3
  <2>3. /\ buffer \o Packet(n) = SubSeq(input.samples, number * Unit(input) + 1, u)
        /\ buffer \o Packet(n) \in Seq(Samples)
        /\ number * Unit(input) + Len(buffer \o Packet(n)) = u
    <3> HIDE DEF s, a, b, ch
    <3> QED BY <1>1, <2>1, <2>2, HeldIs
  <2> QED BY <1>1, <2>3
<1>5. a + b = fed /\ b < PerBlock /\ b \in Nat /\ a \in Int
  <2>1. a + b = fed /\ b < PerBlock /\ b \in Nat
    BY <1>1 DEF Held, Taking, Is
  <2>2. a \in Int
    BY <1>2, Known, <1>1
  <2> QED BY <2>1, <2>2
<1> HIDE DEF a, b, c
<1>6. PICK bb \in Nat : Len(buffer') = bb
  BY <1>4
<1>7. a + bb = u
  BY <1>4, <1>6
<1>8. bb = b + d /\ bb < 2 * PerBlock /\ bb >= b + (u - fed)
  <2>1. u = fed + d /\ d <= PerBlock
    BY <1>3
  <2> QED BY <1>2, <1>5, <1>7, <2>1
<1>9. Types'
  <2>1. fed' \in 0 .. Len(s) /\ fed' % ch = 0
    BY <1>2, <1>3
  <2> QED BY <1>1, <1>2, <2>1 DEF Types, Is
<1>10. Held'
  <2>1. PerBlock' = PerBlock /\ Unit(input') = Unit(input) /\ Is("flac")' /\ ~ Is("wav")'
    BY <1>1 DEF PerBlock, Is
  <2>2. bb <= 2 * PerBlock
    BY <1>2, <1>8
  <2>3. /\ number' * Unit(input') + Len(buffer') = fed'
        /\ buffer' = SubSeq(input'.samples, number' * Unit(input') + 1, fed')
    BY <1>1, <1>3, <1>4, <2>1 DEF a
  <2> QED BY <1>1, <1>4, <1>6, <1>8, <2>1, <2>2, <2>3 DEF Held, Taking
<1>11. Filed'
  BY <1>1 DEF Filed, Taking
<1>12. Accounted'
  <2>1. c * ch + b + errors * PerBlock >= fed /\ c \in Nat
    BY <1>1, <1>2, FileContents DEF Accounted, Filed, Taking, Open, b, c
  <2>2. c * ch + bb + errors * PerBlock >= u
    <3> HIDE DEF ch
    <3> QED BY <1>2, <1>5, <1>8, <2>1, StillAccounted
  <2>3. /\ Lost(input') = PerBlock /\ fed' = u /\ input' = input
        /\ errors' = errors /\ Contents(file') = c
    BY <1>1, <1>2, <1>3 DEF c
  <2> QED BY <1>6, <2>2, <2>3 DEF Accounted
<1>13. Totals'
  BY <1>1 DEF Totals, Taking, Is
<1>14. Headed'
  BY <1>1, HeaderStays
<1> QED BY <1>9, <1>10, <1>11, <1>12, <1>13, <1>14 DEF Kept

\* A block leaves the buffer, and its frame is written or not.
LEMMA FlushSteps ==
  ASSUME Kept, FlushBlock
  PROVE  Kept'
<1> DEFINE s  == input.samples
           ch == input.channels
           c  == Contents(file)
           a  == number * Unit(input)
           b  == Len(buffer)
<1>1. /\ Types /\ Held /\ Filed /\ Accounted /\ Totals /\ Headed
      /\ pc = "flush" /\ Is("flac") /\ b >= PerBlock
      /\ WriteOut(Frame(Block), "flush") /\ buffer' = Rest
      /\ number' = number + 1 /\ total' = total + BlockSize
      /\ UNCHANGED <<input, fed, header>>
  BY DEF Kept, FlushBlock, Types
<1>2. /\ ch \in {1, 2} /\ ch \in Nat /\ s \in Seq(Samples) /\ Len(s) \in Nat
      /\ input \in Inputs /\ Lost(input) = PerBlock /\ PerBlock \in Nat \ {0}
      /\ BlockSize \in Nat \ {0} /\ Unit(input) = PerBlock /\ Unit(input) \in Nat
      /\ number \in Nat /\ total \in Nat /\ errors \in Nat /\ fed \in Nat /\ fed <= Len(s)
  BY <1>1, Known, MuxerAssumption DEF Types, Lost, PerBlock, Is, Unit
<1>2a. PerBlock = BlockSize * ch
  BY DEF PerBlock
<1>3. /\ a + b = fed /\ b < 2 * PerBlock /\ b \in Nat /\ a \in Nat
      /\ buffer = SubSeq(s, a + 1, fed)
  <2>1. a + b = fed /\ b < 2 * PerBlock /\ b \in Nat /\ buffer = SubSeq(s, a + 1, fed)
    BY <1>1 DEF Held, Taking, Is
  <2>2. a \in Nat
    BY <1>2
  <2> QED BY <2>1, <2>2
<1>4. number' * Unit(input) = a + PerBlock /\ number + 1 \in Nat
  <2>1. (number + 1) * Unit(input) = number * Unit(input) + 1 * Unit(input)
    BY <1>2, Distributes
  <2>2. 1 * Unit(input) = PerBlock
    BY <1>2
  <2> QED BY <1>1, <1>2, <2>1, <2>2
<1> HIDE DEF s, a, b, c
<1>5. a + PerBlock <= fed /\ b = fed - a /\ a <= fed /\ PerBlock <= b /\ b - PerBlock < PerBlock
      /\ b - PerBlock \in Nat
  BY <1>1, <1>2, <1>3
<1>6. Block = SubSeq(s, a + 1, a + PerBlock)
  <2>1. SubSeq(SubSeq(s, a + 1, fed), 0 + 1, PerBlock) = SubSeq(s, a + 0 + 1, a + PerBlock)
    <3>1. 0 <= PerBlock /\ PerBlock <= fed - a /\ PerBlock \in Nat /\ fed <= Len(s)
      BY <1>2, <1>5
    <3> QED BY <1>2, <1>3, <1>5, <3>1, CutOut
  <2>2. a + 0 = a /\ 0 + 1 = 1
    BY <1>3
  <2> QED BY <1>3, <2>1, <2>2 DEF Block
<1>7. /\ buffer' = SubSeq(s, a + PerBlock + 1, fed) /\ buffer' \in Seq(Samples)
      /\ Len(buffer') = b - PerBlock
  <2>1. /\ SubSeq(SubSeq(s, a + 1, fed), PerBlock + 1, b) = SubSeq(s, a + PerBlock + 1, a + b)
        /\ SubSeq(s, a + PerBlock + 1, a + b) \in Seq(Samples)
        /\ Len(SubSeq(s, a + PerBlock + 1, a + b)) = b - PerBlock
    <3>1. b <= fed - a /\ PerBlock \in Nat
      BY <1>2, <1>3, <1>5
    <3> QED BY <1>2, <1>3, <1>5, <3>1, CutOut
  <2> QED BY <1>1, <1>3, <2>1 DEF Rest, b
<1>8. Open(input, file, number) /\ c \in Nat
  BY <1>1, <1>2, FileContents DEF Filed, Taking, Open, c
<1>9. Fits(input, number, BlockSize)
  <2>1. number * Unit(input) + BlockSize * ch <= Len(s)
    <3>1. a + PerBlock <= Len(s)
      BY <1>2, <1>3, <1>5
    <3> QED BY <1>2, <1>2a, <3>1 DEF a
  <2>2. BlockSize <= BlockSize
    BY <1>2
  <2> QED BY <1>2, <2>1, <2>2, NextFits DEF s
<1>10. Frame(Block) = Made(input, number, BlockSize)
  <2>1. Part(input, number, BlockSize) = Block
    BY <1>2, <1>2a, <1>6 DEF Part, a, s
  <2> QED BY <1>1, <2>1 DEF Frame, Made, Is
<1>11. \/ /\ errors' = errors /\ pc' = "flush"
          /\ Contents(file') = c + BlockSize /\ Open(input, file', number + 1)
       \/ /\ errors' = errors + 1 /\ pc' = "idle"
          /\ Contents(file') = c /\ Open(input, file', number + 1)
  <2>1. \/ /\ errors' = errors /\ pc' = "flush"
           /\ Contents(file') = c + BlockSize /\ Open(input, file', number + 1)
        \/ /\ errors' = errors + 1 /\ pc' = "idle"
           /\ Contents(file') = c /\ Open(input, file', number)
    <3> HIDE DEF ch
    <3> QED BY <1>1, <1>8, <1>9, <1>10, WriteOutIs DEF c
  <2>2. number <= number + 1
    BY <1>2
  <2> QED BY <1>2, <1>4, <2>1, <2>2, OpenRises
<1>12. Types'
  <2>1. errors' \in Nat /\ pc' \in {"idle", "flush"} /\ number' \in Nat /\ total' \in Nat
    BY <1>1, <1>2, <1>11
  <2> QED BY <1>1, <2>1 DEF Types, Is
<1>13. Held'
  <2>1. /\ PerBlock' = PerBlock /\ Unit(input') = Unit(input) /\ Is("flac")' /\ ~ Is("wav")'
        /\ pc' \in {"idle", "flush"}
    BY <1>1, <1>11 DEF PerBlock, Is
  <2> DEFINE bb == b - PerBlock
  <2>2. bb <= 2 * PerBlock /\ bb < 2 * PerBlock /\ bb < PerBlock /\ (a + PerBlock) + bb = fed
    BY <1>2, <1>3, <1>5
  <2>3. Len(buffer') = bb
    BY <1>7
  <2> HIDE DEF bb
  <2>4. /\ number' * Unit(input') + Len(buffer') = fed'
        /\ buffer' = SubSeq(input'.samples, number' * Unit(input') + 1, fed')
    BY <1>1, <1>4, <1>7, <2>1, <2>2, <2>3 DEF s
  <2> QED BY <1>7, <2>1, <2>2, <2>3, <2>4 DEF Held, Taking
<1>14. Filed'
  <2>1. Open(input, file', number') /\ Shut(input, file', number')
    BY <1>1, <1>2, <1>4, <1>11, OpenShut
  <2> QED BY <1>1, <2>1 DEF Filed
<1>15. Accounted'
  <2>1. c * ch + b + errors * PerBlock >= fed
    BY <1>1, <1>2 DEF Accounted, b, c
  <2> DEFINE bb == b - PerBlock
  <2>2. bb \in Nat /\ bb + PerBlock >= b + (fed - fed)
    BY <1>2, <1>3, <1>5
  <2>3. bb + BlockSize * ch >= b + (fed - fed)
    BY <1>2a, <2>2
  <2>4. Len(buffer') = bb
    BY <1>7
  <2> HIDE DEF bb, ch
  <2>5. /\ (c + BlockSize) * ch + bb + errors * PerBlock >= fed
        /\ c * ch + bb + (errors + 1) * PerBlock >= fed
    BY <1>2, <1>3, <1>8, <2>1, <2>2, <2>3, StillAccounted
  <2>6. Contents(file') * ch + bb + errors' * PerBlock >= fed
    BY <1>11, <2>5
  <2>7. Lost(input') = PerBlock /\ fed' = fed /\ input' = input
    BY <1>1, <1>2
  <2> QED BY <2>4, <2>6, <2>7 DEF Accounted, ch
<1>16. Totals'
  <2>1. (number + 1) * BlockSize = number * BlockSize + 1 * BlockSize
    BY <1>2, Distributes
  <2>2. 1 * BlockSize = BlockSize /\ total = number * BlockSize
    BY <1>1, <1>2 DEF Totals, Taking
  <2>3. total' = number' * BlockSize
    BY <1>1, <2>1, <2>2
  <2> QED BY <1>1, <1>11, <2>3 DEF Totals, Is
<1>17. Headed'
  BY <1>1, <1>11, HeaderStays
<1> QED BY <1>12, <1>13, <1>14, <1>15, <1>16, <1>17 DEF Kept

\* What is left when the packets end is one more piece.
LEMMA TailFits ==
  ASSUME Types, Held, pc = "tail"
  PROVE  \E n \in Nat \ {0} :
           /\ Fits(input, number, n) /\ Len(buffer) = n * input.channels
           /\ Len(buffer) \div input.channels = n
           /\ buffer = Part(input, number, n)
           /\ number * Unit(input) + n * input.channels = fed
<1> DEFINE s  == input.samples
           ch == input.channels
           a  == number * Unit(input)
           b  == Len(buffer)
<1>1. /\ ch \in {1, 2} /\ Len(s) \in Nat /\ input \in Inputs /\ number \in Nat
      /\ fed \in Nat /\ fed <= Len(s) /\ fed % ch = 0
      /\ BlockSize \in Nat \ {0} /\ PerBlock = BlockSize * ch /\ Unit(input) \in Nat
  BY Known, MuxerAssumption DEF Types, PerBlock
<1>2. /\ a + b = fed /\ b \in Nat \ {0} /\ a \in Nat /\ buffer = SubSeq(s, a + 1, fed)
      /\ Is("flac") => b < PerBlock
  <2>1. /\ a + b = fed /\ buffer # <<>> /\ buffer \in Seq(Samples)
        /\ buffer = SubSeq(s, a + 1, fed)
        /\ Is("flac") => b < PerBlock
    BY DEF Held, Taking
  <2>2. b \in Nat \ {0}
    BY <2>1
  <2>3. a \in Nat
    BY <1>1
  <2> QED BY <2>1, <2>2, <2>3
<1>3. \E z \in Nat : a = z * ch
  <2>1. CASE Is("flac")
    <3>1. a = number * (BlockSize * ch)
      BY <2>1 DEF Unit, Is
    <3>2. number * (BlockSize * ch) = (number * BlockSize) * ch /\ number * BlockSize \in Nat
      <4> DEFINE x == number
      <4>1. x \in Nat /\ BlockSize \in Nat /\ ch \in Nat
        BY <1>1
      <4> HIDE DEF x, ch
      <4> QED BY <4>1 DEF x
    <3> QED BY <3>1, <3>2
  <2>2. CASE ~ Is("flac")
    BY <1>1, <2>2 DEF Unit, Is
  <2> QED BY <2>1, <2>2
<1>4. PICK z \in Nat : a = z * ch
  BY <1>3
<1> HIDE DEF s, a, b
<1>5. \E n \in Nat \ {0} : b = n * ch /\ b \div ch = n
  <2>1. CASE ch = 1
    BY <1>2, <2>1
  <2>2. CASE ch = 2
    <3>1. b % 2 = 0
      BY <1>1, <1>2, <1>4, <2>2
    <3> DEFINE n == b \div 2
    <3>2. n \in Nat \ {0} /\ b = n * 2
      BY <1>2, <3>1
    <3> QED BY <2>2, <3>2
  <2> QED BY <1>1, <2>1, <2>2
<1>6. PICK n \in Nat \ {0} : b = n * ch /\ b \div ch = n
  BY <1>5
<1>7. ASSUME Is("flac") PROVE n <= BlockSize
  <2>1. n * ch < BlockSize * ch
    BY <1>1, <1>2, <1>6, <1>7
  <2>2. CASE ch = 1
    BY <1>1, <2>1, <2>2
  <2>3. CASE ch = 2
    BY <1>1, <2>1, <2>3
  <2> QED BY <1>1, <2>2, <2>3
<1>8. a + n * ch = fed
  BY <1>2, <1>6
<1>9. Fits(input, number, n)
  <2>1. number * Unit(input) + n * ch <= Len(s)
    BY <1>1, <1>8 DEF a
  <2> QED BY <1>1, <1>7, <2>1, NextFits DEF s, Is
<1>10. buffer = Part(input, number, n)
  BY <1>2, <1>8 DEF Part, a, s
<1> QED BY <1>6, <1>8, <1>9, <1>10 DEF a, b

\* The shorter block is written or not.
LEMMA TailFlacSteps ==
  ASSUME Kept, FinalizeTailFlac
  PROVE  Kept'
<1> DEFINE ch == input.channels
           c  == Contents(file)
           b  == Len(buffer)
<1>1. /\ Types /\ Held /\ Filed /\ Accounted /\ Totals /\ Headed
      /\ Is("flac") /\ pc = "tail" /\ buffer' = <<>>
      /\ WriteOut(Frame(buffer), "patch")
      /\ total' = total + b \div ch
      /\ UNCHANGED <<input, fed, number, header>>
  BY DEF Kept, FinalizeTailFlac
<1>2. /\ ch \in Nat /\ input \in Inputs /\ Lost(input) \in Nat /\ number \in Nat
      /\ total \in Nat /\ errors \in Nat /\ fed \in Nat /\ BlockSize \in Nat
      /\ b \in Nat
  BY <1>1, Known, MuxerAssumption DEF Types, Held
<1>3. PICK n \in Nat \ {0} :
        /\ Fits(input, number, n) /\ b = n * ch /\ b \div ch = n
        /\ buffer = Part(input, number, n)
        /\ number * Unit(input) + n * ch = fed
  BY <1>1, TailFits
<1>4. ~ Is("wav")
  BY <1>1 DEF Is
<1>5. Open(input, file, number) /\ c \in Nat
  BY <1>1, <1>2, FileContents DEF Filed, Taking, Open
<1>6. Frame(buffer) = Made(input, number, n)
  BY <1>1, <1>3 DEF Frame, Made, Is
<1>7. \/ /\ errors' = errors /\ pc' = "patch"
         /\ Contents(file') = c + n /\ Shut(input, file', number)
      \/ /\ errors' = errors + 1 /\ pc' = "broken"
         /\ Shut(input, file', number)
  <2>1. WriteOut(Made(input, number, n), "patch")
    BY <1>1, <1>6
  <2>2. \/ /\ errors' = errors /\ pc' = "patch"
           /\ Contents(file') = c + n /\ Shut(input, file', number)
        \/ /\ errors' = errors + 1 /\ pc' = "broken"
           /\ Open(input, file', number)
    <3> HIDE DEF ch, b
    <3> QED BY <1>1, <1>3, <1>5, <2>1, WriteOutIs
  <2> QED BY <1>2, <2>2, OpenShut
<1>8. total' \in Nat /\ total' * ch = fed
  <2>1. total = number * BlockSize /\ total' = total + n
    BY <1>1, <1>3 DEF Totals, Taking
  <2>2. (number * BlockSize + n) * ch = (number * BlockSize) * ch + n * ch
    BY <1>2, <1>3, <2>1, Distributes
  <2>3. (number * BlockSize) * ch = number * (BlockSize * ch)
    <3> DEFINE x == number
    <3>1. x \in Nat /\ BlockSize \in Nat /\ ch \in Nat
      BY <1>2
    <3> HIDE DEF x, ch
    <3> QED BY <3>1 DEF x
  <2>4. Unit(input) = BlockSize * ch
    BY <1>1 DEF Unit, Is
  <2>5. total' \in Nat
    <3>1. number * BlockSize \in Nat
      BY <1>2, Distributes
    <3> QED BY <1>3, <2>1, <3>1
  <2>6. total' * ch = (number * BlockSize + n) * ch
    BY <2>1
  <2>7. (number * BlockSize) * ch + n * ch = number * Unit(input) + n * ch
    BY <2>3, <2>4
  <2> QED BY <1>3, <2>2, <2>5, <2>6, <2>7, Zenon
<1>9. Types'
  <2>1. errors' \in Nat /\ pc' \in {"patch", "broken"}
    BY <1>2, <1>7
  <2> QED BY <1>1, <1>2, <1>8, <2>1 DEF Types, Is
<1>10. Held'
  <2>1. pc' \in {"patch", "broken"} /\ Len(buffer') = 0 /\ buffer' = <<>>
    BY <1>1, <1>7
  <2>2. 0 <= IF Is("flac") THEN 2 * PerBlock ELSE Len(input.samples)
    BY <1>1, Known
  <2>3. Is("flac")' = Is("flac") /\ PerBlock' = PerBlock /\ input' = input
    BY <1>1 DEF Is, PerBlock
  <2>4. buffer' \in Seq(Samples)
    BY <1>1
  <2> QED BY <2>1, <2>2, <2>3, <2>4 DEF Held, Taking
<1>11. Filed'
  BY <1>1, <1>7 DEF Filed, Taking
<1>12. Accounted'
  <2>1. CASE pc' = "broken"
    BY <2>1 DEF Accounted
  <2>2. CASE pc' # "broken"
    <3>1. c * ch + b + errors * Lost(input) >= fed
      BY <1>1 DEF Accounted
    <3>2. 0 + n * ch >= b + (fed - fed)
      <4>1. b >= b + (fed - fed) /\ 0 + b = b
        <5> HIDE DEF b
        <5> QED BY <1>2
      <4> QED BY <1>3, <4>1
    <3> HIDE DEF ch, b
    <3>3. (c + n) * ch + 0 + errors * Lost(input) >= fed
      BY <1>2, <1>3, <1>5, <3>1, <3>2, StillAccounted
    <3>4. Contents(file') = c + n /\ errors' = errors /\ Len(buffer') = 0
          /\ fed' = fed /\ input' = input
      BY <1>1, <1>7, <2>2
    <3> QED BY <3>3, <3>4 DEF Accounted, ch
  <2> QED BY <2>1, <2>2
<1>13. Totals'
  <2>1. pc' \in {"patch", "broken"} /\ fed' = fed /\ input' = input
    BY <1>1, <1>7
  <2> QED BY <1>4, <1>8, <2>1 DEF Totals, Taking, Is
<1>14. Headed'
  BY <1>1, <1>7, HeaderStays
<1> QED BY <1>9, <1>10, <1>11, <1>12, <1>13, <1>14 DEF Kept

\* LAME gives what it likes of what it held; the rest of it stays there.
LEMMA TailMp3Steps ==
  ASSUME Kept, FinalizeTailMp3
  PROVE  Kept'
<1> DEFINE s  == input.samples
           ch == input.channels
           c  == Contents(file)
           a  == number * ch
           b  == Len(buffer)
<1>1. /\ Types /\ Held /\ Filed /\ Accounted /\ Totals /\ Headed
      /\ Is("mp3") /\ pc = "tail" /\ UNCHANGED <<input, fed, number, total, header>>
  BY DEF Kept, FinalizeTailMp3
<1>2. /\ ch \in {1, 2} /\ ch \in Nat /\ s \in Seq(Samples) /\ Len(s) \in Nat
      /\ input \in Inputs /\ Lost(input) = Len(s) /\ Unit(input) = ch
      /\ number \in Nat /\ total \in Nat /\ errors \in Nat /\ fed \in Nat /\ fed <= Len(s)
  BY <1>1, Known DEF Types, Lost, Unit, Is
<1>3. PICK k \in 0 .. b \div ch :
        /\ IF k = 0 THEN pc' = "patch" /\ UNCHANGED <<file, stray, errors>>
           ELSE WriteOut(Piece(number, SubSeq(buffer, 1, k * ch)), "patch")
        /\ buffer' = SubSeq(buffer, k * ch + 1, b)
  BY DEF FinalizeTailMp3
<1>4. /\ buffer = SubSeq(s, a + 1, fed) /\ a + b = fed /\ b \in Nat /\ a \in Nat
      /\ b <= Len(s)
  <2>1. buffer = SubSeq(s, a + 1, fed) /\ a + b = fed /\ b \in Nat /\ b <= Len(s)
    BY SMTT(30), <1>1, <1>2 DEF Held, Taking, Is
  <2>2. a \in Nat
    BY <1>2, Distributes
  <2> QED BY <2>1, <2>2
<1> DEFINE q == k * ch
<1>5. k \in Nat /\ q \in Nat /\ q <= b
  <2> HIDE DEF b
  <2>1. CASE ch = 1
    BY <1>3, <1>4, <2>1
  <2>2. CASE ch = 2
    BY <1>3, <1>4, <2>2
  <2> QED BY <1>2, <2>1, <2>2
<1> HIDE DEF s, a, b, c, q
<1>6. /\ SubSeq(buffer, 1, q) = SubSeq(s, a + 1, a + q)
      /\ buffer' \in Seq(Samples) /\ Len(buffer') = b - q
  <2>1. 0 <= q /\ q <= fed - a /\ a <= fed /\ b <= fed - a /\ fed <= Len(s)
    BY <1>2, <1>4, <1>5 DEF s
  <2>2. SubSeq(SubSeq(s, a + 1, fed), 0 + 1, q) = SubSeq(s, a + 0 + 1, a + q)
    BY <1>2, <1>4, <1>5, <2>1, CutOut DEF s
  <2>3. /\ SubSeq(SubSeq(s, a + 1, fed), q + 1, b) = SubSeq(s, a + q + 1, a + b)
        /\ SubSeq(s, a + q + 1, a + b) \in Seq(Samples)
        /\ Len(SubSeq(s, a + q + 1, a + b)) = b - q
    BY <1>2, <1>4, <1>5, <2>1, CutOut DEF s
  <2>4. a + 0 = a /\ 0 + 1 = 1
    BY <1>4
  <2>5. buffer' = SubSeq(SubSeq(s, a + 1, fed), q + 1, b)
    BY <1>3, <1>4 DEF q, b
  <2> QED BY <1>4, <2>2, <2>3, <2>4, <2>5
<1>7. Open(input, file, number) /\ c \in Nat
  BY <1>1, <1>2, FileContents DEF Filed, Taking, Open, c
<1>8. \/ /\ errors' = errors /\ pc' = "patch"
         /\ Contents(file') = c + k /\ Shut(input, file', number)
      \/ /\ errors' = errors + 1 /\ pc' = "broken"
         /\ Shut(input, file', number)
  <2>1. CASE k = 0
    <3>1. file' = file /\ errors' = errors /\ pc' = "patch"
      BY <1>3, <2>1
    <3>2. c + k = c /\ Shut(input, file, number)
      BY <1>1, <1>7, <2>1 DEF Filed
    <3> QED BY <3>1, <3>2 DEF c
  <2>2. CASE k # 0
    <3>1. k \in Nat \ {0} /\ input.container # "flac"
      BY <1>1, <1>5, <2>2 DEF Is
    <3>2. number * Unit(input) + k * ch <= Len(s)
      <4>1. a + q <= Len(s)
        BY <1>2, <1>4, <1>5 DEF s
      <4> QED BY <1>2, <4>1 DEF a, q
    <3>3. Fits(input, number, k)
      BY <1>2, <3>1, <3>2, NextFits DEF s
    <3>4. Piece(number, SubSeq(buffer, 1, k * ch)) = Made(input, number, k)
      <4>1. q \div ch = k
        <5>1. CASE ch = 1
          BY <1>5, <5>1 DEF q
        <5>2. CASE ch = 2
          BY <1>5, <5>2 DEF q
        <5> QED BY <1>2, <5>1, <5>2
      <4>2. Part(input, number, k) = SubSeq(s, a + 1, a + q)
        BY <1>2 DEF Part, a, q, s
      <4>3. Len(SubSeq(buffer, 1, q)) = q
        BY <1>1, <1>4, <1>5 DEF Held, b
      <4> QED BY <1>6, <3>1, <4>1, <4>2, <4>3 DEF Piece, Made, q
    <3>5. WriteOut(Made(input, number, k), "patch")
      BY <1>3, <2>2, <3>4
    <3>6. \/ /\ errors' = errors /\ pc' = "patch"
             /\ Contents(file') = c + k /\ Shut(input, file', number)
          \/ /\ errors' = errors + 1 /\ pc' = "broken"
             /\ Open(input, file', number)
      BY <1>1, <1>7, <3>1, <3>3, <3>5, WriteOutIs DEF c
    <3> QED BY <1>2, <3>6, OpenShut
  <2> QED BY <2>1, <2>2
<1>9. Types'
  <2>1. errors' \in Nat /\ pc' \in {"patch", "broken"}
    BY <1>2, <1>8
  <2> QED BY <1>1, <1>2, <2>1 DEF Types, Is
<1>10. Held'
  <2>1. pc' \in {"patch", "broken"} /\ ~ Is("flac")' /\ ~ Is("wav")' /\ input' = input
    BY <1>1, <1>8 DEF Is
  <2>2. Len(buffer') <= Len(input'.samples)
    <3>1. b - q <= Len(s)
      BY <1>2, <1>4, <1>5 DEF s
    <3> QED BY <1>1, <1>6, <3>1 DEF s
  <2> QED BY <1>6, <2>1, <2>2 DEF Held, Taking
<1>11. Filed'
  BY <1>1, <1>8 DEF Filed, Taking
<1>12. Accounted'
  <2>1. CASE pc' = "broken"
    BY <2>1 DEF Accounted
  <2>2. CASE pc' # "broken"
    <3>1. c * ch + b + errors * Lost(input) >= fed
      BY <1>1 DEF Accounted, b, c
    <3> DEFINE bb == b - q
    <3>2. bb \in Nat /\ bb + q >= b + (fed - fed)
      BY <1>2, <1>4, <1>5
    <3>3. bb + k * ch >= b + (fed - fed)
      BY <3>2 DEF q
    <3>4. Lost(input) \in Nat
      BY <1>2
    <3> HIDE DEF bb, ch
    <3>5. (c + k) * ch + bb + errors * Lost(input) >= fed
      BY <1>2, <1>4, <1>5, <1>7, <3>1, <3>2, <3>3, <3>4, StillAccounted
    <3>6. Contents(file') = c + k /\ errors' = errors /\ Len(buffer') = bb
          /\ fed' = fed /\ input' = input
      BY <1>1, <1>6, <1>8, <2>2 DEF bb
    <3> QED BY <3>5, <3>6 DEF Accounted, ch
  <2> QED BY <2>1, <2>2
<1>13. Totals'
  BY <1>1 DEF Totals, Is
<1>14. Headed'
  BY <1>1, <1>8, HeaderStays
<1> QED BY <1>9, <1>10, <1>11, <1>12, <1>13, <1>14 DEF Kept

\* There is no block left.
LEMMA FlushEndSteps ==
  ASSUME Kept, FlushEnds
  PROVE  Kept'
<1>1. /\ Types /\ Held /\ Filed /\ Accounted /\ Totals /\ Headed
      /\ pc = "flush" /\ pc' = "idle" /\ Len(buffer) < PerBlock
      /\ UNCHANGED <<input, fed, buffer, number, total, file, header, errors>>
  BY DEF Kept, FlushEnds
<1>2. Types' /\ Held'
  BY <1>1 DEF Types, Held, Is, PerBlock, Taking
<1>3. Filed' /\ Accounted' /\ Totals'
  BY <1>1 DEF Filed, Accounted, Totals, Is, Taking
<1>4. Headed'
  BY <1>1, HeaderStays
<1> QED BY <1>2, <1>3, <1>4 DEF Kept

\* The packets have ended.
LEMMA FinalizeSteps ==
  ASSUME Kept, Finalize
  PROVE  Kept'
<1>1. /\ Types /\ Held /\ Filed /\ Accounted /\ Totals /\ Headed
      /\ pc = "idle" /\ pc' = IF buffer = <<>> THEN "patch" ELSE "tail"
      /\ UNCHANGED <<input, fed, buffer, number, total, file, header, errors>>
  BY DEF Kept, Finalize
<1>2. Types' /\ Held'
  BY <1>1 DEF Types, Held, Is, PerBlock, Taking
<1>3. Filed' /\ Accounted'
  BY <1>1 DEF Filed, Accounted, Is, Taking
<1>4. Totals'
  <2>1. ASSUME Is("flac"), buffer = <<>> PROVE total * input.channels = fed
    <3> DEFINE x == number
               ch == input.channels
    <3>1. x \in Nat /\ BlockSize \in Nat /\ ch \in Nat
      BY <1>1, Known, MuxerAssumption DEF Types
    <3>2. (x * BlockSize) * ch = x * (BlockSize * ch) /\ x * (BlockSize * ch) \in Nat
      <4> HIDE DEF x, ch
      <4> QED BY <3>1
    <3>3. number * (BlockSize * ch) + 0 = fed /\ total = number * BlockSize
      BY <1>1, <2>1 DEF Held, Totals, Taking, Unit, Is
    <3>4. x * (BlockSize * ch) + 0 = x * (BlockSize * ch)
      BY <3>2
    <3> QED BY <3>2, <3>3, <3>4
  <2> QED BY <1>1, <2>1 DEF Totals, Is, Taking
<1>5. Headed'
  BY <1>1, HeaderStays
<1> QED BY <1>2, <1>3, <1>4, <1>5 DEF Kept

\* The sizes are written.
LEMMA PatchSteps ==
  ASSUME Kept, Patch \/ PatchSize
  PROVE  Kept'
<1>1. /\ Types /\ Held /\ Filed /\ Accounted /\ Totals /\ Headed
      /\ UNCHANGED <<input, fed, buffer, number, total, file, errors>>
      /\ pc \in {"patch", "size"}
      /\ pc = "size" => Is("wav")
      /\ pc' = IF pc = "patch" /\ Is("wav") THEN "size" ELSE "closed"
  BY DEF Kept, Types, Patch, PatchSize
<1>2. Types' /\ Held'
  BY <1>1 DEF Types, Held, Is, PerBlock, Taking
<1>3. Filed' /\ Accounted' /\ Totals'
  BY <1>1 DEF Filed, Accounted, Totals, Is, Taking
<1>4. Headed'
  <2>1. total \in Nat /\ (36 + total) % Wrap \in Nat
    BY <1>1, MuxerAssumption DEF Types
  <2>2. CASE Patch
    <3>1. CASE Is("wav")
      BY <1>1, <2>1, <2>2, <3>1 DEF Headed, Patch, Is
    <3>2. CASE Is("flac")
      BY <1>1, <2>1, <2>2, <3>2 DEF Headed, Patch, Is
    <3>3. CASE Is("mp3")
      BY <1>1, <2>1, <2>2, <3>3 DEF Headed, Patch, Is
    <3> QED BY <1>1, <3>1, <3>2, <3>3, Known DEF Is
  <2>3. CASE PatchSize
    BY <1>1, <2>1, <2>3 DEF Headed, PatchSize, Is
  <2> QED BY <2>2, <2>3
<1> QED BY <1>2, <1>3, <1>4 DEF Kept

\* The file breaks off.
LEMMA BrokenSteps ==
  ASSUME Kept, Broken
  PROVE  Kept'
<1>1. /\ Types /\ Held /\ Filed /\ Accounted /\ Totals /\ Headed
      /\ pc # "closed" /\ pc' = "broken"
      /\ UNCHANGED <<input, fed, buffer, number, total, header, errors>>
  BY DEF Kept, Broken
<1>2. Types' /\ Held'
  BY <1>1 DEF Types, Held, Is, PerBlock, Taking
<1>3. Filed'
  <2>1. PICK n \in DOMAIN file \cup {0} :
          \/ file' = SubSeq(file, 1, n)
          \/ n > 0 /\ file' = Append(SubSeq(file, 1, n - 1), Torn)
    BY DEF Broken
  <2>2. Shut(input, file, number) /\ input \in Inputs /\ number \in Nat
    BY <1>1 DEF Filed, Types
  <2>3. Shut(input, file', number)
    BY <2>1, <2>2, ShutBreaks
  <2> QED BY <1>1, <2>3 DEF Filed, Taking
<1>4. Accounted' /\ Totals'
  BY <1>1 DEF Accounted, Totals, Is, Taking
<1>5. Headed'
  BY <1>1, HeaderStays
<1> QED BY <1>2, <1>3, <1>4, <1>5 DEF Kept

\* A step that leaves nothing behind, and one that fails to write a packet.
LEMMA StrayedStays ==
  ASSUME Types, Strayed, PerBlock' = PerBlock,
         \/ stray' = stray /\ errors' \in {errors, errors + 1}
         \/ /\ errors' = errors + 1
            /\ \E n \in Nat : n <= 2 * PerBlock - 1 /\ stray' = stray + n
  PROVE  Strayed'
<1> DEFINE most == 2 * PerBlock - 1
           x    == errors * most
<1>1. most \in Nat /\ errors \in Nat /\ stray \in Nat /\ stray <= x
  BY Known DEF Types, Strayed
<1>2. (errors + 1) * most = errors * most + 1 * most /\ 1 * most = most
  <2> HIDE DEF most
  <2> QED BY <1>1, Distributes
<1>3. x \in Nat
  <2> HIDE DEF most
  <2> QED BY <1>1
<1>4. PICK y \in {x, x + most} : errors' * most = y /\ stray' \in Nat /\ stray' <= y
  <2> DEFINE p == PerBlock
  <2> HIDE DEF p, x, most
  <2>1. CASE stray' = stray /\ errors' = errors
    BY <1>1, <2>1 DEF x
  <2>2. CASE stray' = stray /\ errors' = errors + 1
    <3>1. errors' * most = x + most
      BY <1>2, <2>2 DEF x
    <3> QED BY <1>1, <1>3, <2>2, <3>1
  <2>3. CASE errors' = errors + 1 /\ \E n \in Nat : n <= most /\ stray' = stray + n
    <3>1. errors' * most = x + most
      BY <1>2, <2>3 DEF x
    <3> QED BY <1>1, <1>3, <2>3, <3>1
  <2> QED BY <2>1, <2>2, <2>3 DEF most
<1> QED BY <1>4 DEF Strayed

\* What write_all leaves of a piece.
LEMMA StrayIs ==
  ASSUME Types, Strayed, NEW d \in Nat \ {0}, d <= PerBlock,
         NEW piece, Is("wav") => Len(piece.bits) = d,
         NEW next, WriteOut(piece, next)
  PROVE  \/ stray' = stray /\ errors' \in {errors, errors + 1}
         \/ /\ errors' = errors + 1
            /\ \E n \in Nat : n <= 2 * PerBlock - 1 /\ stray' = stray + n
<1>1. CASE stray' = stray
  BY <1>1 DEF WriteOut
<1>2. CASE stray' # stray
  <2>1. errors' = errors + 1 /\ stray' \in {stray + n : n \in Strays(piece)}
    BY <1>2 DEF WriteOut
  <2>2. PICK n \in Strays(piece) : stray' = stray + n
    BY <2>1
  <2>3. stray \in Nat /\ PerBlock \in Nat
    BY Known DEF Strayed
  <2>4. n \in Nat /\ n <= 2 * PerBlock - 1
    <3>1. CASE Is("wav")
      BY <2>2, <2>3, <3>1 DEF Strays
    <3>2. CASE ~ Is("wav")
      BY <1>2, <2>2, <2>3, <3>2 DEF Strays
    <3> QED BY <3>1, <3>2
  <2> QED BY <2>1, <2>2, <2>4
<1> QED BY <1>1, <1>2

\* Failed writes leave less than a packet each.
LEMMA StrayedSteps ==
  ASSUME IInv, [Next]_vars
  PROVE  Strayed'
<1>1. Types /\ Strayed /\ PerBlock \in Nat \ {0} /\ 1 <= PerBlock
  BY Known DEF IInv, Kept
<1>2. input' = input /\ PerBlock' = PerBlock
  BY DEF Next, vars, PerBlock, WritePacketWav, WritePacketMp3, WritePacketFlac, Fed, FlushBlock,
         FlushEnds, Finalize, FinalizeTailFlac, FinalizeTailMp3, Patch, PatchSize, Broken
<1>3. ASSUME NEW piece, NEW next, WriteOut(piece, next), ~ Is("wav") PROVE Strayed'
  BY <1>1, <1>2, <1>3, StrayIs, StrayedStays
<1>4. ASSUME UNCHANGED <<stray, errors>> PROVE Strayed'
  BY <1>1, <1>2, <1>4, StrayedStays
<1>5. ASSUME NEW n \in Packets, WritePacketWav(n) PROVE Strayed'
  <2>1. Fed(n) /\ WriteOut(Piece(number, Packet(n)), "idle")
    BY <1>5 DEF WritePacketWav
  <2>2. PICK m \in Nat \ {0}, d \in Nat \ {0}, u \in Nat :
           /\ d = m * input.channels /\ d \div input.channels = m /\ d <= PerBlock
           /\ fed' = u /\ u = fed + d /\ u <= Len(input.samples) /\ u % input.channels = 0
           /\ Packet(n) = SubSeq(input.samples, fed + 1, u) /\ Len(Packet(n)) = d
    BY <1>1, <2>1, PacketIs
  <2>3. Len(Piece(number, Packet(n)).bits) = d
    BY <2>2 DEF Piece
  <2> QED BY <1>1, <1>2, <2>1, <2>2, <2>3, StrayIs, StrayedStays
<1>6. ASSUME NEW n \in Packets, WritePacketMp3(n) PROVE Strayed'
  BY <1>3, <1>4, <1>6 DEF WritePacketMp3, Is
<1>7. CASE FlushBlock
  BY <1>1, <1>3, <1>7 DEF FlushBlock, Types, Is
<1>8. CASE FinalizeTailFlac
  BY <1>3, <1>8 DEF FinalizeTailFlac, Is
<1>9. CASE FinalizeTailMp3
  BY <1>3, <1>4, <1>9 DEF FinalizeTailMp3, Is
<1>10. CASE \/ \E n \in Packets : WritePacketFlac(n)
            \/ FlushEnds \/ Finalize \/ Patch \/ PatchSize \/ Broken
  BY <1>4, <1>10 DEF WritePacketFlac, FlushEnds, Finalize, Patch, PatchSize, Broken
<1>11. CASE UNCHANGED vars
  BY <1>4, <1>11 DEF vars
<1> QED BY <1>5, <1>6, <1>7, <1>8, <1>9, <1>10, <1>11 DEF Next

\* The invariant holds at first,
LEMMA Starts == Init => IInv
<1> SUFFICES ASSUME Init PROVE IInv
  OBVIOUS
<1>1. /\ input \in Inputs /\ fed = 0 /\ buffer = <<>> /\ number = 0 /\ total = 0
      /\ file = <<>> /\ header = NewHeader /\ stray = 0 /\ errors = 0 /\ pc = "idle"
  BY DEF Init
<1>2. /\ input.container \in {"wav", "mp3", "flac"} /\ input.channels \in {1, 2}
      /\ input.rate \in Nat /\ input.rate % 2 ^ 20 = input.rate
      /\ input.samples \in Seq(Samples) /\ Len(input.samples) \in Nat
      /\ Unit(input) \in Nat \ {0} /\ PerBlock \in Nat \ {0} /\ Wrap \in Nat \ {0}
      /\ Lost(input) \in Nat
  BY <1>1, RecordingIs, MuxerAssumption DEF PerBlock, Lost
<1>3. Types
  BY <1>1, <1>2 DEF Types
<1>4. Held
  <2>1. number * Unit(input) = 0
    BY <1>1, <1>2
  <2>2. SubSeq(input.samples, 0 + 1, 0) = <<>>
    BY <1>2, Beginnings
  <2>3. Len(buffer) = 0 /\ buffer \in Seq(Samples) /\ 0 + 0 = 0
    BY <1>1
  <2>4. /\ number * Unit(input) + Len(buffer) = fed
        /\ buffer = SubSeq(input.samples, number * Unit(input) + 1, fed)
    BY <1>1, <2>1, <2>2, <2>3
  <2>5. 0 <= (IF Is("flac") THEN 2 * PerBlock ELSE Len(input.samples)) /\ 0 < PerBlock
    BY <1>2
  <2> QED BY <1>1, <2>3, <2>4, <2>5 DEF Held, Taking
<1>5. Filed
  <2>1. Open(input, file, number)
    BY <1>1, OpenEmpty
  <2>2. number \in Nat
    BY <1>1
  <2> QED BY <1>1, <2>1, <2>2, OpenShut DEF Filed
<1>6. Contents(file) = 0
  BY <1>1, ContentsEmpty
<1>7. Accounted
  <2>1. Contents(file) * input.channels = 0 /\ Len(buffer) = 0 /\ errors * Lost(input) = 0
    BY <1>1, <1>2, <1>6
  <2> QED BY <1>1, <2>1 DEF Accounted
<1>8. Totals
  <2>1. 0 * BlockSize = 0
    BY MuxerAssumption
  <2>2. (2 * (Contents(file) * input.channels)) % Wrap = 0
    BY <1>2, <1>6
  <2> QED BY <1>1, <2>1, <2>2 DEF Totals
<1>9. Headed
  <2>1. CASE Is("wav")
    BY <1>1, <1>2, <2>1 DEF Headed, NewHeader, Is
  <2>2. CASE ~ Is("wav")
    <3>1. header = [rate |-> input.rate, channels |-> input.channels, total |-> 0]
      <4>1. header = [rate |-> input.rate % 2 ^ 20,
                      channels |-> ((input.channels - 1) % 8) + 1, total |-> 0]
        BY <1>1, <2>2, Zenon DEF NewHeader, StreamInfo
      <4>2. ((input.channels - 1) % 8) + 1 = input.channels
        BY <1>2
      <4> QED BY <1>2, <4>1, <4>2
    <3> QED BY <1>1, <1>2, <2>2, <3>1 DEF Headed
  <2> QED BY <2>1, <2>2
<1>10. Strayed
  <2> DEFINE most == 2 * PerBlock - 1
  <2>1. most \in Nat
    BY <1>2
  <2>2. 0 * most = 0
    BY <2>1
  <2> QED BY <1>1, <2>2 DEF Strayed
<1> QED BY <1>3, <1>4, <1>5, <1>7, <1>8, <1>9, <1>10 DEF IInv, Kept

\* and every step keeps it.
LEMMA Steps == IInv /\ [Next]_vars => IInv'
<1> SUFFICES ASSUME IInv, [Next]_vars PROVE Kept'
  BY StrayedSteps DEF IInv
<1> USE DEF IInv
<1>1. CASE UNCHANGED vars
  BY <1>1 DEF vars, Kept, Types, Held, Filed, Accounted, Totals, Headed, Is, PerBlock, Taking
<1>2. ASSUME NEW n \in Packets,
             WritePacketWav(n) \/ WritePacketMp3(n) \/ WritePacketFlac(n)
      PROVE  Kept'
  BY <1>2, WavSteps, Mp3Steps, FlacSteps
<1>3. CASE FlushBlock
  BY <1>3, FlushSteps
<1>4. CASE FlushEnds
  BY <1>4, FlushEndSteps
<1>5. CASE Finalize
  BY <1>5, FinalizeSteps
<1>6. CASE FinalizeTailFlac \/ FinalizeTailMp3
  BY <1>6, TailFlacSteps, TailMp3Steps
<1>7. CASE Patch \/ PatchSize
  BY <1>7, PatchSteps
<1>8. CASE Broken
  BY <1>8, BrokenSteps
<1> QED BY <1>1, <1>2, <1>3, <1>4, <1>5, <1>6, <1>7, <1>8 DEF Next

\* The inductive invariant holds in every reachable state of a muxer.
THEOREM Invariant == Spec => []IInv
BY Starts, Steps, PTL DEF Spec
-----------------------------------------------------------------------------
(* What follows from it.                                                   *)

\* Type correctness: whatever fails, the numbers of the pieces in the file are those
\* that were given out, FLAC frames have the size that STREAMINFO promises and only
\* the last is shorter, and the header has the total or none.
THEOREM MuxerTypes == Spec => []TypeOK
<1>1. IInv => TypeOK
  <2> SUFFICES ASSUME IInv PROVE TypeOK
    OBVIOUS
  <2>1. Types /\ Held /\ Filed /\ Headed /\ stray \in Nat
    BY DEF IInv, Kept, Strayed
  <2>2. \A i \in DOMAIN buffer : buffer[i] \in Samples
    BY <2>1 DEF Held
  <2>3. header.total \in {0, total}
    BY <2>1 DEF Headed, Types
  <2>4. ASSUME NEW i \in Whole
        PROVE  /\ file[i].number \in 0 .. number
               /\ Is("flac") => /\ file[i].size \in 1 .. BlockSize
                                /\ file[i].size < BlockSize => i = Len(file)
    <3>1. /\ input \in Inputs /\ number \in Nat /\ BlockSize \in Nat
          /\ file \in Seq(Pieces(input)) /\ Below(file, number + 1)
          /\ Is("flac") => Sized(file)
      BY <2>1, MuxerAssumption DEF Types, Filed, Shut, Is
    <3>2. i \in 1 .. Len(file) /\ file[i] # Torn /\ file[i] \in Pieces(input)
      BY <3>1 DEF Whole
    <3>3. /\ file[i].number \in Nat /\ file[i].size \in Nat \ {0}
          /\ Is("flac") => file[i].size <= BlockSize
      BY <3>1, <3>2, SizeIs DEF Is
    <3>4. file[i].number < number + 1
      BY <3>1, <3>2 DEF Below
    <3>5. Is("flac") /\ file[i].size < BlockSize => i = Len(file)
      BY <3>1, <3>2 DEF Sized
    <3> DEFINE x == file[i].number
               z == file[i].size
    <3>6. x \in 0 .. number /\ (Is("flac") => z \in 1 .. BlockSize)
      <4> HIDE DEF x, z
      <4>1. /\ x \in Nat /\ z \in Nat \ {0} /\ x < number + 1
            /\ Is("flac") => z <= BlockSize
        BY <3>3, <3>4 DEF x, z
      <4> QED BY <3>1, <4>1
    <3> QED BY <3>5, <3>6
  <2> QED BY <2>1, <2>2, <2>3, <2>4 DEF TypeOK, Types, Held, Headed
<1> QED BY <1>1, Invariant, PTL

\* Nothing is lost silently: at rest, a muxer has in its file what it was fed, but
\* for what it (for MP3: LAME) holds and what write_packet answered an error for;
\* the sizes finalize writes are the time recorded (FLAC) and the bytes of the
\* packets answered Ok (WAV), and what failed writes left in a WAV file besides is
\* less than a packet each.
THEOREM NothingLostSilently == Spec => []FileAccounts
<1>1. IInv => FileAccounts
  <2> SUFFICES ASSUME IInv PROVE FileAccounts
    OBVIOUS
  <2> DEFINE there == Contents(file) * input.channels
             lost  == IF Is("mp3") THEN Len(input.samples) ELSE PerBlock
  <2>1. Types /\ Held /\ Filed /\ Accounted /\ Totals /\ Headed /\ Strayed
    BY DEF IInv, Kept
  <2>2. lost = Lost(input)
    BY DEF Lost, PerBlock, Is
  <2>3. pc \in {"idle", "closed"} => there + Len(buffer) + errors * lost >= fed
    BY <2>1, <2>2 DEF Accounted
  <2>4. ASSUME pc = "closed"
        PROVE  /\ ~ Is("mp3") => buffer = <<>>
               /\ Is("flac") => header.total = fed \div input.channels
               /\ Is("wav") => /\ header.total = (2 * there) % Wrap
                               /\ header.riff = (36 + 2 * there) % Wrap
                               /\ stray <= errors * (2 * PerBlock - 1)
    <3>1. ~ Is("mp3") => buffer = <<>>
      BY <2>1, <2>4, Known DEF Held, Is
    <3>2. ASSUME Is("flac") PROVE header.total = fed \div input.channels
      <4>1. header.total = total /\ total * input.channels = fed
        BY <2>1, <2>4, <3>2 DEF Headed, Totals, Is
      <4> DEFINE t == total
                 ch == input.channels
      <4>2. t \in Nat /\ ch \in {1, 2} /\ t * ch = fed
        BY <2>1, <4>1, Known DEF Types
      <4> HIDE DEF t, ch
      <4>3. (t * ch) \div ch = t
        <5>1. CASE ch = 1 BY <4>2, <5>1
        <5>2. CASE ch = 2 BY <4>2, <5>2
        <5> QED BY <4>2, <5>1, <5>2
      <4> QED BY <4>1, <4>2, <4>3 DEF t, ch
    <3>3. ASSUME Is("wav")
          PROVE  header.total = (2 * there) % Wrap /\ header.riff = (36 + 2 * there) % Wrap
      <4>1. /\ header.total = total /\ header.riff = (36 + total) % Wrap
            /\ total = (2 * there) % Wrap
        BY <2>1, <2>4, <3>3 DEF Headed, Totals, Is
      <4> DEFINE x == 2 * there
      <4>2. x \in Nat /\ Wrap \in Nat \ {0}
        <5>1. Contents(file) \in Nat /\ input.channels \in Nat
          BY <2>1, FileContents, Known DEF Filed, Shut, Types
        <5>2. there \in Nat
          BY <5>1
        <5> QED BY <5>2, MuxerAssumption
      <4> HIDE DEF x
      <4>3. ((x % Wrap) + 36) % Wrap = (x + 36) % Wrap
        BY <4>2, ModAdd
      <4>4. 36 + (x % Wrap) = (x % Wrap) + 36 /\ 36 + x = x + 36
        BY <4>2
      <4> QED BY <4>1, <4>3, <4>4 DEF x
    <3> QED BY <2>1, <3>1, <3>2, <3>3 DEF Strayed
  <2> QED BY <2>3, <2>4 DEF FileAccounts
<1> QED BY <1>1, Invariant, PTL
-----------------------------------------------------------------------------
(* What is in the file.                                                    *)

\* Every whole piece in the file is made of the samples at its place, for FLAC by
\* the encoder, and no place is there twice.
PiecesInPlace ==
  \A i \in Whole :
    /\ \E n : Fits(input, file[i].number, n) /\ file[i] = Made(input, file[i].number, n)
    /\ \A j \in Whole : i < j => file[i].number < file[j].number

\* It follows from the invariant.
LEMMA InPlace == IInv => PiecesInPlace
<1> SUFFICES ASSUME IInv, NEW i \in Whole
             PROVE  /\ \E n : Fits(input, file[i].number, n) /\ file[i] = Made(input, file[i].number, n)
                    /\ \A j \in Whole : i < j => file[i].number < file[j].number
  BY DEF PiecesInPlace
<1>1. /\ input \in Inputs /\ file \in Seq(Pieces(input)) /\ Rising(file)
  BY DEF IInv, Kept, Types, Filed, Shut
<1>2. i \in 1 .. Len(file) /\ file[i] # Torn /\ file[i] \in Pieces(input)
  BY <1>1 DEF Whole
<1>3. PICK k, n : Fits(input, k, n) /\ file[i] = Made(input, k, n)
  BY <1>1, <1>2, PieceIs
<1>4. file[i].number = k
  BY <1>1, <1>3, MadeIs
<1>5. ASSUME NEW j \in Whole, i < j PROVE file[i].number < file[j].number
  <2>1. j \in 1 .. Len(file) /\ file[j] # Torn
    BY <1>1 DEF Whole
  <2> QED BY <1>1, <1>2, <1>5, <2>1 DEF Rising
<1> QED BY <1>3, <1>4, <1>5

\* Whatever writes failed before, a piece in the file is the samples of its place,
\* and none is there twice: for FLAC the frames of those samples under that number.
THEOREM EveryPieceInPlace == Spec => []PiecesInPlace
BY InPlace, Invariant, PTL

\* The bitrates, as a set.
Rates == {8, 16, 24, 32, 40, 48, 64, 80, 96, 112, 128, 160, 192, 224, 256, 320}

\* NearestBitrate counts the limits below a rate.
LEMMA LimitsBelow ==
  ASSUME NEW kbps \in Nat, NEW j \in 0 .. 15,
         \A i \in 1 .. 15 : kbps > Limits[i] <=> i <= j
  PROVE  NearestBitrate(kbps) = Bitrates[1 + j]
<1>1. DOMAIN Limits = 1 .. 15
  BY DEF Limits
<1>2. {i \in DOMAIN Limits : kbps > Limits[i]} = 1 .. j
  BY <1>1
<1>3. Cardinality(1 .. j) = IF 1 > j THEN 0 ELSE j - 1 + 1
  BY FS_Interval
<1>4. Cardinality(1 .. j) = j
  BY <1>3
<1> QED BY <1>2, <1>4 DEF NearestBitrate

\* What HeadersRead says of one bitrate.
Nearest(kbps) ==
  \A i \in DOMAIN Bitrates :
    LET taken == NearestBitrate(kbps)
        off(rate) == IF rate > kbps THEN rate - kbps ELSE kbps - rate
    IN off(taken) < off(Bitrates[i]) \/ (off(taken) = off(Bitrates[i]) /\ taken <= Bitrates[i])

\* A rate between the limits around a bitrate is nearest to that one.
LEMMA Closest ==
  ASSUME NEW kbps \in Nat, NEW t \in Rates, NEW j \in 0 .. 15, t = Bitrates[1 + j],
         \A i \in 1 .. 15 : kbps > Limits[i] <=> i <= j,
         \A b \in Rates : b < t => b + t < 2 * kbps, \A b \in Rates : b > t => 2 * kbps <= b + t
  PROVE  Nearest(kbps)
<1>1. DOMAIN Bitrates = 1 .. 16 /\ \A i \in 1 .. 16 : Bitrates[i] \in Rates
  BY DEF Bitrates, Rates
<1>2. Rates \subseteq Nat
  BY DEF Rates
<1>3. NearestBitrate(kbps) = t
  BY LimitsBelow
<1> DEFINE off(rate) == IF rate > kbps THEN rate - kbps ELSE kbps - rate
<1>4. ASSUME NEW b \in Rates PROVE off(t) < off(b) \/ (off(t) = off(b) /\ t <= b)
  <2>1. b \in Nat /\ t \in Nat
    BY <1>2
  <2> QED BY <2>1
<1> QED BY <1>1, <1>3, <1>4 DEF Nearest

\* For every rate the bitrate that is taken is the nearest one, the lower of two.
LEMMA NearestIsTaken ==
  ASSUME NEW kbps \in Nat
  PROVE  Nearest(kbps)
<1>1. CASE kbps <= 12
  <2>1. \A i \in 1 .. 15 : kbps > Limits[i] <=> i <= 0
    BY <1>1 DEF Limits
  <2>2. /\ 8 \in Rates /\ 8 = Bitrates[1 + 0]
        /\ \A b \in Rates : b < 8 => b + 8 < 2 * kbps
        /\ \A b \in Rates : b > 8 => 2 * kbps <= b + 8
    BY <1>1 DEF Rates, Bitrates
  <2> QED BY <2>1, <2>2, Closest
<1>2. CASE kbps > 12 /\ kbps <= 20
  <2>1. \A i \in 1 .. 15 : kbps > Limits[i] <=> i <= 1
    BY <1>2 DEF Limits
  <2>2. /\ 16 \in Rates /\ 16 = Bitrates[1 + 1]
        /\ \A b \in Rates : b < 16 => b + 16 < 2 * kbps
        /\ \A b \in Rates : b > 16 => 2 * kbps <= b + 16
    BY <1>2 DEF Rates, Bitrates
  <2> QED BY <2>1, <2>2, Closest
<1>3. CASE kbps > 20 /\ kbps <= 28
  <2>1. \A i \in 1 .. 15 : kbps > Limits[i] <=> i <= 2
    BY <1>3 DEF Limits
  <2>2. /\ 24 \in Rates /\ 24 = Bitrates[1 + 2]
        /\ \A b \in Rates : b < 24 => b + 24 < 2 * kbps
        /\ \A b \in Rates : b > 24 => 2 * kbps <= b + 24
    BY <1>3 DEF Rates, Bitrates
  <2> QED BY <2>1, <2>2, Closest
<1>4. CASE kbps > 28 /\ kbps <= 36
  <2>1. \A i \in 1 .. 15 : kbps > Limits[i] <=> i <= 3
    BY <1>4 DEF Limits
  <2>2. /\ 32 \in Rates /\ 32 = Bitrates[1 + 3]
        /\ \A b \in Rates : b < 32 => b + 32 < 2 * kbps
        /\ \A b \in Rates : b > 32 => 2 * kbps <= b + 32
    BY <1>4 DEF Rates, Bitrates
  <2> QED BY <2>1, <2>2, Closest
<1>5. CASE kbps > 36 /\ kbps <= 44
  <2>1. \A i \in 1 .. 15 : kbps > Limits[i] <=> i <= 4
    BY <1>5 DEF Limits
  <2>2. /\ 40 \in Rates /\ 40 = Bitrates[1 + 4]
        /\ \A b \in Rates : b < 40 => b + 40 < 2 * kbps
        /\ \A b \in Rates : b > 40 => 2 * kbps <= b + 40
    BY <1>5 DEF Rates, Bitrates
  <2> QED BY <2>1, <2>2, Closest
<1>6. CASE kbps > 44 /\ kbps <= 56
  <2>1. \A i \in 1 .. 15 : kbps > Limits[i] <=> i <= 5
    BY <1>6 DEF Limits
  <2>2. /\ 48 \in Rates /\ 48 = Bitrates[1 + 5]
        /\ \A b \in Rates : b < 48 => b + 48 < 2 * kbps
        /\ \A b \in Rates : b > 48 => 2 * kbps <= b + 48
    BY <1>6 DEF Rates, Bitrates
  <2> QED BY <2>1, <2>2, Closest
<1>7. CASE kbps > 56 /\ kbps <= 72
  <2>1. \A i \in 1 .. 15 : kbps > Limits[i] <=> i <= 6
    BY <1>7 DEF Limits
  <2>2. /\ 64 \in Rates /\ 64 = Bitrates[1 + 6]
        /\ \A b \in Rates : b < 64 => b + 64 < 2 * kbps
        /\ \A b \in Rates : b > 64 => 2 * kbps <= b + 64
    BY <1>7 DEF Rates, Bitrates
  <2> QED BY <2>1, <2>2, Closest
<1>8. CASE kbps > 72 /\ kbps <= 88
  <2>1. \A i \in 1 .. 15 : kbps > Limits[i] <=> i <= 7
    BY <1>8 DEF Limits
  <2>2. /\ 80 \in Rates /\ 80 = Bitrates[1 + 7]
        /\ \A b \in Rates : b < 80 => b + 80 < 2 * kbps
        /\ \A b \in Rates : b > 80 => 2 * kbps <= b + 80
    BY <1>8 DEF Rates, Bitrates
  <2> QED BY <2>1, <2>2, Closest
<1>9. CASE kbps > 88 /\ kbps <= 104
  <2>1. \A i \in 1 .. 15 : kbps > Limits[i] <=> i <= 8
    BY <1>9 DEF Limits
  <2>2. /\ 96 \in Rates /\ 96 = Bitrates[1 + 8]
        /\ \A b \in Rates : b < 96 => b + 96 < 2 * kbps
        /\ \A b \in Rates : b > 96 => 2 * kbps <= b + 96
    BY <1>9 DEF Rates, Bitrates
  <2> QED BY <2>1, <2>2, Closest
<1>10. CASE kbps > 104 /\ kbps <= 120
  <2>1. \A i \in 1 .. 15 : kbps > Limits[i] <=> i <= 9
    BY <1>10 DEF Limits
  <2>2. /\ 112 \in Rates /\ 112 = Bitrates[1 + 9]
        /\ \A b \in Rates : b < 112 => b + 112 < 2 * kbps
        /\ \A b \in Rates : b > 112 => 2 * kbps <= b + 112
    BY <1>10 DEF Rates, Bitrates
  <2> QED BY <2>1, <2>2, Closest
<1>11. CASE kbps > 120 /\ kbps <= 144
  <2>1. \A i \in 1 .. 15 : kbps > Limits[i] <=> i <= 10
    BY <1>11 DEF Limits
  <2>2. /\ 128 \in Rates /\ 128 = Bitrates[1 + 10]
        /\ \A b \in Rates : b < 128 => b + 128 < 2 * kbps
        /\ \A b \in Rates : b > 128 => 2 * kbps <= b + 128
    BY <1>11 DEF Rates, Bitrates
  <2> QED BY <2>1, <2>2, Closest
<1>12. CASE kbps > 144 /\ kbps <= 176
  <2>1. \A i \in 1 .. 15 : kbps > Limits[i] <=> i <= 11
    BY <1>12 DEF Limits
  <2>2. /\ 160 \in Rates /\ 160 = Bitrates[1 + 11]
        /\ \A b \in Rates : b < 160 => b + 160 < 2 * kbps
        /\ \A b \in Rates : b > 160 => 2 * kbps <= b + 160
    BY <1>12 DEF Rates, Bitrates
  <2> QED BY <2>1, <2>2, Closest
<1>13. CASE kbps > 176 /\ kbps <= 208
  <2>1. \A i \in 1 .. 15 : kbps > Limits[i] <=> i <= 12
    BY <1>13 DEF Limits
  <2>2. /\ 192 \in Rates /\ 192 = Bitrates[1 + 12]
        /\ \A b \in Rates : b < 192 => b + 192 < 2 * kbps
        /\ \A b \in Rates : b > 192 => 2 * kbps <= b + 192
    BY <1>13 DEF Rates, Bitrates
  <2> QED BY <2>1, <2>2, Closest
<1>14. CASE kbps > 208 /\ kbps <= 240
  <2>1. \A i \in 1 .. 15 : kbps > Limits[i] <=> i <= 13
    BY <1>14 DEF Limits
  <2>2. /\ 224 \in Rates /\ 224 = Bitrates[1 + 13]
        /\ \A b \in Rates : b < 224 => b + 224 < 2 * kbps
        /\ \A b \in Rates : b > 224 => 2 * kbps <= b + 224
    BY <1>14 DEF Rates, Bitrates
  <2> QED BY <2>1, <2>2, Closest
<1>15. CASE kbps > 240 /\ kbps <= 288
  <2>1. \A i \in 1 .. 15 : kbps > Limits[i] <=> i <= 14
    BY <1>15 DEF Limits
  <2>2. /\ 256 \in Rates /\ 256 = Bitrates[1 + 14]
        /\ \A b \in Rates : b < 256 => b + 256 < 2 * kbps
        /\ \A b \in Rates : b > 256 => 2 * kbps <= b + 256
    BY <1>15 DEF Rates, Bitrates
  <2> QED BY <2>1, <2>2, Closest
<1>16. CASE kbps > 288
  <2>1. \A i \in 1 .. 15 : kbps > Limits[i] <=> i <= 15
    BY <1>16 DEF Limits
  <2>2. /\ 320 \in Rates /\ 320 = Bitrates[1 + 15]
        /\ \A b \in Rates : b < 320 => b + 320 < 2 * kbps
        /\ \A b \in Rates : b > 320 => 2 * kbps <= b + 320
    BY <1>16 DEF Rates, Bitrates
  <2> QED BY <2>1, <2>2, Closest
<1> QED BY <1>1, <1>2, <1>3, <1>4, <1>5, <1>6, <1>7, <1>8, <1>9, <1>10, <1>11, <1>12, <1>13, <1>14, <1>15, <1>16

\* The codec, for a recording: what the encoder makes of any of its parts is read
\* back.
CodecReads(r) ==
  \A k, n : Fits(r, k, n) =>
    LET frame == EncodeFrame(Part(r, k, n), r.channels, r.rate, k)
        read  == ReadHeader(frame.bits)
    IN /\ DecodeFrame(frame.bits) = Part(r, k, n)
       /\ SoundHeader(frame.bits)
       /\ read.number = frame.number /\ read.size = frame.size
       /\ read.rate = r.rate /\ read.channels = r.channels
       /\ Divisible(frame.bits, Poly16)

\* A part of a FLAC recording is a block that the format has room for.
LEMMA PartFits ==
  ASSUME NEW r \in Inputs, r.container = "flac", NEW k, NEW n, Fits(r, k, n)
  PROVE  /\ Part(r, k, n) \in Seq(Samples) /\ Len(Part(r, k, n)) = n * r.channels
         /\ n \in BlockSizes /\ k \in FrameNumbers
         /\ r.rate \in HeaderRates /\ r.channels \in 1 .. 2
<1>1. /\ r.samples \in Seq(Samples) /\ Len(r.samples) \in Nat
      /\ r.channels \in {1, 2} /\ BlockSize * r.channels \in Nat \ {0}
  BY RecordingIs
<1>2. k \in Nat /\ n \in Nat \ {0} /\ n <= BlockSize /\ Len(Part(r, k, n)) = n * r.channels
  BY PartIs
<1> DEFINE w   == BlockSize * r.channels
           len == Len(r.samples)
           q   == len \div w
           m   == len % w
           a   == k * w
           b   == n * r.channels
<1>3. a + b <= len /\ Part(r, k, n) = SubSeq(r.samples, a + 1, a + b)
  BY DEF Fits, Part, Unit
<1>4. a \in Nat /\ b \in Nat \ {0}
  <2> HIDE DEF w
  <2>1. a \in Nat
    BY <1>1, <1>2 DEF w
  <2> QED BY <1>1, <1>2, <2>1
<1>5. Part(r, k, n) \in Seq(Samples)
  <2> HIDE DEF a, b
  <2>1. \A i \in a + 1 .. a + b : r.samples[i] \in Samples
    BY <1>1, <1>3, <1>4
  <2> QED BY <1>1, <1>3, <1>4, <2>1
<1>6. k <= q
  <2>1. w \in Nat \ {0} /\ len \in Nat /\ k * w <= len
    <3> HIDE DEF w
    <3> QED BY <1>1, <1>3, <1>4 DEF w
  <2> HIDE DEF w, len
  <2>2. q \in Int /\ m \in 0 .. w - 1 /\ len = w * q + m
    BY <2>1
  <2> HIDE DEF q, m
  <2> DEFINE d == k - q
  <2>3. d \in Int /\ w * d <= m
    <3>1. w * (k - q) = k * w - w * q
      BY <1>2, <2>1, <2>2
    <3> QED BY <1>2, <2>1, <2>2, <3>1
  <2> HIDE DEF d
  <2>4. d >= 1 => w * d >= w
    BY <2>1, <2>3
  <2>5. d <= 0
    BY <2>1, <2>2, <2>3, <2>4
  <2> QED BY <1>2, <2>2, <2>5 DEF d
<1>7. q \in FrameNumbers /\ r.rate \in HeaderRates /\ BlockSize \in BlockSizes
  BY CodecAssumption
<1> HIDE DEF q
<1>8. k \in FrameNumbers
  BY <1>2, <1>6, <1>7, SMT DEF FrameNumbers
<1>9. n \in BlockSizes
  BY <1>2, <1>7, SMT DEF BlockSizes
<1> QED BY <1>1, <1>2, <1>5, <1>7, <1>8, <1>9

\* The codec does that for every FLAC recording.
LEMMA CodecIs ==
  ASSUME NEW r \in Inputs, r.container = "flac"
  PROVE  CodecReads(r)
<1> SUFFICES ASSUME NEW k, NEW n, Fits(r, k, n)
             PROVE  LET frame == EncodeFrame(Part(r, k, n), r.channels, r.rate, k)
                        read  == ReadHeader(frame.bits)
                    IN /\ DecodeFrame(frame.bits) = Part(r, k, n)
                       /\ SoundHeader(frame.bits)
                       /\ read.number = frame.number /\ read.size = frame.size
                       /\ read.rate = r.rate /\ read.channels = r.channels
                       /\ Divisible(frame.bits, Poly16)
  BY Zenon DEF CodecReads
<1> DEFINE block == Part(r, k, n)
           frame == EncodeFrame(block, r.channels, r.rate, k)
<1>1. /\ block \in Seq(Samples) /\ Len(block) = n * r.channels
      /\ n \in BlockSizes /\ k \in FrameNumbers
      /\ r.rate \in HeaderRates /\ r.channels \in 1 .. 2
  BY PartFits
<1> HIDE DEF block
<1>2. frame = EncodeFrame(block, r.channels, r.rate, k)
  OBVIOUS
<1> HIDE DEF frame
<1>3. /\ frame.number = k /\ frame.size = n
      /\ ReadHeader(frame.bits).number = k /\ ReadHeader(frame.bits).size = n
      /\ ReadHeader(frame.bits).rate = r.rate /\ ReadHeader(frame.bits).channels = r.channels
      /\ SoundHeader(frame.bits) /\ Divisible(frame.bits, Poly16)
      /\ DecodeFrame(frame.bits) = block
  BY <1>1, <1>2, FrameBack
<1> QED BY <1>3 DEF frame, block

\* A header alone is read back, whatever its number and size.
LEMMA HeaderIs ==
  ASSUME NEW r \in Inputs, r.container = "flac", NEW h \in Headers, NEW code,
         code = FrameHeader(h[2], r.channels, r.rate, h[1])
  PROVE  /\ SoundHeader(code)
         /\ ReadHeader(code).number = h[1] /\ ReadHeader(code).size = h[2]
         /\ ReadHeader(code).rate = r.rate /\ ReadHeader(code).channels = r.channels
<1>1. /\ h[1] \in FrameNumbers /\ h[2] \in BlockSizes /\ r.rate \in HeaderRates
      /\ r.channels \in 1 .. 2
  BY CodecAssumption, RecordingIs
<1>2. /\ code \in Seq(Binary)
      /\ \A bits \in Seq(Binary) : At(bits, 1, code) =>
           /\ ReadHeader(bits) = [size |-> h[2], rate |-> r.rate, channels |-> r.channels,
                                  number |-> h[1], body |-> 1 + Len(code)]
           /\ SoundHeader(bits)
  BY <1>1, HeaderBack
<1>3. At(code, 1, code)
  BY <1>2, AtSelf
<1> QED BY <1>2, <1>3

\* So what a reader finds is in place, whatever failed before it: the samples of a
\* WAV or MP3 piece, and what a FLAC decoder makes of a frame, are those recorded
\* at its place, the header gives its number, size and rate, and its checksums fit.
THEOREM FramesReadBack == Spec => []FramesInPlace
<1>1. IInv => FramesInPlace
  <2> SUFFICES ASSUME IInv PROVE FramesInPlace
    OBVIOUS
  <2>1. input \in Inputs /\ PiecesInPlace /\ file \in Seq(Pieces(input))
    BY InPlace DEF IInv, Kept, Types, Filed, Shut
  <2>2. HeadersRead
    <3>1. CASE Is("flac")
      <4>1. ASSUME NEW h \in Headers
            PROVE  Readable([number |-> h[1], size |-> h[2],
                             bits |-> FrameHeader(h[2], input.channels, input.rate, h[1])])
        <5> DEFINE code == FrameHeader(h[2], input.channels, input.rate, h[1])
        <5>1. /\ SoundHeader(code)
              /\ ReadHeader(code).number = h[1] /\ ReadHeader(code).size = h[2]
              /\ ReadHeader(code).rate = input.rate
              /\ ReadHeader(code).channels = input.channels
          BY <2>1, <3>1, HeaderIs DEF Is
        <5> HIDE DEF code
        <5> DEFINE frame == [number |-> h[1], size |-> h[2], bits |-> code]
        <5>2. frame.number = h[1] /\ frame.size = h[2] /\ frame.bits = code
          OBVIOUS
        <5> HIDE DEF frame
        <5>3. Readable(frame)
          BY <5>1, <5>2 DEF Readable
        <5> QED BY <5>3 DEF frame, code
      <4>2. ~ Is("mp3")
        BY SMTT(30), <3>1 DEF Is
      <4> QED BY <4>1, <4>2, Zenon DEF HeadersRead
    <3>2. CASE ~ Is("flac")
      <4>1. \A kbps \in 0 .. 400 : Nearest(kbps)
        BY NearestIsTaken
      <4> QED BY <3>2, <4>1 DEF HeadersRead, Nearest
    <3> QED BY <3>1, <3>2
  <2>3. ASSUME NEW i \in Whole
        PROVE  /\ (IF Is("flac") THEN DecodeFrame(file[i].bits) ELSE file[i].bits)
                    = SubSeq(input.samples, Place(file[i]) + 1,
                             Place(file[i]) + file[i].size * input.channels)
               /\ \A j \in Whole : i < j => file[i].number < file[j].number
               /\ Is("flac") => /\ Readable(file[i])
                                /\ i = Len(file) => Divisible(file[i].bits, Poly16)
    <3> DEFINE k == file[i].number
    <3>1. /\ \E n : Fits(input, k, n) /\ file[i] = Made(input, k, n)
          /\ \A j \in Whole : i < j => file[i].number < file[j].number
      BY <2>1 DEF PiecesInPlace
    <3>2. PICK n : Fits(input, k, n) /\ file[i] = Made(input, k, n)
      BY <3>1
    <3>3. file[i].size = n
      BY <2>1, <3>2, MadeIs
    <3>4. Place(file[i]) = k * Unit(input)
      <4> DEFINE ch == input.channels
                 x  == IF Is("flac") THEN BlockSize ELSE 1
      <4>1. k \in Nat /\ x \in Nat /\ ch \in Nat
        <5>1. k \in Nat
          <6> HIDE DEF k
          <6> QED BY <2>1, <3>2, PartIs
        <5>2. ch \in Nat /\ BlockSize \in Nat
          BY <2>1, RecordingIs, MuxerAssumption
        <5> QED BY <5>1, <5>2
      <4>2. Place(file[i]) = (k * x) * ch /\ Unit(input) = x * ch
        BY DEF Place, Unit, Is
      <4> HIDE DEF k, x, ch
      <4>3. (k * x) * ch = k * (x * ch)
        BY <4>1
      <4> QED BY <4>2, <4>3
    <3>5. Part(input, k, n) = SubSeq(input.samples, Place(file[i]) + 1,
                                     Place(file[i]) + file[i].size * input.channels)
      BY <3>3, <3>4 DEF Part
    <3> HIDE DEF k
    <3>6. CASE Is("flac")
      <4> DEFINE frame == EncodeFrame(Part(input, k, n), input.channels, input.rate, k)
      <4>1. file[i] = frame
        BY <3>2, <3>6 DEF Made, Is
      <4>2. CodecReads(input)
        BY <2>1, <3>6, CodecIs DEF Is
      <4>3. /\ DecodeFrame(frame.bits) = Part(input, k, n)
            /\ Readable(frame) /\ Divisible(frame.bits, Poly16)
        BY <3>2, <4>2, Zenon DEF CodecReads, Readable
      <4> HIDE DEF frame
      <4> QED BY <3>1, <3>5, <3>6, <4>1, <4>3
    <3>7. CASE ~ Is("flac")
      <4>1. file[i].bits = Part(input, k, n)
        BY <3>2, <3>7 DEF Made, Is
      <4> QED BY <3>1, <3>5, <3>7, <4>1
    <3> QED BY <3>6, <3>7
  <2> QED BY <2>2, <2>3, Zenon DEF FramesInPlace
<1> QED BY <1>1, Invariant, PTL
=============================================================================
