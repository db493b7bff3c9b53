-------------------------- MODULE DatagramsProofs --------------------------
(***************************************************************************)
(* Proofs about the contents of datagrams, for any packets, any number of  *)
(* them in a fetch and any PULL_RESP.                                      *)
(***************************************************************************)
EXTENDS Datagrams, SequenceTheorems, TLAPS

(***************************************************************************)
(* base64: how long a text is.                                             *)
(***************************************************************************)
\* Characters of n bytes, without padding.
TextLength(n) == 4 * (n \div 3) + (IF n % 3 = 0 THEN 0 ELSE (n % 3) + 1)

LEMMA PaddingIs ==
  ASSUME NEW n \in Nat
  PROVE  Padding(n) \in 0 .. 3 /\ (n + Padding(n)) % 4 = 0
  BY DEF Padding

LEMMA TextLengthIs ==
  ASSUME NEW n \in Nat
  PROVE  TextLength(n) \in Nat /\ TextLength(n) % 4 # 1
<1>1. n \div 3 \in Nat /\ n % 3 \in 0 .. 2
  OBVIOUS
<1> QED
  BY <1>1 DEF TextLength

LEMMA NopadIs ==
  ASSUME NEW in \in Seq(0 .. 255), NEW max_len \in Nat \ {0}
  PROVE  LET r == bin_to_b64_nopad(in, max_len)
         IN  \/ r.ret = -1
             \/ r.ret = TextLength(Len(in)) /\ r.ret \in 0 .. max_len - 1
<1>1. CASE in = <<>>
  BY <1>1 DEF bin_to_b64_nopad, TextLength
<1>2. CASE in # <<>> /\ max_len < TextLength(Len(in)) + 1
  BY <1>2 DEF bin_to_b64_nopad, TextLength, Refused
<1>3. CASE in # <<>> /\ ~(max_len < TextLength(Len(in)) + 1)
  <2>1. bin_to_b64_nopad(in, max_len).ret = TextLength(Len(in))
    BY <1>3 DEF bin_to_b64_nopad, TextLength
  <2>2. TextLength(Len(in)) \in Nat
    BY TextLengthIs
  <2> QED
    BY <1>3, <2>1, <2>2
<1> QED
  BY <1>1, <1>2, <1>3

\* Whatever is not refused leaves room for the terminator.
LEMMA TextFits ==
  ASSUME NEW in \in Seq(0 .. 255), NEW max_len \in Nat \ {0}
  PROVE  bin_to_b64(in, max_len).ret \in -1 .. max_len - 1
<1> DEFINE r == bin_to_b64_nopad(in, max_len)
<1>1. r.ret \in -1 .. max_len - 1
  BY NopadIs
<1>2. CASE r.ret = -1
  BY <1>2 DEF bin_to_b64
<1>3. CASE r.ret # -1
  <2> HIDE DEF r
  <2>1. Padding(r.ret) \in 0 .. 3
    BY <1>1, <1>3, PaddingIs
  <2>2. CASE Padding(r.ret) = 0
    BY <1>1, <2>2 DEF bin_to_b64, r
  <2>3. CASE Padding(r.ret) # 0 /\ ~(max_len > r.ret + Padding(r.ret) + 1)
    BY <1>3, <2>3 DEF bin_to_b64, r
  <2>4. CASE Padding(r.ret) # 0 /\ max_len > r.ret + Padding(r.ret) + 1
    <3>1. bin_to_b64(in, max_len).ret = r.ret + Padding(r.ret)
      BY <1>3, <2>4 DEF bin_to_b64, r
    <3> QED
      BY <1>1, <1>3, <2>1, <2>4, <3>1
  <2> QED
    BY <2>2, <2>3, <2>4
<1> QED
  BY <1>2, <1>3
-----------------------------------------------------------------------------
(***************************************************************************)
(* base64: the text of bytes is their bits, six by six.                    *)
(***************************************************************************)
\* The characters of the alphabet stand for their codes.
LEMMA CodeOfChar ==
  ASSUME NEW x \in 0 .. 63
  PROVE  code_to_char(x) \in Int /\ char_to_code(code_to_char(x)) = x
<1>1. CASE x <= 25
  <2> DEFINE c == 65 + x
  <2>1. ~(x \in 26 .. 51) /\ ~(x \in 52 .. 61) /\ x # 62 /\ x # 63
    BY <1>1, SMT
  <2>2. code_to_char(x) = c
    BY <1>1, <2>1, Zenon DEF code_to_char
  <2>3. /\ c \in 65 .. 90 /\ c \notin 97 .. 122 /\ c \notin 48 .. 57 /\ c # 43
        /\ c # 47
    BY <1>1, SMT
  <2>4. c \in Int /\ c - 65 = x
    BY SMT
  <2> HIDE DEF c
  <2>5. char_to_code(c) = c - 65
    BY <2>3, ZenonT(60) DEF char_to_code
  <2> QED
    BY <2>2, <2>4, <2>5, Zenon
<1>2. CASE x \in 26 .. 51
  <2> DEFINE c == 97 + (x - 26)
  <2>1. ~(x <= 25) /\ ~(x \in 52 .. 61) /\ x # 62 /\ x # 63
    BY <1>2, SMT
  <2>2. code_to_char(x) = c
    BY <1>2, <2>1, Zenon DEF code_to_char
  <2>3. /\ c \notin 65 .. 90 /\ c \in 97 .. 122 /\ c \notin 48 .. 57 /\ c # 43
        /\ c # 47
    BY <1>2, SMT
  <2>4. c \in Int /\ c - 97 + 26 = x
    BY SMT
  <2> HIDE DEF c
  <2>5. char_to_code(c) = c - 97 + 26
    BY <2>3, ZenonT(60) DEF char_to_code
  <2> QED
    BY <2>2, <2>4, <2>5, Zenon
<1>3. CASE x \in 52 .. 61
  <2> DEFINE c == 48 + (x - 52)
  <2>1. ~(x <= 25) /\ ~(x \in 26 .. 51) /\ x # 62 /\ x # 63
    BY <1>3, SMT
  <2>2. code_to_char(x) = c
    BY <1>3, <2>1, Zenon DEF code_to_char
  <2>3. /\ c \notin 65 .. 90 /\ c \notin 97 .. 122 /\ c \in 48 .. 57 /\ c # 43
        /\ c # 47
    BY <1>3, SMT
  <2>4. c \in Int /\ c - 48 + 52 = x
    BY SMT
  <2> HIDE DEF c
  <2>5. char_to_code(c) = c - 48 + 52
    BY <2>3, Zenon DEF char_to_code
  <2> QED
    BY <2>2, <2>4, <2>5, Zenon
<1>4. CASE x = 62
  <2>1. code_to_char(62) = 43
    <3>1. ~(62 <= 25) /\ ~(62 \in 26 .. 51) /\ ~(62 \in 52 .. 61) /\ 62 # 63
      BY SMT
    <3> QED
      BY <3>1, Zenon DEF code_to_char
  <2>2. char_to_code(43) = 62
    <3>1. /\ 43 \notin 65 .. 90 /\ 43 \notin 97 .. 122 /\ 43 \notin 48 .. 57
          /\ 43 # 47
      BY SMT
    <3> QED
      BY <3>1, Zenon DEF char_to_code
  <2>3. 43 \in Int
    BY SMT
  <2> QED
    BY <1>4, <2>1, <2>2, <2>3, Zenon
<1>5. CASE x = 63
  <2>1. code_to_char(63) = 47
    <3>1. ~(63 <= 25) /\ ~(63 \in 26 .. 51) /\ ~(63 \in 52 .. 61) /\ 63 # 62
      BY SMT
    <3> QED
      BY <3>1, Zenon DEF code_to_char
  <2>2. char_to_code(47) = 63
    <3>1. /\ 47 \notin 65 .. 90 /\ 47 \notin 97 .. 122 /\ 47 \notin 48 .. 57
          /\ 47 # 43
      BY SMT
    <3> QED
      BY <3>1, Zenon DEF char_to_code
  <2>3. 47 \in Int
    BY SMT
  <2> QED
    BY <1>5, <2>1, <2>2, <2>3, Zenon
<1>6. x <= 25 \/ x \in 26 .. 51 \/ x \in 52 .. 61 \/ x = 62 \/ x = 63
  BY SMT
<1> QED
  BY <1>1, <1>2, <1>3, <1>4, <1>5, <1>6, Zenon

\* The 24 bits of three bytes, and their four codes.
ThreeBytes(a, b, c) == 65536 * a + 256 * b + c

Shift(m) == <<262144, 4096, 64, 1>>[m + 1]

Sextets(a, b, c) ==
  <<a \div 4, (a % 4) * 16 + b \div 16, (b % 16) * 4 + c \div 64, c % 64>>

LEMMA SextetsAre ==
  ASSUME NEW a \in 0 .. 255, NEW b \in 0 .. 255, NEW c \in 0 .. 255,
         NEW m \in 0 .. 3
  PROVE  /\ (ThreeBytes(a, b, c) \div Shift(m)) % 64
              = Sextets(a, b, c)[m + 1]
         /\ Sextets(a, b, c)[m + 1] \in 0 .. 63
<1> DEFINE d == <<262144, 4096, 64, 1>>
           s == Sextets(a, b, c)
           x == ThreeBytes(a, b, c)
<1>1. d[1] = 262144 /\ d[2] = 4096 /\ d[3] = 64 /\ d[4] = 1
  BY SMT
<1>2. /\ s[1] = a \div 4 /\ s[2] = (a % 4) * 16 + b \div 16
      /\ s[3] = (b % 16) * 4 + c \div 64 /\ s[4] = c % 64
  BY SMT DEF Sextets
<1>3. /\ s[1] \in 0 .. 63 /\ s[2] \in 0 .. 63 /\ s[3] \in 0 .. 63
      /\ s[4] \in 0 .. 63
  BY <1>2, SMT
<1>4. (x \div 262144) % 64 = a \div 4
  BY SMT DEF ThreeBytes
<1>5. (x \div 4096) % 64 = (a % 4) * 16 + b \div 16
  <2> DEFINE bh == b \div 16
             bl == b % 16
  <2>1. b = 16 * bh + bl /\ bh \in 0 .. 15 /\ bl \in 0 .. 15
    BY SMT
  <2> HIDE DEF bh, bl
  <2>2. /\ x = 4096 * (16 * a + bh) + (256 * bl + c)
        /\ 256 * bl + c \in Int /\ 0 <= 256 * bl + c /\ 256 * bl + c < 4096
    BY <2>1, SMT DEF ThreeBytes
  <2> HIDE DEF x
  <2>3. x \div 4096 = 16 * a + bh
    BY <2>1, <2>2, SMT
  <2>4. (16 * a + bh) % 64 = (a % 4) * 16 + bh
    BY <2>1, SMT
  <2> QED
    BY <2>3, <2>4, SMT DEF bh
<1>6. (x \div 64) % 64 = (b % 16) * 4 + c \div 64
  BY SMT DEF ThreeBytes
<1>7. (x \div 1) % 64 = c % 64
  BY SMT DEF ThreeBytes
<1> HIDE DEF d, s, x
<1>8. /\ (x \div d[1]) % 64 = s[1] /\ (x \div d[2]) % 64 = s[2]
      /\ (x \div d[3]) % 64 = s[3] /\ (x \div d[4]) % 64 = s[4]
  BY <1>1, <1>2, <1>4, <1>5, <1>6, <1>7, SMT
<1>9. m + 1 = 1 \/ m + 1 = 2 \/ m + 1 = 3 \/ m + 1 = 4
  BY SMT
<1>10. (x \div d[m + 1]) % 64 = s[m + 1] /\ s[m + 1] \in 0 .. 63
  BY <1>3, <1>8, <1>9, SMT
<1> QED
  BY <1>10, SMT DEF x, d, s, Shift

LEMMA BitsOfFirst ==
  ASSUME NEW a \in 0 .. 255, NEW k \in 0 .. 5
  PROVE  Bit(a \div 4, k) = Bit(a, k + 2)
<1>1. Bit(a \div 4, 0) = Bit(a, 2) BY SMT DEF Bit
<1>2. Bit(a \div 4, 1) = Bit(a, 3) BY SMT DEF Bit
<1>3. Bit(a \div 4, 2) = Bit(a, 4) BY SMT DEF Bit
<1>4. Bit(a \div 4, 3) = Bit(a, 5) BY SMT DEF Bit
<1>5. Bit(a \div 4, 4) = Bit(a, 6) BY SMT DEF Bit
<1>6. Bit(a \div 4, 5) = Bit(a, 7) BY SMT DEF Bit
<1> QED
  BY <1>1, <1>2, <1>3, <1>4, <1>5, <1>6, SMT

LEMMA BitsOfSecond ==
  ASSUME NEW a \in 0 .. 255, NEW b \in 0 .. 255, NEW k \in 0 .. 5
  PROVE  Bit((a % 4) * 16 + b \div 16, k)
           = IF k < 4 THEN Bit(b, k + 4) ELSE Bit(a, k - 4)
<1> DEFINE x == (a % 4) * 16 + b \div 16
<1>1. Bit(x, 0) = Bit(b, 4) BY SMT DEF Bit
<1>2. Bit(x, 1) = Bit(b, 5) BY SMT DEF Bit
<1>3. Bit(x, 2) = Bit(b, 6) BY SMT DEF Bit
<1>4. Bit(x, 3) = Bit(b, 7) BY SMT DEF Bit
<1>5. Bit(x, 4) = Bit(a, 0) BY SMT DEF Bit
<1>6. Bit(x, 5) = Bit(a, 1) BY SMT DEF Bit
<1> HIDE DEF x
<1>7. Bit(x, k) = IF k < 4 THEN Bit(b, k + 4) ELSE Bit(a, k - 4)
  BY <1>1, <1>2, <1>3, <1>4, <1>5, <1>6, SMT
<1> QED
  BY <1>7, Zenon DEF x

LEMMA BitsOfThird ==
  ASSUME NEW b \in 0 .. 255, NEW c \in 0 .. 255, NEW k \in 0 .. 5
  PROVE  Bit((b % 16) * 4 + c \div 64, k)
           = IF k < 2 THEN Bit(c, k + 6) ELSE Bit(b, k - 2)
<1> DEFINE x == (b % 16) * 4 + c \div 64
<1>1. Bit(x, 0) = Bit(c, 6) BY SMT DEF Bit
<1>2. Bit(x, 1) = Bit(c, 7) BY SMT DEF Bit
<1>3. Bit(x, 2) = Bit(b, 0) BY SMT DEF Bit
<1>4. Bit(x, 3) = Bit(b, 1) BY SMT DEF Bit
<1>5. Bit(x, 4) = Bit(b, 2) BY SMT DEF Bit
<1>6. Bit(x, 5) = Bit(b, 3) BY SMT DEF Bit
<1> HIDE DEF x
<1>7. Bit(x, k) = IF k < 2 THEN Bit(c, k + 6) ELSE Bit(b, k - 2)
  BY <1>1, <1>2, <1>3, <1>4, <1>5, <1>6, SMT
<1> QED
  BY <1>7, Zenon DEF x

LEMMA BitsOfFourth ==
  ASSUME NEW c \in 0 .. 255, NEW k \in 0 .. 5
  PROVE  Bit(c % 64, k) = Bit(c, k)
<1>1. Bit(c % 64, 0) = Bit(c, 0) BY SMT DEF Bit
<1>2. Bit(c % 64, 1) = Bit(c, 1) BY SMT DEF Bit
<1>3. Bit(c % 64, 2) = Bit(c, 2) BY SMT DEF Bit
<1>4. Bit(c % 64, 3) = Bit(c, 3) BY SMT DEF Bit
<1>5. Bit(c % 64, 4) = Bit(c, 4) BY SMT DEF Bit
<1>6. Bit(c % 64, 5) = Bit(c, 5) BY SMT DEF Bit
<1> QED
  BY <1>1, <1>2, <1>3, <1>4, <1>5, <1>6, SMT

\* The i-th bit of bytes, counted from 0, or 0 beyond the end.
BitAt(in, i) == Bit(At(in, i \div 8), 7 - (i % 8))

LEMMA AtIsByte ==
  ASSUME NEW in \in Seq(0 .. 255), NEW k \in Nat
  PROVE  At(in, k) \in 0 .. 255
<1>1. CASE k < Len(in)
  <2>1. At(in, k) = in[k + 1]
    BY <1>1, Zenon DEF At
  <2>2. k + 1 \in 1 .. Len(in)
    BY <1>1, SMT
  <2> QED
    BY <2>1, <2>2, ElementOfSeq, SMT
<1>2. CASE ~(k < Len(in))
  <2>1. At(in, k) = 0
    BY <1>2, Zenon DEF At
  <2> QED
    BY <2>1, SMT
<1> QED
  BY <1>1, <1>2

LEMMA SextetBits ==
  ASSUME NEW in \in Seq(0 .. 255), NEW q \in Nat, NEW m \in 0 .. 3,
         NEW k \in 0 .. 5
  PROVE  Bit(Sextets(At(in, 3 * q), At(in, 3 * q + 1),
                     At(in, 3 * q + 2))[m + 1], k)
           = BitAt(in, 24 * q + 6 * m + 5 - k)
<1> DEFINE a == At(in, 3 * q)
           b == At(in, 3 * q + 1)
           c == At(in, 3 * q + 2)
           s == Sextets(a, b, c)
           i == 24 * q + 6 * m + 5 - k
<1> SUFFICES Bit(s[m + 1], k) = BitAt(in, i)
  OBVIOUS
<1>1. a \in 0 .. 255 /\ b \in 0 .. 255 /\ c \in 0 .. 255
  <2>1. 3 * q \in Nat /\ 3 * q + 1 \in Nat /\ 3 * q + 2 \in Nat
    BY SMT
  <2> QED
    BY <2>1, AtIsByte, SMTT(30)
<1>2. BitAt(in, i) = Bit(At(in, i \div 8), 7 - (i % 8))
  BY Zenon DEF BitAt
<1>3. /\ s[1] = a \div 4 /\ s[2] = (a % 4) * 16 + b \div 16
      /\ s[3] = (b % 16) * 4 + c \div 64 /\ s[4] = c % 64
  BY SMT DEF Sextets
<1> HIDE DEF s
<1>4. CASE m = 0
  <2>1. m + 1 = 1 /\ i \div 8 = 3 * q /\ 7 - (i % 8) = k + 2
    BY <1>4, SMT
  <2>2. Bit(a \div 4, k) = Bit(a, k + 2)
    BY <1>1, BitsOfFirst, Zenon
  <2> HIDE DEF i
  <2> QED
    BY <1>2, <1>3, <2>1, <2>2, Zenon
<1>5. CASE m = 1 /\ k < 4
  <2>1. m + 1 = 2 /\ i \div 8 = 3 * q + 1 /\ 7 - (i % 8) = k + 4
    BY <1>5, SMT
  <2>2. Bit((a % 4) * 16 + b \div 16, k) = Bit(b, k + 4)
    BY <1>1, <1>5, BitsOfSecond, Zenon
  <2> HIDE DEF i
  <2> QED
    BY <1>2, <1>3, <2>1, <2>2, Zenon
<1>6. CASE m = 1 /\ ~(k < 4)
  <2>1. m + 1 = 2 /\ i \div 8 = 3 * q /\ 7 - (i % 8) = k - 4
    BY <1>6, SMT
  <2>2. Bit((a % 4) * 16 + b \div 16, k) = Bit(a, k - 4)
    BY <1>1, <1>6, BitsOfSecond, Zenon
  <2> HIDE DEF i
  <2> QED
    BY <1>2, <1>3, <2>1, <2>2, Zenon
<1>7. CASE m = 2 /\ k < 2
  <2>1. m + 1 = 3 /\ i \div 8 = 3 * q + 2 /\ 7 - (i % 8) = k + 6
    BY <1>7, SMT
  <2>2. Bit((b % 16) * 4 + c \div 64, k) = Bit(c, k + 6)
    BY <1>1, <1>7, BitsOfThird, ZenonT(60)
  <2> HIDE DEF i
  <2> QED
    BY <1>2, <1>3, <2>1, <2>2, Zenon
<1>8. CASE m = 2 /\ ~(k < 2)
  <2>1. m + 1 = 3 /\ i \div 8 = 3 * q + 1 /\ 7 - (i % 8) = k - 2
    BY <1>8, SMT
  <2>2. Bit((b % 16) * 4 + c \div 64, k) = Bit(b, k - 2)
    BY <1>1, <1>8, BitsOfThird, ZenonT(60)
  <2> HIDE DEF i
  <2> QED
    BY <1>2, <1>3, <2>1, <2>2, Zenon
<1>9. CASE m = 3
  <2>1. m + 1 = 4 /\ i \div 8 = 3 * q + 2 /\ 7 - (i % 8) = k
    BY <1>9, SMT
  <2>2. Bit(c % 64, k) = Bit(c, k)
    BY <1>1, BitsOfFourth, Zenon
  <2> HIDE DEF i
  <2> QED
    BY <1>2, <1>3, <2>1, <2>2, Zenon
<1>10. m = 0 \/ m = 1 \/ m = 2 \/ m = 3
  BY SMT
<1> QED
  BY <1>4, <1>5, <1>6, <1>7, <1>8, <1>9, <1>10, Zenon

LEMMA BitOfZero ==
  ASSUME NEW k \in 0 .. 7
  PROVE  Bit(0, k) = 0
<1>1. Bit(0, 0) = 0 /\ Bit(0, 1) = 0 /\ Bit(0, 2) = 0 /\ Bit(0, 3) = 0
  BY SMT DEF Bit
<1>2. Bit(0, 4) = 0 /\ Bit(0, 5) = 0 /\ Bit(0, 6) = 0 /\ Bit(0, 7) = 0
  BY SMT DEF Bit
<1> QED
  BY <1>1, <1>2, SMT

LEMMA BitsOfIs ==
  ASSUME NEW in \in Seq(0 .. 255), NEW i \in Nat \ {0}
  PROVE  (IF i <= Len(BitsOf(in)) THEN BitsOf(in)[i] ELSE 0) = BitAt(in, i - 1)
<1> DEFINE l == Len(in)
           bit(j) == Bit(in[(j - 1) \div 8 + 1], 7 - ((j - 1) % 8))
           bits == [j \in 1 .. 8 * l |-> bit(j)]
           S == {bit(j) : j \in 1 .. 8 * l}
           u == BitsOf(in)
<1> SUFFICES (IF i <= Len(u) THEN u[i] ELSE 0) = BitAt(in, i - 1)
  OBVIOUS
<1>1. l \in Nat /\ 8 * l \in Nat
  BY SMT
<1>2. u = bits
  BY Zenon DEF BitsOf
<1> HIDE DEF bit, u
<1>3. bits \in [1 .. 8 * l -> S]
  BY Zenon
<1> HIDE DEF S
<1>4. Len(bits) = 8 * l
  <2> DEFINE n == 8 * l
  <2> HIDE DEF n
  <2>1. n \in Nat /\ bits = [j \in 1 .. n |-> bit(j)]
    BY <1>1, Zenon DEF n
  <2> HIDE DEF bits
  <2>2. bits \in [1 .. n -> S]
    BY <1>3, Zenon DEF n
  <2>3. Len(bits) = n
    BY <2>1, <2>2, SMT
  <2> QED
    BY <2>3, Zenon DEF n
<1>5. CASE i <= 8 * l
  <2>1. i \in 1 .. 8 * l /\ i - 1 \in Nat /\ (i - 1) \div 8 < l
    BY <1>1, <1>5, SMT
  <2>2. bits[i] = bit(i)
    BY <2>1, Zenon
  <2>3. bit(i) = BitAt(in, i - 1)
    <3>1. At(in, (i - 1) \div 8) = in[(i - 1) \div 8 + 1]
      BY <2>1, Zenon DEF At
    <3>2. bit(i) = Bit(in[(i - 1) \div 8 + 1], 7 - ((i - 1) % 8))
      BY Zenon DEF bit
    <3>3. BitAt(in, i - 1) = Bit(At(in, (i - 1) \div 8), 7 - ((i - 1) % 8))
      BY Zenon DEF BitAt
    <3> DEFINE o == 7 - ((i - 1) % 8)
               x == in[(i - 1) \div 8 + 1]
               y == At(in, (i - 1) \div 8)
    <3>4. x = y /\ bit(i) = Bit(x, o) /\ BitAt(in, i - 1) = Bit(y, o)
      BY <3>1, <3>2, <3>3, Zenon
    <3> HIDE DEF o, x, y
    <3> QED
      BY <3>4, Zenon
  <2>4. Len(u) = 8 * l /\ u[i] = BitAt(in, i - 1)
    BY <1>2, <1>4, <2>2, <2>3, Zenon
  <2> HIDE DEF bits, l
  <2> QED
    BY <1>5, <2>4, SMT
<1>6. CASE ~(i <= 8 * l)
  <2>1. ~((i - 1) \div 8 < l) /\ 7 - ((i - 1) % 8) \in 0 .. 7
    BY <1>1, <1>6, SMT
  <2>2. BitAt(in, i - 1) = 0
    <3>1. At(in, (i - 1) \div 8) = 0
      BY <2>1, Zenon DEF At
    <3>2. BitAt(in, i - 1) = Bit(At(in, (i - 1) \div 8), 7 - ((i - 1) % 8))
      BY Zenon DEF BitAt
    <3> DEFINE o == 7 - ((i - 1) % 8)
    <3>3. o \in 0 .. 7 /\ BitAt(in, i - 1) = Bit(0, o)
      BY <2>1, <3>1, <3>2, Zenon
    <3> HIDE DEF o
    <3> QED
      BY <3>3, BitOfZero, Zenon
  <2>3. Len(u) = 8 * l
    BY <1>2, <1>4, Zenon
  <2> HIDE DEF bits, l
  <2> QED
    BY <1>6, <2>2, <2>3, SMT
<1> QED
  BY <1>5, <1>6, Zenon

\* The j-th character of a text, counted from 0, and all of them.
Char(in, j) ==
  code_to_char((Bytes24(in, j \div 4)
                  \div <<262144, 4096, 64, 1>>[(j % 4) + 1]) % 64)

Chars(in) == [j \in 1 .. TextLength(Len(in)) |-> Char(in, j - 1)]

Pads(n) == [k \in 1 .. n |-> code_pad]

LEMMA CharIsSextet ==
  ASSUME NEW in \in Seq(0 .. 255), NEW q \in Nat, NEW m \in 0 .. 3
  PROVE  LET x == Sextets(At(in, 3 * q), At(in, 3 * q + 1),
                          At(in, 3 * q + 2))[m + 1]
         IN  Char(in, 4 * q + m) = code_to_char(x) /\ x \in 0 .. 63
<1> DEFINE a == At(in, 3 * q)
           b == At(in, 3 * q + 1)
           c == At(in, 3 * q + 2)
           d == Shift(m)
           j == 4 * q + m
<1>1. a \in 0 .. 255 /\ b \in 0 .. 255 /\ c \in 0 .. 255
  <2>1. 3 * q \in Nat /\ 3 * q + 1 \in Nat /\ 3 * q + 2 \in Nat
    BY SMT
  <2> QED
    BY <2>1, AtIsByte, SMTT(30)
<1>2. j \div 4 = q /\ j % 4 = m
  BY SMT
<1>3. Bytes24(in, q) = ThreeBytes(a, b, c)
  BY SMT DEF Bytes24, ThreeBytes
<1>4. Char(in, j) = code_to_char((Bytes24(in, j \div 4) \div Shift(j % 4)) % 64)
  BY SMT DEF Char, Shift
<1>5. /\ (ThreeBytes(a, b, c) \div d) % 64 = Sextets(a, b, c)[m + 1]
      /\ Sextets(a, b, c)[m + 1] \in 0 .. 63
  <2> HIDE DEF a, b, c
  <2> QED
    BY <1>1, SextetsAre, Zenon
<1> HIDE DEF a, b, c, j
<1>6. Char(in, j) = code_to_char(Sextets(a, b, c)[m + 1])
  BY <1>2, <1>3, <1>4, <1>5, Zenon
<1> QED
  BY <1>5, <1>6, Zenon DEF a, b, c, j

LEMMA CharsAre ==
  ASSUME NEW in \in Seq(0 .. 255)
  PROVE  /\ Chars(in) \in Seq(Int) /\ Len(Chars(in)) = TextLength(Len(in))
         /\ \A j \in 1 .. TextLength(Len(in)) : Chars(in)[j] = Char(in, j - 1)
<1> DEFINE n == TextLength(Len(in))
<1>1. n \in Nat
  BY TextLengthIs, SMT
<1> HIDE DEF n
<1>2. Chars(in) = [j \in 1 .. n |-> Char(in, j - 1)]
  BY Zenon DEF Chars, n
<1>3. ASSUME NEW j \in 1 .. n PROVE Char(in, j - 1) \in Int
  <2> DEFINE q == (j - 1) \div 4
             m == (j - 1) % 4
             x == Sextets(At(in, 3 * q), At(in, 3 * q + 1),
                          At(in, 3 * q + 2))[m + 1]
             i == 4 * q + m
  <2>1. q \in Nat /\ m \in 0 .. 3 /\ i = j - 1
    BY <1>1, SMT
  <2> HIDE DEF q, m
  <2>2. Char(in, i) = code_to_char(x) /\ x \in 0 .. 63
    BY <2>1, CharIsSextet, Zenon
  <2> HIDE DEF i, x
  <2> QED
    BY <2>1, <2>2, CodeOfChar, Zenon
<1>4. Chars(in) \in Seq(Int)
  BY <1>1, <1>2, <1>3, SMT
<1>5. Len(Chars(in)) = n
  BY <1>1, <1>2, SMT
<1> QED
  BY <1>2, <1>4, <1>5, Zenon DEF n

LEMMA PadsAre ==
  ASSUME NEW n \in Nat
  PROVE  /\ Pads(n) \in Seq(Int) /\ Len(Pads(n)) = n
         /\ \A k \in 1 .. n : Pads(n)[k] = code_pad
  BY SMT DEF Pads, code_pad

LEMMA NopadOut ==
  ASSUME NEW in \in Seq(0 .. 255), NEW max_len \in Nat \ {0}
  PROVE  LET r == bin_to_b64_nopad(in, max_len)
         IN  \/ r.ret = -1
             \/ r.ret = TextLength(Len(in)) /\ r.out = Append(Chars(in), 0)
<1> DEFINE r == bin_to_b64_nopad(in, max_len)
           n == TextLength(Len(in))
           rest == Len(in) % 3
           length == 4 * (Len(in) \div 3) + (IF rest = 0 THEN 0 ELSE rest + 1)
           text == [j \in 1 .. length |->
                      code_to_char((Bytes24(in, (j - 1) \div 4) \div
                       <<262144, 4096, 64, 1>>[((j - 1) % 4) + 1]) % 64)]
<1>1. CASE in = <<>>
  <2>1. r = [ret |-> 0, out |-> <<0>>]
    BY <1>1, SMT DEF bin_to_b64_nopad
  <2>2. n = 0
    BY <1>1, SMT DEF TextLength
  <2>3. Chars(in) = <<>>
    BY <2>2, CharsAre, SMT
  <2>4. Append(Chars(in), 0) = <<0>>
    BY <2>3, SMT
  <2> HIDE DEF r
  <2> QED
    BY <2>1, <2>2, <2>4, SMT DEF r
<1>2. CASE in # <<>>
  <2>1. length = n
    BY Zenon DEF TextLength
  <2>2. text = Chars(in)
    BY SMT DEF TextLength, Chars, Char
  <2>3. r = IF max_len < length + 1 THEN Refused
            ELSE [ret |-> length, out |-> Append(text, 0)]
    BY <1>2, SMT DEF bin_to_b64_nopad
  <2> HIDE DEF r, n, text, length
  <2>4. CASE max_len < length + 1
    BY <2>3, <2>4, SMT DEF Refused, r
  <2>5. CASE ~(max_len < length + 1)
    BY <2>1, <2>2, <2>3, <2>5, SMT DEF n, r
  <2> QED
    BY <2>4, <2>5, Zenon
<1> QED
  BY <1>1, <1>2, Zenon

\* What bin_to_b64 writes before the terminator: the characters, filled up.
LEMMA TextIs ==
  ASSUME NEW in \in Seq(0 .. 255), NEW max_len \in Nat \ {0},
         bin_to_b64(in, max_len).ret >= 0
  PROVE  LET t == bin_to_b64(in, max_len)
         IN  SubSeq(t.out, 1, t.ret)
               = Chars(in) \o Pads(Padding(TextLength(Len(in))))
<1> DEFINE r == bin_to_b64_nopad(in, max_len)
           t == bin_to_b64(in, max_len)
           n == TextLength(Len(in))
           pad == Padding(r.ret)
           chars == Chars(in)
           end == <<0>>
<1>1. n \in Nat /\ chars \in Seq(Int) /\ Len(chars) = n
  <2>1. Len(in) \in Nat
    BY SMT
  <2> QED
    BY <2>1, TextLengthIs, CharsAre, Zenon
<1>2. t = IF r.ret = -1 \/ pad = 0 THEN r
          ELSE IF ~(max_len > r.ret + pad + 1) THEN [r EXCEPT !.ret = -1]
          ELSE [ret |-> r.ret + pad,
                out |-> SubSeq(r.out, 1, r.ret) \o Pads(pad) \o end]
  BY Zenon DEF bin_to_b64, Pads
<1>3. \/ r.ret = -1
      \/ r.ret = n /\ r.out = Append(chars, 0)
  BY NopadOut, Zenon
<1>4. r.ret # -1
  <2>1. t.ret >= 0
    OBVIOUS
  <2> HIDE DEF t, r, pad
  <2>2. SUFFICES ASSUME r.ret = -1 PROVE FALSE
    OBVIOUS
  <2>3. t = r
    BY <1>2, <2>2, Zenon
  <2> QED
    BY <2>1, <2>2, <2>3, SMT
<1>5. r.ret = n /\ r.out = Append(chars, 0)
  BY <1>3, <1>4, Zenon
<1>6. SubSeq(r.out, 1, r.ret) = chars
  <2>1. end \in Seq(Int) /\ Append(chars, 0) = chars \o end
    <3> HIDE DEF chars
    <3> QED
      BY <1>1, AppendIsConcat, SMT
  <2>2. SubSeq(chars \o end, 1, n) = SubSeq(chars, 1, n)
    <3> HIDE DEF chars, end, n
    <3>1. 1 \in 1 .. Len(chars) + 1 /\ n \in 1 - 1 .. Len(chars)
      BY <1>1, SMT
    <3> QED
      BY <1>1, <2>1, <3>1, SubSeqOfConcat1, SMT
  <2>3. SubSeq(chars, 1, n) = chars
    BY <1>1, SubSeqFull, SMT
  <2> QED
    BY <1>5, <2>1, <2>2, <2>3, Zenon
<1>7. pad = Padding(n) /\ pad \in 0 .. 3
  <2>1. pad = Padding(n)
    BY <1>5, Zenon
  <2> HIDE DEF n, pad
  <2> QED
    BY <1>1, <2>1, PaddingIs, Zenon
<1>8. Pads(pad) \in Seq(Int) /\ Len(Pads(pad)) = pad
  <2> HIDE DEF pad
  <2>1. pad \in Nat
    BY <1>7, SMT
  <2> QED
    BY <2>1, PadsAre, Zenon
<1>9. CASE pad = 0
  <2>1. t = r
    <3> HIDE DEF t, r, pad
    <3> QED
      BY <1>2, <1>9, Zenon
  <2>2. Pads(pad) = <<>>
    <3> HIDE DEF pad
    <3> QED
      BY <1>8, <1>9, EmptySeq, SMT
  <2>3. chars \o Pads(pad) = chars
    <3> HIDE DEF pad, chars
    <3> QED
      BY <1>1, <2>2, ConcatEmptySeq, SMT
  <2>4. SubSeq(t.out, 1, t.ret) = chars
    BY <1>6, <2>1, Zenon
  <2> HIDE DEF t, r, pad, n, chars
  <2>5. SubSeq(t.out, 1, t.ret) = chars \o Pads(Padding(n))
    BY <1>7, <2>3, <2>4, Zenon
  <2> QED
    BY <2>5, Zenon DEF t, n, chars
<1>10. CASE pad # 0
  <2> DEFINE whole == chars \o Pads(pad)
  <2>1. ~(~(max_len > r.ret + pad + 1))
    <3> HIDE DEF r, pad
    <3>1. t.ret >= 0
      OBVIOUS
    <3> HIDE DEF t
    <3>2. SUFFICES ASSUME ~(max_len > r.ret + pad + 1) PROVE FALSE
      OBVIOUS
    <3>3. t = [r EXCEPT !.ret = -1]
      BY <1>2, <1>4, <1>10, <3>2, Zenon
    <3>4. t.ret = -1 \/ "ret" \notin DOMAIN r
      BY <3>3, SMT
    <3> QED
      BY <3>1, <3>3, <3>4, SMT
  <2>2. t = [ret |-> r.ret + pad,
             out |-> SubSeq(r.out, 1, r.ret) \o Pads(pad) \o end]
    <3> HIDE DEF t, r, pad
    <3> QED
      BY <1>2, <1>4, <1>10, <2>1, Zenon
  <2>3. t.ret = n + pad /\ t.out = whole \o end
    <3> DEFINE head == SubSeq(r.out, 1, r.ret)
    <3>1. /\ t = [ret |-> r.ret + pad, out |-> (head \o Pads(pad)) \o end]
          /\ head = chars /\ r.ret = n
      BY <1>5, <1>6, <2>2, Zenon
    <3> HIDE DEF head, t, r, pad, n, chars, end
    <3> QED
      BY <3>1, SMT
  <2>4. whole \in Seq(Int) /\ Len(whole) = n + pad
    <3> HIDE DEF pad, n, chars
    <3> QED
      BY <1>1, <1>7, <1>8, ConcatProperties, SMT
  <2>5. SubSeq(whole \o end, 1, n + pad) = whole
    <3> HIDE DEF pad, n, whole
    <3>1. end \in Seq(Int) /\ n + pad \in Nat
      BY <1>1, <1>7, SMT
    <3>2. 1 \in 1 .. Len(whole) + 1 /\ n + pad \in 1 - 1 .. Len(whole)
      BY <2>4, <3>1, SMT
    <3> HIDE DEF end
    <3>3. SubSeq(whole \o end, 1, n + pad) = SubSeq(whole, 1, n + pad)
      BY <2>4, <3>1, <3>2, SubSeqOfConcat1, SMT
    <3>4. SubSeq(whole, 1, n + pad) = whole
      BY <2>4, SubSeqFull, SMT
    <3> QED
      BY <3>3, <3>4, Zenon
  <2> HIDE DEF t, r, pad, n, chars
  <2>6. SubSeq(t.out, 1, t.ret) = chars \o Pads(Padding(n))
    BY <1>7, <2>3, <2>5, Zenon
  <2> QED
    BY <2>6, Zenon DEF t, n, chars
<1> QED
  BY <1>9, <1>10, Zenon

LEMMA TextLengthInSextets ==
  ASSUME NEW n \in Nat
  PROVE  (8 * n + 5) \div 6 = TextLength(n)
<1> DEFINE q == n \div 3
           r == n % 3
<1>1. q \in Nat /\ n = 3 * q + r
  BY SMT
<1>2. r = 0 \/ r = 1 \/ r = 2
  BY SMT
<1>3. TextLength(n) = 4 * q + (IF r = 0 THEN 0 ELSE r + 1)
  BY Zenon DEF TextLength
<1> HIDE DEF q, r
<1>4. CASE r = 0
  <2>1. TextLength(n) = 4 * q
    BY <1>1, <1>3, <1>4, SMT
  <2> QED
    BY <1>1, <1>4, <2>1, SMT
<1>5. CASE r = 1
  <2>1. TextLength(n) = 4 * q + 2
    BY <1>1, <1>3, <1>5, SMT
  <2> QED
    BY <1>1, <1>5, <2>1, SMT
<1>6. CASE r = 2
  <2>1. TextLength(n) = 4 * q + 3
    BY <1>1, <1>3, <1>6, SMT
  <2> QED
    BY <1>1, <1>6, <2>1, SMT
<1> QED
  BY <1>2, <1>4, <1>5, <1>6, Zenon

LEMMA PaddedLength ==
  ASSUME NEW n \in Nat
  PROVE  4 * ((n + 3) \div 4) = n + Padding(n)
<1>1. CASE n % 4 = 0
  <2>1. Padding(n) = 0
    BY <1>1, Zenon DEF Padding
  <2> QED
    BY <1>1, <2>1, SMT
<1>2. CASE n % 4 # 0
  <2>1. Padding(n) = 4 - (n % 4)
    BY <1>2, Zenon DEF Padding
  <2> QED
    BY <1>2, <2>1, SMT
<1> QED
  BY <1>1, <1>2, Zenon

\* The characters of bytes are their base64 form.
LEMMA CharsEncode ==
  ASSUME NEW in \in Seq(0 .. 255)
  PROVE  Encodes(Chars(in) \o Pads(Padding(TextLength(Len(in)))), in)
<1> DEFINE n == TextLength(Len(in))
           pad == Padding(n)
           chars == Chars(in)
           pads == Pads(pad)
           text == chars \o pads
           bits == BitsOf(in)
           bit(i) == IF i <= Len(bits) THEN bits[i] ELSE 0
<1>1. n \in Nat
  <2>1. Len(in) \in Nat
    BY SMT
  <2> QED
    BY <2>1, TextLengthIs, Zenon
<1>2. n = (8 * Len(in) + 5) \div 6
  <2>1. Len(in) \in Nat
    BY SMT
  <2> QED
    BY <2>1, TextLengthInSextets, Zenon
<1>3. /\ chars \in Seq(Int) /\ Len(chars) = n
      /\ \A j \in 1 .. n : chars[j] = Char(in, j - 1)
  BY CharsAre, Zenon
<1>4. pad \in 0 .. 3 /\ 4 * ((n + 3) \div 4) = n + pad
  <2> HIDE DEF n
  <2> QED
    BY <1>1, PaddingIs, PaddedLength, Zenon
<1>5. /\ pads \in Seq(Int) /\ Len(pads) = pad
      /\ \A k \in 1 .. pad : pads[k] = code_pad
  <2> HIDE DEF pad
  <2>1. pad \in Nat
    BY <1>4, SMT
  <2> QED
    BY <2>1, PadsAre, Zenon
<1>6. /\ Len(text) = n + pad
      /\ \A j \in 1 .. n + pad :
           text[j] = IF j <= n THEN chars[j] ELSE pads[j - n]
  <2> HIDE DEF n, pad, chars, pads
  <2> QED
    BY <1>1, <1>3, <1>4, <1>5, ConcatProperties, SMT
<1>7. ASSUME NEW j \in n + 1 .. Len(text) PROVE text[j] = code_pad
  <2> HIDE DEF n, pad, chars, pads, text
  <2>1. j \in 1 .. n + pad /\ ~(j <= n) /\ j - n \in 1 .. pad
    BY <1>1, <1>4, <1>6, SMT
  <2>2. text[j] = pads[j - n]
    BY <1>6, <2>1, Zenon
  <2> QED
    BY <1>5, <2>1, <2>2, Zenon
<1>8. ASSUME NEW j \in 1 .. n, NEW k \in 0 .. 5
      PROVE  /\ char_to_code(text[j]) \in 0 .. 63
             /\ Bit(char_to_code(text[j]), k) = bit(6 * (j - 1) + 6 - k)
  <2> DEFINE q == (j - 1) \div 4
             m == (j - 1) % 4
             x == Sextets(At(in, 3 * q), At(in, 3 * q + 1),
                          At(in, 3 * q + 2))[m + 1]
             i == 6 * (j - 1) + 6 - k
             h == 24 * q + 6 * m + 5 - k
             l == 4 * q + m
  <2>1. /\ j \in 1 .. n + pad /\ j <= n /\ q \in Nat /\ m \in 0 .. 3
        /\ i \in Nat \ {0} /\ h = i - 1 /\ l = j - 1
    <3> HIDE DEF n, pad
    <3> QED
      BY <1>1, <1>4, SMT
  <2>2. text[j] = Char(in, j - 1)
    <3> HIDE DEF n, pad, chars, pads, text
    <3> QED
      BY <1>3, <1>6, <2>1, Zenon
  <2> HIDE DEF q, m, n
  <2>3. Char(in, l) = code_to_char(x) /\ x \in 0 .. 63
    BY <2>1, CharIsSextet, Zenon
  <2>4. Bit(x, k) = BitAt(in, h)
    BY <2>1, SextetBits, ZenonT(60)
  <2> HIDE DEF h, l, x, text
  <2>5. char_to_code(text[j]) = x
    BY <2>1, <2>2, <2>3, CodeOfChar, Zenon
  <2> HIDE DEF i
  <2>6. bit(i) = BitAt(in, i - 1)
    BY <2>1, BitsOfIs, Zenon
  <2> HIDE DEF bit
  <2>7. Bit(char_to_code(text[j]), k) = bit(i)
    BY <2>1, <2>4, <2>5, <2>6, Zenon
  <2> QED
    BY <2>3, <2>5, <2>7, Zenon DEF i
<1>9. Len(text) = 4 * ((n + 3) \div 4)
  <2> HIDE DEF n, pad, text
  <2> QED
    BY <1>4, <1>6, Zenon
<1>10. Encodes(text, in)
  <2>1. \A j \in 1 .. n, k \in 0 .. 5 :
          Bit(char_to_code(text[j]), k) = bit(6 * (j - 1) + 6 - k)
    BY <1>8, Zenon
  <2>2. \A j \in 1 .. n : char_to_code(text[j]) \in 0 .. 63
    <3>1. 0 \in 0 .. 5
      BY SMT
    <3> QED
      BY <1>8, <3>1, Zenon
  <2> HIDE DEF n, text
  <2> QED
    BY <1>2, <1>7, <1>9, <2>1, <2>2, Zenon DEF Encodes
<1> QED
  BY <1>10, Zenon
-----------------------------------------------------------------------------
(***************************************************************************)
(* base64: the bytes of a text come back, if they fit.                     *)
(***************************************************************************)
LEMMA SumOfBits ==
  ASSUME NEW x \in 0 .. 63
  PROVE  x = Bit(x, 0) + 2 * Bit(x, 1) + 4 * Bit(x, 2) + 8 * Bit(x, 3)
               + 16 * Bit(x, 4) + 32 * Bit(x, 5)
  BY SMT DEF Bit

LEMMA SameBits ==
  ASSUME NEW x \in 0 .. 63, NEW y \in 0 .. 63,
         \A k \in 0 .. 5 : Bit(x, k) = Bit(y, k)
  PROVE  x = y
<1>1. /\ Bit(x, 0) = Bit(y, 0) /\ Bit(x, 1) = Bit(y, 1) /\ Bit(x, 2) = Bit(y, 2)
      /\ Bit(x, 3) = Bit(y, 3) /\ Bit(x, 4) = Bit(y, 4) /\ Bit(x, 5) = Bit(y, 5)
  BY SMT
<1>2. y = Bit(y, 0) + 2 * Bit(y, 1) + 4 * Bit(y, 2) + 8 * Bit(y, 3)
            + 16 * Bit(y, 4) + 32 * Bit(y, 5)
  BY SumOfBits, Zenon
<1>3. x = Bit(x, 0) + 2 * Bit(x, 1) + 4 * Bit(x, 2) + 8 * Bit(x, 3)
            + 16 * Bit(x, 4) + 32 * Bit(x, 5)
  BY SumOfBits, Zenon
<1> QED
  BY <1>1, <1>2, <1>3, Zenon

LEMMA PadHasNoCode == char_to_code(code_pad) \notin 0 .. 63
<1>1. /\ code_pad \notin 65 .. 90 /\ code_pad \notin 97 .. 122
      /\ code_pad \notin 48 .. 57 /\ code_pad # 43 /\ code_pad # 47
  BY SMT DEF code_pad
<1>2. char_to_code(code_pad) = EXIT
  BY <1>1, Zenon DEF char_to_code
<1>3. EXIT \notin 0 .. 63
  BY SMT DEF EXIT
<1> QED
  BY <1>2, <1>3, Zenon

\* The code of the j-th character, counted from 0, of the text of bytes.
Code(in, j) ==
  Sextets(At(in, 3 * (j \div 4)), At(in, 3 * (j \div 4) + 1),
          At(in, 3 * (j \div 4) + 2))[(j % 4) + 1]

LEMMA CodeIsSextet ==
  ASSUME NEW in \in Seq(0 .. 255), NEW j \in Nat
  PROVE  /\ Code(in, j) \in 0 .. 63
         /\ \A k \in 0 .. 5 : Bit(Code(in, j), k) = BitAt(in, 6 * j + 5 - k)
<1> DEFINE q == j \div 4
           m == j % 4
           x == Sextets(At(in, 3 * q), At(in, 3 * q + 1),
                        At(in, 3 * q + 2))[m + 1]
<1>1. Code(in, j) = x
  BY Zenon DEF Code
<1>2. q \in Nat /\ m \in 0 .. 3
  BY SMT
<1> HIDE DEF q, m
<1>3. x \in 0 .. 63
  BY <1>2, CharIsSextet, Zenon
<1>4. ASSUME NEW k \in 0 .. 5 PROVE Bit(x, k) = BitAt(in, 6 * j + 5 - k)
  <2> DEFINE h == 24 * q + 6 * m + 5 - k
             i == 6 * j + 5 - k
  <2>1. h = i
    BY SMT DEF q, m
  <2>2. Bit(x, k) = BitAt(in, h)
    BY <1>2, SextetBits, Zenon
  <2> HIDE DEF h, i, x
  <2>3. Bit(x, k) = BitAt(in, i)
    BY <2>1, <2>2, Zenon
  <2> QED
    BY <2>3, Zenon DEF i
<1> HIDE DEF x
<1> QED
  BY <1>1, <1>3, <1>4, Zenon

\* A text that encodes bytes has their codes, and then padding.
LEMMA EncodedCodes ==
  ASSUME NEW in \in Seq(0 .. 255), NEW text, Encodes(text, in)
  PROVE  LET n == TextLength(Len(in))
         IN  /\ Len(text) = n + Padding(n)
             /\ \A j \in n + 1 .. Len(text) : text[j] = code_pad
             /\ \A j \in 1 .. n : char_to_code(text[j]) = Code(in, j - 1)
<1> DEFINE n == TextLength(Len(in))
           bits == BitsOf(in)
           bit(i) == IF i <= Len(bits) THEN bits[i] ELSE 0
<1>1. Len(in) \in Nat
  BY SMT
<1>2. n \in Nat /\ n = (8 * Len(in) + 5) \div 6
  BY <1>1, TextLengthIs, TextLengthInSextets, Zenon
<1> HIDE DEF n
<1>3. /\ Len(text) = 4 * ((n + 3) \div 4)
      /\ \A j \in n + 1 .. Len(text) : text[j] = code_pad
      /\ \A j \in 1 .. n : char_to_code(text[j]) \in 0 .. 63
      /\ \A j \in 1 .. n, k \in 0 .. 5 :
           Bit(char_to_code(text[j]), k) = bit(6 * (j - 1) + 6 - k)
  BY <1>2, Zenon DEF Encodes
<1>4. Len(text) = n + Padding(n)
  BY <1>2, <1>3, PaddedLength, Zenon
<1>5. ASSUME NEW j \in 1 .. n PROVE char_to_code(text[j]) = Code(in, j - 1)
  <2> DEFINE x == char_to_code(text[j])
             l == j - 1
  <2>1. l \in Nat
    BY <1>2, SMT
  <2>2. x \in 0 .. 63
    BY <1>3, Zenon
  <2> HIDE DEF bit
  <2>3. ASSUME NEW k \in 0 .. 5 PROVE Bit(x, k) = Bit(Code(in, l), k)
    <3> DEFINE i == 6 * (j - 1) + 6 - k
               h == 6 * l + 5 - k
    <3>1. i \in Nat \ {0} /\ i - 1 = h
      BY <1>2, SMT
    <3>2. Bit(x, k) = bit(i)
      BY <1>3, Zenon
    <3> HIDE DEF x, l
    <3>3. Bit(Code(in, l), k) = BitAt(in, h)
      BY <2>1, CodeIsSextet, Zenon
    <3> HIDE DEF i, h
    <3>4. bit(i) = BitAt(in, i - 1)
      BY <3>1, BitsOfIs, Zenon DEF bit
    <3> QED
      BY <3>1, <3>2, <3>3, <3>4, Zenon
  <2> HIDE DEF x, l
  <2>4. Code(in, l) \in 0 .. 63
    BY <2>1, CodeIsSextet, Zenon
  <2>5. x = Code(in, l)
    BY <2>2, <2>3, <2>4, SameBits, Zenon
  <2> QED
    BY <2>5, Zenon DEF x, l
<1> QED
  BY <1>3, <1>4, <1>5, Zenon DEF n

Octets(x, y, z, w) ==
  <<4 * x + y \div 16, (y % 16) * 16 + z \div 4, (z % 4) * 64 + w>>

FourCodes(x, y, z, w) == 262144 * x + 4096 * y + 64 * z + w

Shift3(r) == <<65536, 256, 1>>[r + 1]

FourSextets(x, y, z, w) ==
  x \in 0 .. 63 /\ y \in 0 .. 63 /\ z \in 0 .. 63 /\ w \in 0 .. 63

OctetAt(x, y, z, w, r) == (FourCodes(x, y, z, w) \div Shift3(r)) % 256

LEMMA OctetsAre ==
  ASSUME NEW x, NEW y, NEW z, NEW w, FourSextets(x, y, z, w), NEW r \in 0 .. 2
  PROVE  OctetAt(x, y, z, w, r) = Octets(x, y, z, w)[r + 1]
<1> DEFINE s == Octets(x, y, z, w)
           t == FourCodes(x, y, z, w)
           yh == y \div 16
           yl == y % 16
           zh == z \div 4
           zl == z % 4
<1> USE DEF FourSextets
<1>1. Shift3(0) = 65536 /\ Shift3(1) = 256 /\ Shift3(2) = 1
  BY SMT DEF Shift3
<1>2. s[1] = 4 * x + yh /\ s[2] = yl * 16 + zh /\ s[3] = zl * 64 + w
  BY SMT DEF Octets
<1>3. /\ y = 16 * yh + yl /\ yh \in 0 .. 3 /\ yl \in 0 .. 15
      /\ z = 4 * zh + zl /\ zh \in 0 .. 15 /\ zl \in 0 .. 3
  BY SMT
<1> HIDE DEF yh, yl, zh, zl
<1>4. t = 65536 * (4 * x + yh) + (256 * (yl * 16 + zh) + (zl * 64 + w))
  BY <1>3, SMT DEF FourCodes
<1>5. /\ 4 * x + yh \in 0 .. 255 /\ yl * 16 + zh \in 0 .. 255
      /\ zl * 64 + w \in 0 .. 255
  BY <1>3, SMT
<1> DEFINE a == 4 * x + yh
           b == yl * 16 + zh
           c == zl * 64 + w
<1> HIDE DEF a, b, c, s, t
<1>6. /\ t = 65536 * a + (256 * b + c) /\ a \in 0 .. 255 /\ b \in 0 .. 255
      /\ c \in 0 .. 255
  BY <1>4, <1>5, SMT DEF a, b, c
<1>7. /\ (t \div 65536) % 256 = a /\ (t \div 256) % 256 = b
      /\ (t \div 1) % 256 = c
  BY <1>6, SMT
<1>8. s[1] = a /\ s[2] = b /\ s[3] = c
  BY <1>2, SMT DEF a, b, c
<1>9. r = 0 \/ r = 1 \/ r = 2
  BY SMT
<1>10. (t \div Shift3(r)) % 256 = s[r + 1]
  BY <1>1, <1>7, <1>8, <1>9, SMT
<1> QED
  BY <1>10, Zenon DEF s, t, OctetAt

\* Six bits by six bits, the bytes come back.
ThreeOctets(a, b, c) == a \in 0 .. 255 /\ b \in 0 .. 255 /\ c \in 0 .. 255

Rejoined(s, a, b, c) ==
  /\ 4 * s[1] + s[2] \div 16 = a
  /\ (s[2] % 16) * 16 + s[3] \div 4 = b
  /\ (s[3] % 4) * 64 + s[4] = c

LEMMA SextetsRejoin ==
  ASSUME NEW a, NEW b, NEW c, ThreeOctets(a, b, c)
  PROVE  Rejoined(Sextets(a, b, c), a, b, c)
<1> USE DEF ThreeOctets
<1> DEFINE s == Sextets(a, b, c)
           bh == b \div 16
           bl == b % 16
           ch == c \div 64
           cl == c % 64
           ah == a \div 4
           al == a % 4
<1>1. s[1] = ah /\ s[2] = al * 16 + bh /\ s[3] = bl * 4 + ch /\ s[4] = cl
  BY SMT DEF Sextets
<1>2. /\ a = 4 * ah + al /\ ah \in 0 .. 63 /\ al \in 0 .. 3
      /\ b = 16 * bh + bl /\ bh \in 0 .. 15 /\ bl \in 0 .. 15
      /\ c = 64 * ch + cl /\ ch \in 0 .. 3 /\ cl \in 0 .. 63
  BY SMT
<1> HIDE DEF s, bh, bl, ch, cl, ah, al
<1>3. /\ (al * 16 + bh) \div 16 = al /\ (al * 16 + bh) % 16 = bh
      /\ (bl * 4 + ch) \div 4 = bl /\ (bl * 4 + ch) % 4 = ch
  BY <1>2, SMT
<1>4. Rejoined(s, a, b, c)
  BY <1>1, <1>2, <1>3, SMT DEF Rejoined
<1> QED
  BY <1>4, Zenon DEF s

CodesOf(u) == [j \in 1 .. Len(u) |-> char_to_code(u[j])]

LEMMA CodesAre ==
  ASSUME NEW S, NEW u \in Seq(S)
  PROVE  Len(CodesOf(u)) = Len(u)
<1> DEFINE n == Len(u)
           T == {char_to_code(u[j]) : j \in 1 .. n}
           c == CodesOf(u)
<1>1. n \in Nat
  BY SMT
<1>2. c = [j \in 1 .. n |-> char_to_code(u[j])]
  BY Zenon DEF CodesOf
<1>3. [j \in 1 .. n |-> char_to_code(u[j])] \in [1 .. n -> T]
  BY Zenon
<1> HIDE DEF n, T, c
<1>4. c \in [1 .. n -> T]
  BY <1>2, <1>3, Zenon
<1>5. Len(c) = n
  BY <1>1, <1>4, SMT
<1> QED
  BY <1>5, Zenon DEF c, n

Octet(u, k) == (Codes24(CodesOf(u), k \div 3) \div Shift3(k % 3)) % 256

\* u is the text of bytes without padding.
TextOf(u, in) ==
  /\ Len(u) = TextLength(Len(in))
  /\ \A j \in 1 .. Len(u) : char_to_code(u[j]) = Code(in, j - 1)

LEMMA AtCodes ==
  ASSUME NEW in \in Seq(0 .. 255), NEW S, NEW u \in Seq(S), TextOf(u, in),
         NEW k \in Nat
  PROVE  /\ At(CodesOf(u), k) \in 0 .. 63
         /\ k < Len(u) => At(CodesOf(u), k) = Code(in, k)
<1> DEFINE c == CodesOf(u)
           n == Len(u)
<1>1. Len(c) = n /\ n \in Nat
  BY CodesAre, SMT
<1>2. CASE k < n
  <2> DEFINE j == k + 1
  <2>1. At(c, k) = c[j]
    BY <1>1, <1>2, Zenon DEF At
  <2>2. j \in 1 .. n /\ j - 1 = k
    BY <1>1, <1>2, SMT
  <2> HIDE DEF j
  <2>3. c[j] = char_to_code(u[j])
    BY <2>2, Zenon DEF CodesOf
  <2>4. char_to_code(u[j]) = Code(in, k)
    BY <2>2, Zenon DEF TextOf
  <2>5. Code(in, k) \in 0 .. 63
    BY CodeIsSextet, Zenon
  <2> QED
    BY <2>1, <2>3, <2>4, <2>5, Zenon
<1>3. CASE ~(k < n)
  <2>1. At(c, k) = 0
    BY <1>1, <1>3, Zenon DEF At
  <2>2. 0 \in 0 .. 63
    BY SMT
  <2> QED
    BY <1>3, <2>1, <2>2, Zenon
<1> QED
  BY <1>2, <1>3, Zenon

LEMMA OctetIs ==
  ASSUME NEW in \in Seq(0 .. 255), NEW S, NEW u \in Seq(S), TextOf(u, in),
         NEW k \in 0 .. Len(in) - 1
  PROVE  Octet(u, k) = in[k + 1]
<1> DEFINE i == k \div 3
           r == k % 3
           a == At(in, 3 * i)
           b == At(in, 3 * i + 1)
           c == At(in, 3 * i + 2)
           s == Sextets(a, b, c)
           d == CodesOf(u)
           x == At(d, 4 * i)
           y == At(d, 4 * i + 1)
           z == At(d, 4 * i + 2)
           w == At(d, 4 * i + 3)
           o == Octets(x, y, z, w)
           n == Len(u)
<1>1. /\ i \in Nat /\ r \in 0 .. 2 /\ k = 3 * i + r
      /\ 3 * i \in Nat /\ 3 * i + 1 \in Nat /\ 3 * i + 2 \in Nat
      /\ 4 * i \in Nat /\ 4 * i + 1 \in Nat /\ 4 * i + 2 \in Nat
      /\ 4 * i + 3 \in Nat
  BY SMT
<1>2. n \in Nat /\ n = (8 * Len(in) + 5) \div 6
  <2>1. Len(in) \in Nat /\ n \in Nat
    BY SMT
  <2> QED
    BY <2>1, TextLengthInSextets, Zenon DEF TextOf
<1>3. 4 * i + r + 1 < n
  BY <1>1, <1>2, SMT
<1>4. a \in 0 .. 255 /\ b \in 0 .. 255 /\ c \in 0 .. 255
  BY <1>1, AtIsByte, Zenon
<1>5. x \in 0 .. 63 /\ y \in 0 .. 63 /\ z \in 0 .. 63 /\ w \in 0 .. 63
  <2> HIDE DEF i
  <2> QED
    BY <1>1, AtCodes, Zenon
<1>6. ASSUME NEW m \in 0 .. 3, m <= r + 1 PROVE At(d, 4 * i + m) = s[m + 1]
  <2> DEFINE j == 4 * i + m
  <2>1. j \in Nat /\ j < n /\ j \div 4 = i /\ j % 4 = m
    <3>1. /\ i \in Nat /\ r \in 0 .. 2 /\ n \in Nat /\ 4 * i + r + 1 < n
          /\ m <= r + 1
      BY <1>1, <1>2, <1>3, <1>6, Zenon
    <3> HIDE DEF i, r, n
    <3>2. j \in Nat /\ j < n
      BY <3>1, SMT
    <3>3. j \div 4 = i /\ j % 4 = m
      BY <3>1, SMT
    <3> QED
      BY <3>2, <3>3, Zenon
  <2> HIDE DEF j, i
  <2>2. At(d, j) = Code(in, j)
    BY <2>1, AtCodes, Zenon
  <2>3. Code(in, j) = s[m + 1]
    BY <2>1, Zenon DEF Code
  <2> HIDE DEF s, d
  <2>4. At(d, j) = s[m + 1]
    BY <2>2, <2>3, Zenon
  <2> QED
    BY <2>4, Zenon DEF j
<1>7. x = s[1] /\ y = s[2]
  <2> HIDE DEF s, d, i, r
  <2>1. At(d, 4 * i + 0) = s[0 + 1] /\ At(d, 4 * i + 1) = s[1 + 1]
    BY <1>1, <1>6, SMT
  <2> QED
    BY <1>1, <2>1, SMT
<1>8. r >= 1 => z = s[3]
  <2> HIDE DEF s, d, i, r
  <2>1. r >= 1 => At(d, 4 * i + 2) = s[2 + 1]
    BY <1>1, <1>6, SMT
  <2> QED
    BY <1>1, <2>1, SMT
<1>9. r = 2 => w = s[4]
  <2> HIDE DEF s, d, i, r
  <2>1. r = 2 => At(d, 4 * i + 3) = s[3 + 1]
    BY <1>1, <1>6, SMT
  <2> QED
    BY <1>1, <2>1, SMT
<1>10. Octet(u, k) = o[r + 1]
  <2>1. Codes24(d, i) = FourCodes(x, y, z, w)
    BY SMT DEF Codes24, FourCodes
  <2>2. Octet(u, k) = (Codes24(d, i) \div Shift3(r)) % 256
    BY SMT DEF Octet
  <2> HIDE DEF x, y, z, w, d, i, r
  <2>3. OctetAt(x, y, z, w, r) = o[r + 1]
    <3>1. FourSextets(x, y, z, w) /\ r \in 0 .. 2
      BY <1>1, <1>5, Zenon DEF FourSextets
    <3> QED
      BY <3>1, OctetsAre, ZenonT(60)
  <2> HIDE DEF o
  <2> QED
    BY <2>1, <2>2, <2>3, Zenon DEF OctetAt
<1>11. /\ o[1] = 4 * x + y \div 16 /\ o[2] = (y % 16) * 16 + z \div 4
       /\ o[3] = (z % 4) * 64 + w
  BY SMT DEF Octets
<1>12. Rejoined(s, a, b, c)
  <2>1. ThreeOctets(a, b, c)
    BY <1>4, Zenon DEF ThreeOctets
  <2> HIDE DEF a, b, c
  <2> QED
    BY <2>1, SextetsRejoin, Zenon
<1> HIDE DEF s, x, y, z, w, o, a, b, c
<1>13. o[r + 1] = At(in, 3 * i + r)
  <2> HIDE DEF i, r
  <2>1. CASE r = 0
    <3>1. o[r + 1] = a /\ 3 * i + r = 3 * i
      BY <1>1, <1>7, <1>11, <1>12, <2>1, SMT DEF Rejoined
    <3> QED
      BY <3>1, Zenon DEF a
  <2>2. CASE r = 1
    <3>1. o[r + 1] = b /\ 3 * i + r = 3 * i + 1
      BY <1>1, <1>7, <1>8, <1>11, <1>12, <2>2, SMT DEF Rejoined
    <3> QED
      BY <3>1, Zenon DEF b
  <2>3. CASE r = 2
    <3>1. o[r + 1] = c /\ 3 * i + r = 3 * i + 2
      BY <1>1, <1>7, <1>8, <1>9, <1>11, <1>12, <2>3, SMT DEF Rejoined
    <3> QED
      BY <3>1, Zenon DEF c
  <2>4. r = 0 \/ r = 1 \/ r = 2
    BY <1>1, SMT
  <2> QED
    BY <2>1, <2>2, <2>3, <2>4, Zenon
<1>14. At(in, k) = in[k + 1]
  <2>1. k < Len(in)
    BY SMT
  <2> QED
    BY <2>1, Zenon DEF At
<1> HIDE DEF i, r
<1> QED
  BY <1>1, <1>10, <1>13, <1>14, Zenon

LEMMA TextLengthBack ==
  ASSUME NEW n \in Nat
  PROVE  LET m == TextLength(n)
         IN  /\ m \in Nat /\ m % 4 # 1 /\ (m = 0 <=> n = 0)
             /\ 3 * (m \div 4) + (IF m % 4 = 0 THEN 0 ELSE (m % 4) - 1) = n
<1> DEFINE q == n \div 3
           r == n % 3
           m == TextLength(n)
           back == 3 * (m \div 4) + (IF m % 4 = 0 THEN 0 ELSE (m % 4) - 1)
<1>1. q \in Nat /\ n = 3 * q + r
  BY SMT
<1>2. r = 0 \/ r = 1 \/ r = 2
  BY SMT
<1>3. m = 4 * q + (IF r = 0 THEN 0 ELSE r + 1)
  BY Zenon DEF TextLength
<1> HIDE DEF q, r, m
<1>4. CASE r = 0
  <2>1. m = 4 * q /\ n = 3 * q
    BY <1>1, <1>3, <1>4, SMT
  <2>2. m \in Nat /\ m % 4 = 0 /\ m \div 4 = q
    BY <1>1, <2>1, SMT
  <2> QED
    BY <1>1, <2>1, <2>2, SMT DEF m
<1>5. CASE r = 1
  <2>1. m = 4 * q + 2 /\ n = 3 * q + 1
    BY <1>1, <1>3, <1>5, SMT
  <2>2. m \in Nat /\ m % 4 = 2 /\ m \div 4 = q
    BY <1>1, <2>1, SMT
  <2> QED
    BY <1>1, <2>1, <2>2, SMT DEF m
<1>6. CASE r = 2
  <2>1. m = 4 * q + 3 /\ n = 3 * q + 2
    BY <1>1, <1>3, <1>6, SMT
  <2>2. m \in Nat /\ m % 4 = 3 /\ m \div 4 = q
    BY <1>1, <2>1, SMT
  <2> QED
    BY <1>1, <2>1, <2>2, SMT DEF m
<1> QED
  BY <1>2, <1>4, <1>5, <1>6, Zenon

\* The text of bytes, without padding, decodes to them if they fit, and to
\* nothing if they do not.
LEMMA NopadDecodes ==
  ASSUME NEW in \in Seq(0 .. 255), NEW S, NEW u \in Seq(S), TextOf(u, in),
         NEW max_len \in Nat
  PROVE  b64_to_bin_nopad(u, max_len).out
           = IF Len(in) <= max_len THEN in ELSE <<>>
<1> DEFINE r == b64_to_bin_nopad(u, max_len)
           n == Len(in)
           m == Len(u)
           code == CodesOf(u)
           out == [k \in 1 .. n |-> Octet(u, k - 1)]
           fails == \E j \in DOMAIN code : code[j] = EXIT
<1>1. n \in Nat /\ m \in Nat
  BY SMT
<1>2. /\ m % 4 # 1 /\ (m = 0 <=> n = 0)
      /\ 3 * (m \div 4) + (IF m % 4 = 0 THEN 0 ELSE (m % 4) - 1) = n
  <2>1. m = TextLength(n)
    BY Zenon DEF TextOf
  <2> HIDE DEF m, n
  <2> QED
    BY <1>1, <2>1, TextLengthBack, Zenon
<1>3. CASE u = <<>>
  <2>1. r.out = <<>>
    BY <1>3, SMT DEF b64_to_bin_nopad
  <2>2. n = 0
    BY <1>2, <1>3, SMT
  <2>3. in = <<>>
    BY <2>2, SMT
  <2> HIDE DEF r
  <2>4. r.out = IF Len(in) <= max_len THEN in ELSE <<>>
    BY <2>1, <2>3, Zenon
  <2> QED
    BY <2>4, Zenon DEF r
<1>4. CASE u # <<>>
  <2>1. r = IF m % 4 = 1 \/ max_len < n THEN Refused
            ELSE IF fails THEN [Refused EXCEPT !.ret = EXIT]
            ELSE [ret |-> n, out |-> out]
    <3> DEFINE length == 3 * (m \div 4) + (IF m % 4 = 0 THEN 0 ELSE (m % 4) - 1)
    <3>1. r = IF m % 4 = 1 \/ max_len < length THEN Refused
              ELSE IF fails THEN [Refused EXCEPT !.ret = EXIT]
              ELSE [ret |-> length,
                    out |-> [k \in 1 .. length |-> Octet(u, k - 1)]]
      BY <1>4, SMT DEF b64_to_bin_nopad, Octet, CodesOf, Shift3
    <3>2. length = n
      BY <1>2, Zenon
    <3> HIDE DEF length, r, n, fails
    <3> QED
      BY <3>1, <3>2, Zenon
  <2>2. ~fails
    <3> SUFFICES ASSUME NEW j \in DOMAIN code, code[j] = EXIT PROVE FALSE
      BY Zenon
    <3>1. j \in 1 .. m /\ code[j] = char_to_code(u[j])
      BY Zenon DEF CodesOf
    <3> DEFINE l == j - 1
    <3>2. l \in Nat
      BY <1>1, <3>1, SMT
    <3>3. char_to_code(u[j]) = Code(in, l)
      BY <3>1, Zenon DEF TextOf
    <3> HIDE DEF l, code
    <3>4. Code(in, l) \in 0 .. 63
      BY <3>2, CodeIsSextet, Zenon
    <3>5. EXIT \notin 0 .. 63
      BY SMT DEF EXIT
    <3> QED
      BY <3>1, <3>3, <3>4, <3>5, Zenon
  <2>3. out = in
    <3>1. ASSUME NEW k \in 1 .. n PROVE Octet(u, k - 1) = in[k]
      <4> DEFINE l == k - 1
      <4>1. l \in 0 .. n - 1 /\ l + 1 = k
        BY <1>1, SMT
      <4> HIDE DEF l
      <4>2. Octet(u, l) = in[l + 1]
        BY <4>1, OctetIs, Zenon
      <4> QED
        BY <4>1, <4>2, Zenon DEF l
    <3>2. out = [k \in 1 .. n |-> in[k]]
      BY <3>1, Zenon
    <3> HIDE DEF out
    <3> QED
      BY <3>2, SMT
  <2> HIDE DEF r, fails, out
  <2>4. CASE max_len < n
    <3>1. r.out = <<>>
      BY <2>1, <2>4, SMT DEF Refused
    <3>2. ~(Len(in) <= max_len)
      BY <1>1, <2>4, SMT
    <3> QED
      BY <3>1, <3>2, Zenon DEF r
  <2>5. CASE ~(max_len < n)
    <3>1. r = [ret |-> n, out |-> in]
      BY <1>2, <2>1, <2>2, <2>3, <2>5, Zenon
    <3>2. Len(in) <= max_len
      BY <1>1, <2>5, SMT
    <3>3. r.out = in
      BY <3>1, SMT
    <3> QED
      BY <3>2, <3>3, Zenon DEF r
  <2> QED
    BY <2>4, <2>5, Zenon
<1> QED
  BY <1>3, <1>4, Zenon

Equals(text) == LET n == Len(text)
                IN  IF n % 4 # 0 \/ n < 4 THEN 0
                    ELSE IF text[n - 1] = code_pad THEN 2
                    ELSE IF text[n] = code_pad THEN 1 ELSE 0

\* What b64_to_bin passes on of a text that carries bytes.
Stripped(text) == SubSeq(text, 1, Len(text) - Equals(text))

LEMMA NoCodeIsPad ==
  ASSUME NEW in \in Seq(0 .. 255), NEW text, NEW n \in Nat,
         \A j \in 1 .. n : char_to_code(text[j]) = Code(in, j - 1),
         NEW j \in 1 .. n
  PROVE  text[j] # code_pad
<1> DEFINE l == j - 1
<1>1. l \in Nat
  BY SMT
<1>2. char_to_code(text[j]) = Code(in, l)
  BY Zenon
<1> HIDE DEF l
<1>3. Code(in, l) \in 0 .. 63
  BY <1>1, CodeIsSextet, Zenon
<1> QED
  BY <1>2, <1>3, PadHasNoCode, Zenon

LEMMA EqualsOfEncoded ==
  ASSUME NEW in \in Seq(0 .. 255), NEW text, Encodes(text, in)
  PROVE  Equals(text) = Padding(TextLength(Len(in)))
<1> DEFINE n == TextLength(Len(in))
           pad == Padding(n)
           m == Len(text)
<1>1. /\ m = n + pad
      /\ \A j \in n + 1 .. m : text[j] = code_pad
      /\ \A j \in 1 .. n : char_to_code(text[j]) = Code(in, j - 1)
  BY EncodedCodes, Zenon
<1>2. n \in Nat /\ n % 4 # 1
  <2>1. Len(in) \in Nat
    BY SMT
  <2> QED
    BY <2>1, TextLengthIs, Zenon
<1> HIDE DEF n
<1>3. pad \in 0 .. 3 /\ (n + pad) % 4 = 0
  BY <1>2, PaddingIs, Zenon
<1>4. pad = IF n % 4 = 0 THEN 0 ELSE 4 - (n % 4)
  BY Zenon DEF Padding
<1> HIDE DEF pad, m
<1>5. ASSUME NEW j \in 1 .. n PROVE text[j] # code_pad
  BY <1>1, <1>2, NoCodeIsPad, Zenon
<1>6. Equals(text) = IF m % 4 # 0 \/ m < 4 THEN 0
                     ELSE IF text[m - 1] = code_pad THEN 2
                     ELSE IF text[m] = code_pad THEN 1 ELSE 0
  BY Zenon DEF Equals, m
<1>7. CASE n % 4 = 0
  <2>1. pad = 0 /\ m = n
    BY <1>1, <1>2, <1>4, <1>7, SMT
  <2>2. CASE m < 4
    BY <1>6, <2>1, <2>2, Zenon DEF pad, n
  <2>3. CASE ~(m < 4)
    <3>1. m - 1 \in 1 .. n /\ m \in 1 .. n /\ m % 4 = 0
      BY <1>2, <1>7, <2>1, <2>3, SMT
    <3>2. text[m - 1] # code_pad /\ text[m] # code_pad
      BY <1>5, <3>1, Zenon
    <3> QED
      BY <1>6, <2>1, <2>3, <3>1, <3>2, Zenon DEF pad, n
  <2> QED
    BY <2>2, <2>3, Zenon
<1>8. CASE n % 4 = 2
  <2>1. pad = 2 /\ m = n + 2 /\ m % 4 = 0 /\ ~(m < 4) /\ m - 1 \in n + 1 .. m
    BY <1>1, <1>2, <1>3, <1>4, <1>8, SMT
  <2>2. text[m - 1] = code_pad
    BY <1>1, <2>1, Zenon
  <2> QED
    BY <1>6, <2>1, <2>2, Zenon DEF pad, n
<1>9. CASE n % 4 = 3
  <2>1. /\ pad = 1 /\ m = n + 1 /\ m % 4 = 0 /\ ~(m < 4)
        /\ m \in n + 1 .. m /\ m - 1 \in 1 .. n
    BY <1>1, <1>2, <1>3, <1>4, <1>9, SMT
  <2>2. text[m] = code_pad /\ text[m - 1] # code_pad
    BY <1>1, <1>5, <2>1, Zenon
  <2> QED
    BY <1>6, <2>1, <2>2, Zenon DEF pad, n
<1>10. n % 4 = 0 \/ n % 4 = 2 \/ n % 4 = 3
  BY <1>2, SMT
<1> QED
  BY <1>7, <1>8, <1>9, <1>10, Zenon

LEMMA StrippedEncoded ==
  ASSUME NEW in \in Seq(0 .. 255), NEW text \in Seq(Int), Encodes(text, in)
  PROVE  Stripped(text) \in Seq(Int) /\ TextOf(Stripped(text), in)
<1> DEFINE n == TextLength(Len(in))
           pad == Padding(n)
           u == SubSeq(text, 1, n)
<1>1. /\ Len(text) = n + pad
      /\ \A j \in 1 .. n : char_to_code(text[j]) = Code(in, j - 1)
  BY EncodedCodes, Zenon
<1>2. n \in Nat
  <2>1. Len(in) \in Nat
    BY SMT
  <2> QED
    BY <2>1, TextLengthIs, Zenon
<1>3. Equals(text) = pad
  BY EqualsOfEncoded, Zenon
<1> HIDE DEF n
<1>4. pad \in 0 .. 3
  BY <1>2, PaddingIs, Zenon
<1> HIDE DEF pad
<1>5. Stripped(text) = u
  <2>1. Len(text) - Equals(text) = n
    BY <1>1, <1>2, <1>3, <1>4, SMT
  <2> QED
    BY <2>1, Zenon DEF Stripped
<1>6. u \in Seq(Int) /\ Len(u) = n /\ \A j \in 1 .. n : u[j] = text[j]
  BY <1>1, <1>2, <1>4, SMT
<1> HIDE DEF u
<1>7. TextOf(u, in)
  BY <1>1, <1>6, Zenon DEF TextOf, n
<1> QED
  BY <1>5, <1>6, <1>7, Zenon

LEMMA StrippedIs ==
  ASSUME NEW in \in Seq(0 .. 255), NEW text \in Seq(Int), Carries(text, in)
  PROVE  Stripped(text) \in Seq(Int) /\ TextOf(Stripped(text), in)
<1> DEFINE n == TextLength(Len(in))
           m == Len(text)
           more == Padding(m)
           blocks == text \o Pads(more)
<1>1. CASE Encodes(text, in)
  BY <1>1, StrippedEncoded, Zenon
<1>2. CASE ~Encodes(text, in)
  <2>1. Encodes(blocks, in) /\ \A j \in 1 .. m : text[j] # code_pad
    BY <1>2, Zenon DEF Carries, Pads
  <2>2. m \in Nat /\ Len(in) \in Nat
    BY SMT
  <2>3. n \in Nat
    BY <2>2, TextLengthIs, Zenon
  <2>4. /\ Len(blocks) = n + Padding(n)
        /\ \A j \in n + 1 .. Len(blocks) : blocks[j] = code_pad
        /\ \A j \in 1 .. n : char_to_code(blocks[j]) = Code(in, j - 1)
    BY <2>1, EncodedCodes, Zenon
  <2> HIDE DEF n, m
  <2>5. more \in 0 .. 3 /\ more = IF m % 4 = 0 THEN 0 ELSE 4 - (m % 4)
    BY <2>2, PaddingIs, Zenon DEF Padding
  <2>6. Padding(n) \in 0 .. 3
    BY <2>3, PaddingIs, Zenon
  <2> HIDE DEF more
  <2>7. /\ Pads(more) \in Seq(Int) /\ Len(Pads(more)) = more
        /\ \A k \in 1 .. more : Pads(more)[k] = code_pad
    <3>1. more \in Nat
      BY <2>5, SMT
    <3> QED
      BY <3>1, PadsAre, Zenon
  <2>8. /\ Len(blocks) = m + more
        /\ \A j \in 1 .. m + more :
             blocks[j] = IF j <= m THEN text[j] ELSE Pads(more)[j - m]
    <3> DEFINE pads == Pads(more)
    <3>1. Len(text) = m
      BY Zenon DEF m
    <3>2. pads \in Seq(Int) /\ Len(pads) = more
      BY <2>7, Zenon
    <3> HIDE DEF pads
    <3>3. /\ Len(text \o pads) = m + more
          /\ \A j \in 1 .. m + more :
               (text \o pads)[j] = IF j <= m THEN text[j] ELSE pads[j - m]
      BY <2>2, <2>5, <3>1, <3>2, ConcatProperties, SMT
    <3> QED
      BY <3>3, Zenon DEF pads
  <2>9. more # 0
    <3> SUFFICES ASSUME more = 0 PROVE FALSE
      OBVIOUS
    <3>1. Pads(more) = <<>>
      BY <2>7, SMT
    <3>2. blocks = text
      BY <3>1, SMT
    <3> QED
      BY <1>2, <2>1, <3>2, Zenon
  <2> HIDE DEF blocks
  <2>10. ~(m > n)
    <3> SUFFICES ASSUME m > n PROVE FALSE
      OBVIOUS
    <3> DEFINE j == n + 1
    <3>1. /\ j \in n + 1 .. Len(blocks) /\ j \in 1 .. m + more /\ j <= m
          /\ j \in 1 .. m
      BY <2>2, <2>3, <2>5, <2>8, SMT
    <3> HIDE DEF j
    <3>2. blocks[j] = code_pad
      BY <2>4, <3>1, Zenon
    <3>3. blocks[j] = text[j]
      BY <2>8, <3>1, Zenon
    <3> QED
      BY <2>1, <3>1, <3>2, <3>3, Zenon
  <2>11. ~(m < n)
    <3> SUFFICES ASSUME m < n PROVE FALSE
      OBVIOUS
    <3>1. /\ n \in 1 .. m + more /\ ~(n <= m) /\ n - m \in 1 .. more
          /\ n \in 1 .. n
      BY <2>2, <2>3, <2>4, <2>5, <2>6, <2>8, SMTT(30)
    <3>2. blocks[n] = code_pad
      BY <2>7, <2>8, <3>1, Zenon
    <3>3. blocks[n] # code_pad
      BY <2>3, <2>4, <3>1, NoCodeIsPad, Zenon
    <3> QED
      BY <3>2, <3>3, Zenon
  <2>12. m = n
    BY <2>2, <2>3, <2>10, <2>11, SMT
  <2>13. Stripped(text) = text
    <3>1. m % 4 # 0
      BY <2>5, <2>9, Zenon
    <3>2. Equals(text) = 0
      BY <3>1, Zenon DEF Equals, m
    <3>3. m - 0 = m
      BY <2>2, SMT
    <3>4. Stripped(text) = SubSeq(text, 1, m)
      BY <3>2, <3>3, Zenon DEF Stripped, m
    <3> QED
      BY <3>4, SubSeqFull, SMT DEF m
  <2>14. ASSUME NEW j \in 1 .. m PROVE char_to_code(text[j]) = Code(in, j - 1)
    <3>1. j \in 1 .. n /\ j \in 1 .. m + more /\ j <= m
      BY <2>2, <2>5, <2>12, SMT
    <3>2. blocks[j] = text[j]
      BY <2>8, <3>1, Zenon
    <3> QED
      BY <2>4, <3>1, <3>2, Zenon
  <2>15. TextOf(text, in)
    BY <2>12, <2>14, Zenon DEF TextOf, m, n
  <2> QED
    BY <2>13, <2>15, Zenon
<1> QED
  BY <1>1, <1>2, Zenon

\* The bytes of a text that carries them come back, if they fit.
LEMMA CarriedDecodes ==
  ASSUME NEW in \in Seq(0 .. 255), NEW text \in Seq(Int), Carries(text, in),
         NEW max_len \in Nat
  PROVE  b64_to_bin(text, max_len).out = IF Len(in) <= max_len THEN in ELSE <<>>
<1> DEFINE u == Stripped(text)
<1>1. u \in Seq(Int) /\ TextOf(u, in)
  BY StrippedIs, Zenon
<1>2. b64_to_bin(text, max_len) = b64_to_bin_nopad(u, max_len)
  BY Zenon DEF b64_to_bin, Stripped, Equals
<1> HIDE DEF u
<1>3. b64_to_bin_nopad(u, max_len).out = IF Len(in) <= max_len THEN in ELSE <<>>
  BY <1>1, NopadDecodes, Zenon
<1> QED
  BY <1>2, <1>3, Zenon

\* A text with one character too many is refused.
LEMMA OneTooMany ==
  ASSUME NEW text \in Seq(Int), Len(text) % 4 = 1, NEW max_len \in Nat
  PROVE  b64_to_bin(text, max_len).out = <<>>
<1>1. Equals(text) = 0
  <2>1. Len(text) % 4 # 0
    BY SMT
  <2> QED
    BY <2>1, Zenon DEF Equals
<1>2. Stripped(text) = text
  <2>1. Len(text) - 0 = Len(text)
    BY SMT
  <2>2. Stripped(text) = SubSeq(text, 1, Len(text))
    BY <1>1, <2>1, Zenon DEF Stripped
  <2> QED
    BY <2>2, SubSeqFull, SMT
<1>3. b64_to_bin(text, max_len) = b64_to_bin_nopad(Stripped(text), max_len)
  BY Zenon DEF b64_to_bin, Stripped, Equals
<1>4. text # <<>>
  BY SMT
<1>5. b64_to_bin_nopad(text, max_len) = Refused
  BY <1>4, SMT DEF b64_to_bin_nopad
<1>6. Refused.out = <<>>
  BY SMT DEF Refused
<1> QED
  BY <1>2, <1>3, <1>5, <1>6, Zenon
-----------------------------------------------------------------------------
(***************************************************************************)
(* thread_up: the length of a datagram.                                    *)
(***************************************************************************)
\* The characters of one packet, with the comma before it, and of what
\* stands before the first.
MostOfPacket == 535
Opening == 21

LEMMA MetadataFits ==
  ASSUME NEW p, NEW stamped, p.numbers \in {"least", "most", "raw"}
  PROVE  /\ Metadata(p, stamped) \in Nat
         /\ p.numbers # "raw" => Metadata(p, stamped) \in 0 .. 194
<1>1. CASE p.numbers = "least"
  BY <1>1, SMTT(30) DEF Metadata
<1>2. CASE p.numbers = "most"
  BY <1>2, SMTT(30) DEF Metadata
<1>3. CASE p.numbers = "raw"
  BY <1>3, SMTT(30) DEF Metadata
<1> QED
  BY <1>1, <1>2, <1>3

\* A datagram without packets of a ghost node.
Plain == "raw" \notin widths

\* The room for a packet is more than enough, and for what closes a datagram.
Fitting ==
  /\ up_pc \in {"fetch", "packets", "send"}
  /\ rxpkt \in Nat /\ pkt_in_dgram \in Nat /\ buff_index \in Int
  /\ status_report \in 0 .. STATUS_SIZE - 1
  /\ up_pc = "packets" =>
       /\ rxpkt + pkt_in_dgram <= NB_PKT_MAX
       /\ Plain => buff_index <= Opening + MostOfPacket * pkt_in_dgram
       /\ pkt_in_dgram = 0 => buff_index = Opening
  /\ up_pc = "send" /\ Plain => buff_index < TX_BUFF_SIZE

LEMMA FittingFits == Fitting => FitsBuffer
  BY RxpkAssumption
  DEF Fitting, Plain, FitsBuffer, TX_BUFF_SIZE, Opening, MostOfPacket

LEMMA ReportIsCut ==
  ASSUME NEW wide, NEW coordinates, NEW words \in Words
  PROVE  Cut(ReportLength(wide, coordinates, words)) \in 0 .. STATUS_SIZE - 1
<1> DEFINE length == ReportLength(wide, coordinates, words)
<1>1. length \in Nat
  BY DatagramsAssumption DEF ReportLength
<1> HIDE DEF length
<1>2. Cut(length) \in 0 .. STATUS_SIZE - 1
  BY <1>1, RxpkAssumption DEF Cut
<1> QED
  BY <1>2, Zenon DEF length

LEMMA ReportFits ==
  ASSUME Fitting, NEW wide, NEW coordinates, NEW words \in Words,
         Report(wide, coordinates, words)
  PROVE  Fitting'
<1>1. status_report' \in 0 .. STATUS_SIZE - 1
  BY ReportIsCut, Zenon DEF Report
<1>2. UNCHANGED <<up_pc, rxpkt, pkt_in_dgram, buff_up, buff_index, widths>>
  BY Zenon DEF Report
<1> QED
  BY <1>1, <1>2 DEF Fitting, Plain

LEMMA SerialiseSize ==
  ASSUME NEW p \in Packets, NEW stamped
  PROVE  /\ bin_to_b64(p.payload, Room).ret \in -1 .. 340
         /\ Metadata(p, stamped) \in Nat
         /\ p.numbers # "raw" => Metadata(p, stamped) \in 0 .. 194
         /\ Metadata(p, stamped) + bin_to_b64(p.payload, Room).ret \in Int
<1> DEFINE in == p.payload
           ret == bin_to_b64(in, Room).ret
           meta == Metadata(p, stamped)
<1>1. in \in Seq(0 .. 255)
  BY DatagramsAssumption
<1>2. Room \in Nat \ {0} /\ Room - 1 = 340
  BY SMT DEF Room
<1> HIDE DEF in
<1>3. ret \in -1 .. Room - 1
  BY <1>1, <1>2, TextFits
<1>4. meta \in Nat /\ (p.numbers # "raw" => meta \in 0 .. 194)
  BY MetadataFits, DatagramsAssumption
<1> HIDE DEF ret, meta
<1>5. ret \in -1 .. 340 /\ meta + ret \in Int
  BY <1>2, <1>3, <1>4
<1> QED
  BY <1>4, <1>5, Zenon DEF in, ret, meta

LEMMA SerialiseFits ==
  ASSUME Fitting, NEW p \in Packets, NEW stamped, Serialise(p, stamped)
  PROVE  Fitting'
<1> DEFINE ret == bin_to_b64(p.payload, Room).ret
           meta == Metadata(p, stamped)
           comma == WriteIf(pkt_in_dgram > 0, Written, "comma", 1)
<1>1. /\ ret \in -1 .. 340 /\ meta \in Nat
      /\ p.numbers # "raw" => meta \in 0 .. 194
  BY SerialiseSize, Zenon
<1>2. buff_index' = Write(comma, "packet", meta + ret).index
  BY Zenon DEF Serialise
<1>3. comma.index = buff_index + (IF pkt_in_dgram > 0 THEN 1 ELSE 0)
  BY DEF Fitting, Write, WriteIf, Written
<1>4. /\ up_pc = "packets" /\ rxpkt > 0 /\ UNCHANGED <<up_pc, status_report>>
      /\ rxpkt' = rxpkt - 1 /\ pkt_in_dgram' = pkt_in_dgram + 1
  BY Zenon DEF Serialise
<1>6. Plain' => Plain /\ p.numbers # "raw"
  <2>1. widths' = widths \cup {p.numbers}
    BY Zenon DEF Serialise
  <2> QED
    BY <2>1 DEF Plain
<1> HIDE DEF ret, meta, comma
<1>5. buff_index' = comma.index + (meta + ret)
  BY <1>2 DEF Write
<1>7. Plain' => buff_index' <= Opening + MostOfPacket * pkt_in_dgram'
  BY <1>1, <1>3, <1>4, <1>5, <1>6 DEF Fitting, Opening, MostOfPacket
<1> QED
  BY <1>1, <1>3, <1>4, <1>5, <1>7 DEF Fitting

LEMMA CloseFits ==
  ASSUME Fitting, Close
  PROVE  Fitting'
<1> DEFINE array == IF pkt_in_dgram > 0 THEN Write(Written, "endarray", 1)
                    ELSE [up |-> UpTo(Emptied), index |-> Emptied]
           comma == WriteIf(pkt_in_dgram > 0 /\ send_report, array, "comma", 1)
           stat == WriteIf(send_report, comma, "stat", status_report)
           b == Write(stat, "endobject", 1)
<1>1. /\ up_pc = "packets" /\ rxpkt = 0
      /\ \/ up_pc' = "fetch" /\ UNCHANGED buff_index
         \/ up_pc' = "send" /\ buff_index' = b.index
      /\ UNCHANGED <<rxpkt, pkt_in_dgram, status_report>>
  BY Zenon DEF Close
<1>7. Plain' => Plain
  BY Zenon DEF Close, Plain
<1> HIDE DEF comma, stat, b
<1>2. array.index = IF pkt_in_dgram > 0 THEN buff_index + 1 ELSE Emptied
  <2>1. array.index =
            IF pkt_in_dgram > 0 THEN Write(Written, "endarray", 1).index
                      ELSE Emptied
    BY Zenon
  <2> HIDE DEF array
  <2> QED
    BY <2>1 DEF Write, Written
<1> HIDE DEF array
<1>6. /\ array.index \in Int
      /\ Plain => array.index <= Opening + MostOfPacket * pkt_in_dgram + 1
  BY <1>1, <1>2 DEF Fitting, Emptied, Opening, MostOfPacket
<1>3. comma.index \in {array.index, array.index + 1}
  BY DEF Write, WriteIf, comma
<1>4. stat.index \in {comma.index, comma.index + status_report}
  BY DEF Write, WriteIf, stat
<1>5. b.index = stat.index + 1
  BY DEF Write, b
<1> QED
  BY <1>1, <1>6, <1>3, <1>4, <1>5, <1>7, RxpkAssumption
  DEF Fitting, Opening, MostOfPacket, TX_BUFF_SIZE

LEMMA ThreadUpFits ==
  ASSUME Fitting, ThreadUp
  PROVE  Fitting'
<1>1. ASSUME NEW n \in 0 .. NB_PKT_MAX, Fetch(n, gps.valid) PROVE Fitting'
  <2>1. /\ rxpkt' = n /\ pkt_in_dgram' = 0 /\ up_pc' = "packets"
        /\ buff_index' = 12 + 9 /\ UNCHANGED status_report
    BY <1>1, Zenon DEF Fetch
  <2> QED
    BY <2>1, RxpkAssumption DEF Fitting, Opening, MostOfPacket
<1>2. CASE Skip
  <2>1. /\ up_pc = "packets" /\ rxpkt > 0 /\ rxpkt' = rxpkt - 1
        /\ UNCHANGED <<up_pc, pkt_in_dgram, buff_index, widths, status_report>>
    BY <1>2, Zenon DEF Skip
  <2> QED
    BY <2>1, RxpkAssumption DEF Fitting, Plain, Opening, MostOfPacket
<1>3. CASE Send
  BY <1>3 DEF Fitting, Send
<1> QED
  BY <1>1, <1>2, <1>3, CloseFits, SerialiseFits DEF ThreadUp

LEMMA UpStandsFits ==
  ASSUME Fitting, UNCHANGED upVars
  PROVE  Fitting'
  BY DEF Fitting, Plain, upVars, TX_BUFF_SIZE

LEMMA NextFits ==
  ASSUME Fitting, [Next]_vars
  PROVE  Fitting'
<1>1. ASSUME NEW p \in Packets, Fatal(p) PROVE Fitting'
  BY <1>1 DEF Fitting, Plain, Fatal, TX_BUFF_SIZE
<1>2. CASE Main
  BY <1>2, ReportFits DEF Main
<1>3. CASE Reference \/ \E d \in Datagrams : PullResp(d)
  BY <1>3, UpStandsFits DEF Reference, PullResp
<1>4. CASE UNCHANGED vars
  BY <1>4, UpStandsFits DEF vars
<1> QED
  BY <1>1, <1>2, <1>3, <1>4, ThreadUpFits DEF Next, UpFails

LEMMA SpecFitting == Spec => []Fitting
<1>1. Init => Fitting
  BY RxpkAssumption DEF Init, UpInit, Fitting
<1> QED
  BY <1>1, NextFits, PTL DEF Spec

\* Whatever thread_up fetches of the radio, and whatever report is ready, a
\* datagram and its terminator stay inside buff_up.
THEOREM SpecFitsBuffer == Spec => []FitsBuffer
  BY SpecFitting, FittingFits, PTL
-----------------------------------------------------------------------------
(***************************************************************************)
(* thread_up: the form of a datagram.                                      *)
(***************************************************************************)
Kinds == {"object", "array", "packet", "comma", "endarray", "stat",
          "endobject"}

Piece == [kind : Kinds, end : Int]

Buffer(b) == b.up \in Seq(Piece) /\ b.index \in Int

LEMMA WriteIs ==
  ASSUME NEW b, Buffer(b), NEW kind \in Kinds, NEW length \in Int,
         NEW w, w = Write(b, kind, length)
  PROVE  /\ Buffer(w) /\ Len(w.up) = Len(b.up) + 1
         /\ \A k \in 1 .. Len(b.up) : w.up[k] = b.up[k]
         /\ w.up[Len(b.up) + 1].kind = kind
         /\ w.up[Len(b.up) + 1].end = w.index
<1> DEFINE p == [kind |-> kind, end |-> b.index + length]
           up == b.up
<1>1. p \in Piece /\ up \in Seq(Piece)
  BY DEF Piece, Buffer
<1>2. w.up = Append(up, p) /\ w.index = b.index + length
  BY Zenon DEF Write
<1>3. p.kind = kind /\ p.end = b.index + length
  OBVIOUS
<1> HIDE DEF p, up
<1>4. /\ Append(up, p) \in Seq(Piece) /\ Len(Append(up, p)) = Len(up) + 1
      /\ \A k \in 1 .. Len(up) : Append(up, p)[k] = up[k]
      /\ Append(up, p)[Len(up) + 1] = p
  BY <1>1, AppendProperties
<1> QED
  BY <1>2, <1>3, <1>4 DEF Buffer, up

\* The kinds of n packets and the commas between them, and the pieces so far.
Between(k) == IF k % 2 = 1 THEN "packet" ELSE "comma"

Packed(up, n) ==
  /\ up \in Seq(Piece) /\ Len(up) = 2 * n + 1
  /\ up[1].kind = "object" /\ up[2].kind = "array"
  /\ \A k \in 1 .. 2 * n - 1 : up[k + 2].kind = Between(k)

Opened == <<[kind |-> "object", end |-> 13], [kind |-> "array", end |-> 21]>>

LEMMA OpenedIs ==
  /\ Opened \in Seq(Piece) /\ Len(Opened) = 2 /\ Opened[1] \in Piece
  /\ Opened[1].kind = "object" /\ Opened[2].kind = "array"
  /\ Opened[1].end = 13 /\ Opened[2].end = 21
<1> DEFINE first == [kind |-> "object", end |-> 13]
           second == [kind |-> "array", end |-> 21]
<1>1. 13 \in Int /\ 21 \in Int
  BY SMT
<1>2. first \in Piece /\ second \in Piece
  BY <1>1 DEF Piece, Kinds
<1>3. /\ first.kind = "object" /\ first.end = 13
      /\ second.kind = "array" /\ second.end = 21
  BY Zenon
<1>4. Opened = <<first, second>>
  BY Zenon DEF Opened
<1> HIDE DEF first, second
<1>5. Opened \in Seq(Piece) /\ Len(Opened) = 2
  BY <1>2, <1>4, SMT
<1>6. Opened[1] = first /\ Opened[2] = second
  BY <1>4, SMT
<1> QED
  BY <1>2, <1>3, <1>5, <1>6, Zenon

\* One packet more.
LEMMA PackedMore ==
  ASSUME NEW n \in Nat, NEW w, Buffer(w),
         n = 0 => w.up = Opened, n > 0 => Packed(w.up, n),
         NEW c, c = IF n > 0 THEN Write(w, "comma", 1) ELSE w,
         NEW length \in Int, NEW b, b = Write(c, "packet", length)
  PROVE  Packed(b.up, n + 1) /\ Buffer(b) /\ b.up[Len(b.up)].end = b.index
<1>1. "packet" \in Kinds /\ "comma" \in Kinds
  BY DEF Kinds
<1>2. CASE n = 0
  <2>1. c = w
    BY <1>2
  <2>2. /\ Buffer(b) /\ Len(b.up) = Len(w.up) + 1
        /\ b.up[Len(w.up) + 1].kind = "packet"
        /\ b.up[Len(w.up) + 1].end = b.index
        /\ \A k \in 1 .. Len(w.up) : b.up[k] = w.up[k]
    BY <1>1, <2>1, WriteIs
  <2>3. w.up = Opened
    BY <1>2
  <2>4. /\ Len(b.up) = 3 /\ b.up[3].kind = "packet" /\ b.up[3].end = b.index
        /\ b.up[1] = Opened[1] /\ b.up[2] = Opened[2]
    BY <2>2, <2>3, OpenedIs
  <2>5. b.up[1].kind = "object" /\ b.up[2].kind = "array"
    BY <2>4, OpenedIs, Zenon
  <2>6. ASSUME NEW k \in 1 .. 2 * (n + 1) - 1
        PROVE  b.up[k + 2].kind = Between(k)
    <3>1. k = 1 /\ k + 2 = 3
      BY <1>2
    <3>2. Between(1) = "packet"
      BY SMT DEF Between
    <3> QED
      BY <2>4, <3>1, <3>2, Zenon
  <2>7. 2 * (n + 1) + 1 = 3
    BY <1>2
  <2> QED
    BY <2>2, <2>4, <2>5, <2>6, <2>7, Zenon DEF Packed, Buffer
<1>3. CASE n > 0
  <2>1. /\ w.up \in Seq(Piece) /\ Len(w.up) = 2 * n + 1
        /\ w.up[1].kind = "object" /\ w.up[2].kind = "array"
        /\ \A k \in 1 .. 2 * n - 1 : w.up[k + 2].kind = Between(k)
    BY <1>3, Zenon DEF Packed
  <2>2. c = Write(w, "comma", 1)
    BY <1>3, Zenon
  <2>3. /\ Buffer(c) /\ Len(c.up) = Len(w.up) + 1
        /\ c.up[Len(w.up) + 1].kind = "comma"
        /\ \A k \in 1 .. Len(w.up) : c.up[k] = w.up[k]
    BY <1>1, <2>2, WriteIs
  <2>4. /\ Buffer(b) /\ Len(b.up) = Len(c.up) + 1
        /\ b.up[Len(c.up) + 1].kind = "packet"
        /\ b.up[Len(c.up) + 1].end = b.index
        /\ \A k \in 1 .. Len(c.up) : b.up[k] = c.up[k]
    BY <1>1, <2>3, WriteIs, SMTT(30)
  <2>5. /\ Len(w.up) + 1 = 2 * n + 2 /\ Len(c.up) + 1 = 2 * n + 3
        /\ Len(c.up) = 2 * n + 2 /\ Len(b.up) = 2 * n + 3
    <3>1. /\ Len(w.up) = 2 * n + 1 /\ Len(c.up) = Len(w.up) + 1
          /\ Len(b.up) = Len(c.up) + 1
      BY <2>1, <2>3, <2>4, Zenon
    <3> QED
      BY <3>1
  <2>7. /\ b.up[2 * n + 3].kind = "packet" /\ b.up[2 * n + 3].end = b.index
        /\ c.up[2 * n + 2].kind = "comma"
    BY <2>3, <2>4, <2>5, Zenon
  <2>8. /\ \A k \in 1 .. 2 * n + 1 : b.up[k] = w.up[k]
        /\ b.up[2 * n + 2] = c.up[2 * n + 2]
    <3>1. /\ \A k \in 1 .. 2 * n + 2 : b.up[k] = c.up[k]
          /\ \A k \in 1 .. Len(w.up) : c.up[k] = w.up[k]
      BY <2>3, <2>4, <2>5, Zenon
    <3>2. Len(w.up) = 2 * n + 1
      BY <2>1, Zenon
    <3> QED
      BY <3>1, <3>2
  <2>9. b.up[1].kind = "object" /\ b.up[2].kind = "array"
    <3>1. b.up[1] = w.up[1] /\ b.up[2] = w.up[2]
      BY <1>3, <2>8
    <3> QED
      BY <2>1, <3>1, Zenon
  <2>10. ASSUME NEW k \in 1 .. 2 * (n + 1) - 1
         PROVE  b.up[k + 2].kind = Between(k)
    <3>1. CASE k \in 1 .. 2 * n - 1
      <4>1. k + 2 \in 1 .. 2 * n + 1
        BY <3>1
      <4> QED
        BY <2>1, <2>8, <3>1, <4>1, Zenon
    <3>2. CASE k = 2 * n
      <4>1. k + 2 = 2 * n + 2 /\ k % 2 # 1
        BY <3>2
      <4> QED
        BY <2>7, <2>8, <4>1, Zenon DEF Between
    <3>3. CASE k = 2 * n + 1
      <4>1. k + 2 = 2 * n + 3 /\ k % 2 = 1
        BY <3>3
      <4> QED
        BY <2>7, <4>1, Zenon DEF Between
    <3> QED
      BY <3>1, <3>2, <3>3
  <2>11. 2 * (n + 1) + 1 = 2 * n + 3
    OBVIOUS
  <2> QED
    BY <2>4, <2>5, <2>7, <2>9, <2>10, <2>11, Zenon DEF Packed, Buffer
<1> QED
  BY <1>2, <1>3

\* The kinds of piece of a buffer.
KindsOf(up) == [k \in DOMAIN up |-> up[k].kind]

LEMMA KindsOfIs ==
  ASSUME NEW up \in Seq(Piece)
  PROVE  /\ KindsOf(up) \in Seq(Kinds) /\ Len(KindsOf(up)) = Len(up)
         /\ \A k \in 1 .. Len(up) : KindsOf(up)[k] = up[k].kind
<1>1. DOMAIN up = 1 .. Len(up) /\ Len(up) \in Nat
  OBVIOUS
<1>2. \A k \in 1 .. Len(up) : up[k].kind \in Kinds
  <2>1. \A piece \in Piece : piece.kind \in Kinds
    BY Zenon DEF Piece
  <2>2. \A k \in 1 .. Len(up) : up[k] \in Piece
    OBVIOUS
  <2> QED
    BY <2>1, <2>2, Zenon
<1>3. KindsOf(up) = [k \in 1 .. Len(up) |-> up[k].kind]
  BY <1>1, Zenon DEF KindsOf
<1> DEFINE f == [k \in 1 .. Len(up) |-> up[k].kind]
<1>4. f \in [1 .. Len(up) -> Kinds]
  BY <1>2
<1>5. f \in Seq(Kinds) /\ Len(f) = Len(up)
  BY <1>1, <1>4
<1> QED
  BY <1>3, <1>5

LEMMA WriteKinds ==
  ASSUME NEW b, Buffer(b), NEW kind \in Kinds, NEW length \in Int,
         NEW w, w = Write(b, kind, length)
  PROVE  /\ Buffer(w) /\ KindsOf(w.up) = KindsOf(b.up) \o <<kind>>
         /\ w.up[Len(w.up)].end = w.index
<1>1. /\ Buffer(w) /\ Len(w.up) = Len(b.up) + 1
      /\ \A k \in 1 .. Len(b.up) : w.up[k] = b.up[k]
      /\ w.up[Len(b.up) + 1].kind = kind
      /\ w.up[Len(b.up) + 1].end = w.index
  BY WriteIs
<1> DEFINE s == KindsOf(b.up)
           u == KindsOf(w.up)
           n == Len(b.up)
<1>2. /\ s \in Seq(Kinds) /\ Len(s) = n
      /\ \A k \in 1 .. n : s[k] = b.up[k].kind
  BY KindsOfIs DEF Buffer
<1>3. /\ u \in Seq(Kinds) /\ Len(u) = n + 1
      /\ \A k \in 1 .. n + 1 : u[k] = w.up[k].kind
  BY <1>1, KindsOfIs DEF Buffer
<1>4. n \in Nat
  BY DEF Buffer
<1>5. /\ \A k \in 1 .. n : u[k] = s[k]
      /\ u[n + 1] = kind
  <2>1. \A k \in 1 .. n : k \in 1 .. n + 1
    BY <1>4
  <2>2. n + 1 \in 1 .. n + 1
    BY <1>4
  <2> QED
    BY <1>1, <1>2, <1>3, <2>1, <2>2, Zenon
<1> HIDE DEF s, u, n
<1>6. /\ s \o <<kind>> \in Seq(Kinds) /\ Len(s \o <<kind>>) = n + 1
      /\ \A k \in 1 .. n : (s \o <<kind>>)[k] = s[k]
      /\ (s \o <<kind>>)[n + 1] = kind
  BY <1>2, <1>4
<1>7. \A k \in 1 .. Len(u) : u[k] = (s \o <<kind>>)[k]
  BY <1>3, <1>4, <1>5, <1>6
<1>8. Len(u) = Len(s \o <<kind>>)
  BY <1>3, <1>6
<1>9. u = s \o <<kind>>
  BY <1>3, <1>6, <1>7, <1>8, SeqEqual
<1> QED
  BY <1>1, <1>9, Zenon DEF s, u

\* n packets with the commas between them.
Alternating(n) == [k \in 1 .. 2 * n - 1 |-> Between(k)]

LEMMA AlternatingIs ==
  ASSUME NEW n \in Nat \ {0}
  PROVE  /\ Alternating(n) \in Seq(Kinds) /\ Len(Alternating(n)) = 2 * n - 1
         /\ \A k \in 1 .. 2 * n - 1 : Alternating(n)[k] = Between(k)
<1> DEFINE f == [k \in 1 .. 2 * n - 1 |-> Between(k)]
<1>1. \A k \in 1 .. 2 * n - 1 : Between(k) \in Kinds
  BY DEF Between, Kinds
<1>2. f \in [1 .. 2 * n - 1 -> Kinds] /\ 2 * n - 1 \in Nat
  BY <1>1
<1>3. f \in Seq(Kinds) /\ Len(f) = 2 * n - 1
  BY <1>2
<1> QED
  BY <1>3, Zenon DEF Alternating

LEMMA PackedKinds ==
  ASSUME NEW n \in Nat \ {0}, NEW up, Packed(up, n)
  PROVE  KindsOf(up) = <<"object">> \o (<<"array">> \o Alternating(n))
<1> DEFINE s == Alternating(n)
           t == <<"array">> \o s
           u == <<"object">> \o t
           f == KindsOf(up)
<1>1. /\ s \in Seq(Kinds) /\ Len(s) = 2 * n - 1
      /\ \A k \in 1 .. 2 * n - 1 : s[k] = Between(k)
  BY AlternatingIs
<1>2. <<"array">> \in Seq(Kinds) /\ <<"object">> \in Seq(Kinds)
  BY DEF Kinds
<1>3. /\ up \in Seq(Piece) /\ Len(up) = 2 * n + 1
      /\ up[1].kind = "object" /\ up[2].kind = "array"
      /\ \A k \in 1 .. 2 * n - 1 : up[k + 2].kind = Between(k)
  BY Zenon DEF Packed
<1>4. /\ f \in Seq(Kinds) /\ Len(f) = 2 * n + 1
      /\ \A k \in 1 .. 2 * n + 1 : f[k] = up[k].kind
  <2>1. /\ f \in Seq(Kinds) /\ Len(f) = Len(up)
        /\ \A k \in 1 .. Len(up) : f[k] = up[k].kind
    BY <1>3, KindsOfIs
  <2>2. Len(up) = 2 * n + 1
    BY <1>3, Zenon
  <2> QED
    BY <2>1, <2>2
<1> HIDE DEF s, f
<1>5. /\ t \in Seq(Kinds) /\ Len(t) = 2 * n
      /\ t[1] = "array" /\ \A k \in 2 .. 2 * n : t[k] = s[k - 1]
  BY <1>1, <1>2
<1> HIDE DEF t
<1>6. /\ u \in Seq(Kinds) /\ Len(u) = 2 * n + 1
      /\ u[1] = "object" /\ \A k \in 2 .. 2 * n + 1 : u[k] = t[k - 1]
  BY <1>2, <1>5
<1> HIDE DEF u
<1>7. ASSUME NEW k \in 1 .. 2 * n + 1
      PROVE  f[k] = u[k]
  <2>1. CASE k = 1
    BY <1>3, <1>4, <1>6, <2>1, Zenon
  <2>2. CASE k = 2
    <3>1. u[2] = t[1]
      BY <1>6
    <3> QED
      BY <1>3, <1>4, <1>5, <2>2, <3>1, Zenon
  <2>3. CASE k > 2
    <3>1. /\ k - 2 \in 1 .. 2 * n - 1 /\ k = (k - 2) + 2
          /\ k - 1 \in 2 .. 2 * n /\ k \in 2 .. 2 * n + 1 /\ (k - 1) - 1 = k - 2
      BY <2>3
    <3>2. f[k] = Between(k - 2)
      BY <1>3, <1>4, <3>1, Zenon
    <3>3. u[k] = t[k - 1] /\ t[k - 1] = s[k - 2]
      BY <1>5, <1>6, <3>1, Zenon
    <3> QED
      BY <1>1, <3>1, <3>2, <3>3, Zenon
  <2> QED
    BY <2>1, <2>2, <2>3
<1>8. f = u
  BY <1>4, <1>6, <1>7, SeqEqual
<1> QED
  BY <1>8 DEF f, u, t, s

LEMMA WriteIfKinds ==
  ASSUME NEW told \in BOOLEAN, NEW b, Buffer(b), NEW kind \in Kinds,
         NEW length \in Int, NEW w,
         w = IF told THEN Write(b, kind, length) ELSE b
  PROVE  /\ Buffer(w)
         /\ KindsOf(w.up) = KindsOf(b.up) \o (IF told THEN <<kind>> ELSE <<>>)
<1>1. CASE told
  BY <1>1, WriteKinds
<1>2. CASE ~told
  <2>1. KindsOf(b.up) \o <<>> = KindsOf(b.up)
    BY KindsOfIs, ConcatEmptySeq DEF Buffer
  <2> QED
    BY <1>2, <2>1
<1> QED
  BY <1>1, <1>2

\* What Close puts behind the packets, or behind the first brace.
Closing(n, told, length, array, comma, report, b) ==
  /\ n \in Nat /\ told \in BOOLEAN /\ length \in Int /\ Buffer(array)
  /\ n > 0 => KindsOf(array.up) = <<"object">> \o
                (<<"array">> \o Alternating(n)) \o <<"endarray">>
  /\ n = 0 => KindsOf(array.up) = <<"object">>
  /\ comma = (IF n > 0 /\ told THEN Write(array, "comma", 1) ELSE array)
  /\ report = (IF told THEN Write(comma, "stat", length) ELSE comma)
  /\ b = Write(report, "endobject", 1)

LEMMA ClosedKinds ==
  ASSUME NEW n, NEW told, NEW length, NEW array, NEW comma, NEW report, NEW b,
         Closing(n, told, length, array, comma, report, b)
  PROVE  KindsOf(b.up) = Shape(n, told) /\ b.up[Len(b.up)].end = b.index
<1> DEFINE s == Alternating(n)
           o == <<"object">>
           a == IF n = 0 THEN <<>> ELSE <<"array">> \o s \o <<"endarray">>
           c == IF n > 0 /\ told THEN <<"comma">> ELSE <<>>
           r == IF told THEN <<"stat">> ELSE <<>>
           e == <<"endobject">>
<1>1. "comma" \in Kinds
  BY DEF Kinds
<1>2. "stat" \in Kinds
  BY DEF Kinds
<1>3. "endobject" \in Kinds
  BY DEF Kinds
<1>4. 1 \in Int
  BY SMT
<1>5. /\ n \in Nat /\ told \in BOOLEAN /\ length \in Int
      /\ Buffer(array) /\ b = Write(report, "endobject", 1)
      /\ comma = (IF n > 0 /\ told THEN Write(array, "comma", 1)
                  ELSE array)
      /\ report = (IF told THEN Write(comma, "stat", length) ELSE comma)
  BY Zenon DEF Closing
<1>6. /\ o \in Seq(Kinds) /\ <<"array">> \in Seq(Kinds)
      /\ <<"endarray">> \in Seq(Kinds)
  BY DEF Kinds
<1>7. Shape(n, told) = o \o a \o c \o r \o e
  BY Zenon DEF Shape, Alternating, Between
<1>8. KindsOf(array.up) = o \o a
  <2>1. CASE n > 0
    <3>1. s \in Seq(Kinds)
      BY <1>5, <2>1, AlternatingIs
    <3> HIDE DEF s
    <3>2. <<"array">> \o s \in Seq(Kinds)
      BY <1>6, <3>1
    <3>3. (o \o (<<"array">> \o s)) \o <<"endarray">>
            = o \o (<<"array">> \o s \o <<"endarray">>)
      BY <1>6, <3>2, ConcatAssociative
    <3>4. KindsOf(array.up) = o \o (<<"array">> \o s) \o <<"endarray">>
      BY <2>1, Zenon DEF Closing, s
    <3> QED
      BY <2>1, <3>3, <3>4
  <2>2. CASE n = 0
    <3>1. a = <<>>
      BY <2>2
    <3>2. o \o <<>> = o
      BY <1>6, ConcatEmptySeq
    <3> QED
      BY <2>2, <3>1, <3>2, Zenon DEF Closing
  <2> QED
    BY <1>5, <2>1, <2>2
<1> HIDE DEF s, a, r, e
<1>9. Buffer(comma) /\ KindsOf(comma.up) = KindsOf(array.up) \o c
  <2>1. (n > 0 /\ told) \in BOOLEAN
    OBVIOUS
  <2> QED
    BY <1>1, <1>4, <1>5, <2>1, WriteIfKinds, ZenonT(60)
<1> HIDE DEF c
<1>10. Buffer(report) /\ KindsOf(report.up) = KindsOf(comma.up) \o r
  BY <1>2, <1>5, <1>9, WriteIfKinds, Zenon DEF r
<1>11. /\ Buffer(b) /\ KindsOf(b.up) = KindsOf(report.up) \o e
       /\ b.up[Len(b.up)].end = b.index
  BY <1>3, <1>4, <1>5, <1>10, WriteKinds, ZenonT(60) DEF e
<1> QED
  BY <1>7, <1>8, <1>9, <1>10, <1>11, Zenon

\* "removes rxpk:[": the first brace is left.
LEMMA EmptiedKinds ==
  ASSUME buff_up = Opened, buff_index = 21
  PROVE  /\ UpTo(Emptied) \in Seq(Piece) /\ Emptied \in Int
         /\ KindsOf(UpTo(Emptied)) = <<"object">>
<1>1. Emptied = 13
  BY DEF Emptied
<1> DEFINE D == {i \in DOMAIN Opened : Opened[i].end <= 13}
           first == Opened[1]
<1>2. D = 1 .. 1
  <2>1. DOMAIN Opened = 1 .. 2
    BY OpenedIs
  <2>2. 13 <= 13 /\ ~(21 <= 13)
    BY SMT
  <2>3. \A i : i \in 1 .. 2 <=> i = 1 \/ i = 2
    OBVIOUS
  <2>4. \A i : i \in 1 .. 1 <=> i = 1
    OBVIOUS
  <2>5. \A i : i \in D <=> i = 1
    BY OpenedIs, <2>1, <2>2, <2>3, Zenon
  <2> HIDE DEF D
  <2> QED
    BY <2>4, <2>5
<1>3. UpTo(Emptied) = [k \in D |-> Opened[k]]
  BY <1>1, Zenon DEF UpTo
<1>4. first \in Piece /\ first.kind = "object"
  BY OpenedIs, Zenon
<1> HIDE DEF D
<1>5. UpTo(Emptied) = [k \in 1 .. 1 |-> first]
  <2>1. [k \in 1 .. 1 |-> Opened[k]] = [k \in 1 .. 1 |-> first]
    BY SMT
  <2> QED
    BY <1>2, <1>3, <2>1
<1> HIDE DEF first
<1> DEFINE f == [k \in 1 .. 1 |-> first]
<1>6. f \in Seq(Piece) /\ Len(f) = 1 /\ f[1].kind = "object"
  BY <1>4
<1> HIDE DEF f
<1>7. /\ KindsOf(f) \in Seq(Kinds) /\ Len(KindsOf(f)) = 1
      /\ KindsOf(f)[1] = "object"
  BY <1>6, KindsOfIs
<1>8. KindsOf(f) = <<"object">>
  BY <1>7
<1>9. UpTo(Emptied) = f
  BY <1>5, Zenon DEF f
<1>10. Emptied \in Int
  BY <1>1
<1> QED
  BY <1>6, <1>8, <1>9, <1>10, Zenon

\* The pieces so far, in every state of thread_up.
Forming ==
  /\ send_report \in BOOLEAN /\ report_ready \in BOOLEAN
  /\ up_pc = "packets" =>
       /\ pkt_in_dgram = 0 => buff_up = Opened
       /\ pkt_in_dgram > 0 => Packed(buff_up, pkt_in_dgram)
  /\ DatagramWellFormed

LEMMA WrittenIs ==
  ASSUME Fitting, Forming, up_pc = "packets"
  PROVE  /\ Buffer(Written) /\ Written.up = buff_up
         /\ Written.index = buff_index
         /\ pkt_in_dgram \in Nat /\ status_report \in Int
         /\ pkt_in_dgram = 0 => buff_index = 21
<1>1. pkt_in_dgram \in Nat /\ buff_index \in Int /\ status_report \in Int
  BY RxpkAssumption DEF Fitting
<1>2. pkt_in_dgram = 0 => buff_index = 21
  BY DEF Fitting, Opening
<1>3. pkt_in_dgram = 0 \/ pkt_in_dgram > 0
  BY <1>1
<1>4. /\ pkt_in_dgram = 0 => buff_up = Opened
      /\ pkt_in_dgram > 0 => Packed(buff_up, pkt_in_dgram)
  BY Zenon DEF Forming
<1>5. buff_up \in Seq(Piece)
  BY <1>3, <1>4, OpenedIs, Zenon DEF Packed
<1>6. Written.up = buff_up /\ Written.index = buff_index
  BY Zenon DEF Written
<1> QED
  BY <1>1, <1>2, <1>5, <1>6, Zenon DEF Buffer

LEMMA ReportForms ==
  ASSUME Forming, NEW wide, NEW coordinates, NEW words \in Words,
         Report(wide, coordinates, words)
  PROVE  Forming'
<1>1. report_ready' = TRUE
  BY Zenon DEF Report
<1>2. UNCHANGED <<up_pc, pkt_in_dgram, buff_up, buff_index, send_report>>
  BY Zenon DEF Report
<1> QED
  BY <1>1, <1>2, Zenon DEF Forming, DatagramWellFormed

LEMMA SerialiseForms ==
  ASSUME Fitting, Forming, NEW p \in Packets, NEW stamped,
         Serialise(p, stamped)
  PROVE  Forming'
<1> DEFINE comma == WriteIf(pkt_in_dgram > 0, Written, "comma", 1)
           length == Metadata(p, stamped) + bin_to_b64(p.payload, Room).ret
           b == Write(comma, "packet", length)
<1>1. /\ up_pc = "packets" /\ buff_up' = b.up
      /\ pkt_in_dgram' = pkt_in_dgram + 1
      /\ UNCHANGED <<up_pc, send_report, report_ready, status_report>>
  BY Zenon DEF Serialise
<1>2. length \in Int
  BY SerialiseSize
<1>3. comma = IF pkt_in_dgram > 0 THEN Write(Written, "comma", 1) ELSE Written
  BY Zenon DEF WriteIf
<1>4. /\ Buffer(Written) /\ Written.up = buff_up /\ pkt_in_dgram \in Nat
  BY <1>1, WrittenIs, Zenon
<1>5. /\ pkt_in_dgram = 0 => Written.up = Opened
      /\ pkt_in_dgram > 0 => Packed(Written.up, pkt_in_dgram)
  BY <1>1, <1>4, Zenon DEF Forming
<1>6. Packed(b.up, pkt_in_dgram + 1)
  <2> HIDE DEF length, comma
  <2> QED
    BY <1>2, <1>3, <1>4, <1>5, PackedMore, Zenon
<1> HIDE DEF b
<1>7. pkt_in_dgram' > 0 /\ pkt_in_dgram' # 0
  BY <1>1, <1>4
<1>8. up_pc' # "send" /\ up_pc' = "packets"
  BY <1>1
<1>9. Packed(buff_up', pkt_in_dgram')
  BY <1>1, <1>6, Zenon
<1> QED
  BY <1>1, <1>7, <1>8, <1>9, Zenon DEF Forming, DatagramWellFormed

LEMMA CloseForms ==
  ASSUME Fitting, Forming, Close
  PROVE  Forming'
<1> DEFINE array == IF pkt_in_dgram > 0 THEN Write(Written, "endarray", 1)
                    ELSE [up |-> UpTo(Emptied), index |-> Emptied]
           comma == WriteIf(pkt_in_dgram > 0 /\ send_report, array, "comma", 1)
           stat == WriteIf(send_report, comma, "stat", status_report)
           b == Write(stat, "endobject", 1)
<1>1. up_pc = "packets"
  BY Zenon DEF Close
<1>2. /\ UNCHANGED <<pkt_in_dgram, send_report, status_report>>
      /\ report_ready' \in BOOLEAN
      /\ \/ up_pc' = "fetch"
         \/ /\ up_pc' = "send" /\ buff_up' = b.up /\ buff_index' = b.index
            /\ ~(pkt_in_dgram = 0 /\ ~send_report)
  BY Zenon DEF Close
<1>3. /\ Buffer(Written) /\ Written.up = buff_up /\ pkt_in_dgram \in Nat
      /\ status_report \in Int
      /\ pkt_in_dgram = 0 => buff_index = 21
  BY <1>1, WrittenIs, Zenon
<1>4. /\ pkt_in_dgram = 0 => buff_up = Opened
      /\ pkt_in_dgram > 0 => Packed(Written.up, pkt_in_dgram)
      /\ send_report \in BOOLEAN
  BY <1>1, <1>3, Zenon DEF Forming
<1>5. /\ Buffer(array)
      /\ pkt_in_dgram > 0 =>
           KindsOf(array.up) = <<"object">> \o
             (<<"array">> \o Alternating(pkt_in_dgram)) \o <<"endarray">>
      /\ pkt_in_dgram = 0 => KindsOf(array.up) = <<"object">>
  <2>1. CASE pkt_in_dgram > 0
    <3>1. array = Write(Written, "endarray", 1)
      BY <2>1, Zenon
    <3>2. "endarray" \in Kinds
      BY DEF Kinds
    <3>3. 1 \in Int /\ pkt_in_dgram # 0 /\ pkt_in_dgram \in Nat \ {0}
      BY <1>3, <2>1
    <3> HIDE DEF array, comma, stat, b
    <3>4. /\ Buffer(array)
          /\ KindsOf(array.up) = KindsOf(Written.up) \o <<"endarray">>
      BY <1>3, <3>1, <3>2, <3>3, WriteKinds, Zenon
    <3>5. KindsOf(Written.up)
            = <<"object">> \o (<<"array">> \o Alternating(pkt_in_dgram))
      BY <1>4, <2>1, <3>3, PackedKinds, Zenon
    <3> QED
      BY <3>3, <3>4, <3>5, Zenon
  <2>2. CASE pkt_in_dgram = 0
    <3>1. /\ UpTo(Emptied) \in Seq(Piece) /\ Emptied \in Int
          /\ KindsOf(UpTo(Emptied)) = <<"object">>
      BY <1>3, <1>4, <2>2, EmptiedKinds, Zenon
    <3>2. ~(pkt_in_dgram > 0)
      BY <2>2
    <3>3. array.up = UpTo(Emptied) /\ array.index = Emptied
      BY <3>2, Zenon
    <3> HIDE DEF array
    <3> QED
      BY <3>1, <3>2, <3>3, Zenon DEF Buffer
  <2> QED
    BY <1>3, <2>1, <2>2
<1> HIDE DEF array
<1>6. comma = IF pkt_in_dgram > 0 /\ send_report THEN Write(array, "comma", 1)
              ELSE array
  BY Zenon DEF WriteIf
<1>7. stat = IF send_report THEN Write(comma, "stat", status_report)
             ELSE comma
  BY <1>4, Zenon DEF WriteIf
<1>8. /\ KindsOf(b.up) = Shape(pkt_in_dgram, send_report)
      /\ b.up[Len(b.up)].end = b.index
  <2>1. b = Write(stat, "endobject", 1)
    BY Zenon
  <2> HIDE DEF comma, stat, b
  <2>2. /\ pkt_in_dgram \in Nat /\ send_report \in BOOLEAN
        /\ status_report \in Int /\ Buffer(array)
    BY <1>3, <1>4, <1>5, Zenon
  <2>3. Closing(pkt_in_dgram, send_report, status_report,
                array, comma, stat, b)
    BY <1>5, <1>6, <1>7, <2>1, <2>2, Zenon DEF Closing
  <2> QED
    BY <2>3, ClosedKinds, Zenon
<1> HIDE DEF b
<1>9. DatagramWellFormed'
  <2>1. CASE up_pc' = "fetch"
    BY <2>1 DEF DatagramWellFormed
  <2>2. CASE up_pc' # "fetch"
    <3>1. pkt_in_dgram > 0 \/ send_report
      BY <1>2, <1>3, <2>2
    <3>2. /\ buff_up' = b.up /\ buff_index' = b.index
          /\ UNCHANGED <<pkt_in_dgram, send_report>>
      BY <1>2, <2>2, Zenon
    <3> QED
      BY <1>8, <3>1, <3>2, Zenon DEF DatagramWellFormed, KindsOf
  <2> QED
    BY <2>1, <2>2
<1> QED
  <2>1. up_pc' # "packets"
    BY <1>2
  <2> QED
    BY <1>2, <1>4, <1>9, <2>1, Zenon DEF Forming

LEMMA ThreadUpForms ==
  ASSUME Fitting, Forming, ThreadUp
  PROVE  Forming'
<1>1. ASSUME NEW n, Fetch(n, gps.valid) PROVE Forming'
  <2>1. /\ up_pc' = "packets" /\ pkt_in_dgram' = 0 /\ buff_up' = Opened
        /\ send_report' = report_ready
        /\ UNCHANGED <<report_ready, status_report>>
    BY <1>1, Zenon DEF Fetch, Opened
  <2>2. ~(pkt_in_dgram' > 0) /\ up_pc' # "send"
    BY <2>1
  <2> QED
    BY <2>1, <2>2, Zenon DEF Forming, DatagramWellFormed
<1>2. CASE Skip
  <2>1. UNCHANGED <<up_pc, pkt_in_dgram, buff_up, buff_index, send_report,
                    report_ready, status_report>>
    BY <1>2, Zenon DEF Skip
  <2> QED
    BY <2>1, Zenon DEF Forming, DatagramWellFormed
<1>3. CASE Send
  <2>1. /\ up_pc' = "fetch"
        /\ UNCHANGED <<send_report, report_ready, status_report>>
    BY <1>3, Zenon DEF Send
  <2>2. up_pc' # "packets" /\ up_pc' # "send"
    BY <2>1
  <2> QED
    BY <2>1, <2>2, Zenon DEF Forming, DatagramWellFormed
<1> QED
  BY <1>1, <1>2, <1>3, CloseForms, SerialiseForms, Zenon DEF ThreadUp

LEMMA UpStandsForms ==
  ASSUME Forming, UNCHANGED <<up_pc, pkt_in_dgram, buff_up, buff_index,
                              send_report, report_ready, status_report>>
  PROVE  Forming'
  BY Zenon DEF Forming, DatagramWellFormed

LEMMA NextForms ==
  ASSUME Fitting, Forming, [Next]_vars
  PROVE  Forming'
<1>1. ASSUME NEW p \in Packets, Fatal(p) PROVE Forming'
  BY <1>1, UpStandsForms, Zenon DEF Fatal
<1>2. CASE Main
  BY <1>2, ReportForms, Zenon DEF Main
<1>3. CASE Reference \/ \E d \in Datagrams : PullResp(d)
  BY <1>3, UpStandsForms, Zenon DEF Reference, PullResp, upVars
<1>4. CASE UNCHANGED vars
  BY <1>4, UpStandsForms, Zenon DEF vars, upVars
<1> QED
  BY <1>1, <1>2, <1>3, <1>4, ThreadUpForms, Zenon DEF Next, UpFails

LEMMA SpecForming == Spec => []Forming
<1>1. Init => Forming
  <2> SUFFICES ASSUME Init PROVE Forming
    OBVIOUS
  <2>1. /\ up_pc = "fetch" /\ send_report = FALSE /\ report_ready = FALSE
    BY Zenon DEF Init, UpInit
  <2>2. up_pc # "packets" /\ up_pc # "send"
    BY <2>1
  <2> QED
    BY <2>1, <2>2, Zenon DEF Forming, DatagramWellFormed
<1>2. Fitting /\ Forming /\ [Next]_vars => Forming'
  BY NextForms, Zenon
<1> QED
  BY <1>1, <1>2, SpecFitting, PTL DEF Spec

\* Every datagram that is sent has the form of one JSON object: the packets in
\* their array, separated by commas, and the report behind them, whatever
\* packets were left out.  It is JSON if each packet and the report are.
THEOREM SpecDatagramWellFormed == Spec => []DatagramWellFormed
<1>1. Forming => DatagramWellFormed
  BY Zenon DEF Forming
<1> QED
  BY <1>1, SpecForming, PTL
-----------------------------------------------------------------------------
(***************************************************************************)
(* thread_up: the text of a packet.                                        *)
(***************************************************************************)
LEMMA EmptyEncoded == Encodes(<<>>, <<>>)
<1> DEFINE in == <<>>
           n == TextLength(Len(in))
           pads == Pads(Padding(n))
<1>1. in \in Seq(0 .. 255) /\ Len(in) = 0
  BY SMT
<1>2. n = 0 /\ Padding(n) = 0
  <2>1. n = 0
    BY SMT DEF TextLength
  <2> HIDE DEF n
  <2> QED
    BY <2>1, SMT DEF Padding
<1>3. Chars(in) \in Seq(Int) /\ Len(Chars(in)) = 0
  <2> HIDE DEF in
  <2> QED
    BY <1>1, <1>2, CharsAre, Zenon DEF n
<1>4. pads \in Seq(Int) /\ Len(pads) = 0
  <2>1. 0 \in Nat
    BY SMT
  <2> HIDE DEF n
  <2> QED
    BY <1>2, <2>1, PadsAre, Zenon
<1>5. Chars(in) = <<>> /\ pads = <<>>
  <2> HIDE DEF pads
  <2> QED
    BY <1>3, <1>4, SMT
<1>6. Chars(in) \o pads = <<>>
  <2> HIDE DEF pads
  <2> QED
    BY <1>5, SMT
<1>7. Encodes(Chars(in) \o pads, in)
  <2> HIDE DEF in
  <2> QED
    BY <1>1, CharsEncode, Zenon DEF pads, n
<1> HIDE DEF pads
<1> QED
  BY <1>6, <1>7, Zenon DEF in

\* What serialising a packet and ending a datagram leave behind.
LEMMA SerialiseEncodes ==
  ASSUME NEW p \in Packets, NEW stamped, Serialise(p, stamped)
  PROVE  Encodes(data'.text, data'.payload)
<1> DEFINE in == p.payload
           t == bin_to_b64(in, Room)
           text == SubSeq(t.out, 1, t.ret)
<1>1. in \in Seq(0 .. 255)
  BY DatagramsAssumption
<1>2. t.ret >= 0 /\ data' = [payload |-> in, text |-> text]
  BY Zenon DEF Serialise
<1>3. Room \in Nat \ {0}
  BY SMT DEF Room
<1>4. Encodes(text, in)
  <2>1. text = Chars(in) \o Pads(Padding(TextLength(Len(in))))
    <3> HIDE DEF in
    <3> QED
      BY <1>1, <1>2, <1>3, TextIs, Zenon
  <2> HIDE DEF text, in
  <2> QED
    BY <1>1, <2>1, CharsEncode, Zenon
<1> HIDE DEF text, in, t
<1>5. data'.text = text /\ data'.payload = in
  BY <1>2, SMT
<1> QED
  BY <1>4, <1>5, Zenon

LEMMA NextEncodes ==
  ASSUME PayloadEncoded, [Next]_vars
  PROVE  PayloadEncoded'
<1> DEFINE E == Encodes(data.text, data.payload)
<1>1. CASE UNCHANGED data /\ Running
  <2>1. E
    BY <1>1, Zenon DEF PayloadEncoded
  <2> QED
    BY <1>1, <2>1, Zenon DEF PayloadEncoded
<1>2. CASE data' = NoData
  <2>1. data'.text = <<>> /\ data'.payload = <<>>
    BY <1>2, SMT DEF NoData
  <2> QED
    BY <2>1, EmptyEncoded, Zenon DEF PayloadEncoded
<1>3. CASE UNCHANGED vars
  BY <1>3, Zenon DEF PayloadEncoded, vars, upVars, Running
<1>4. CASE Reference
  BY <1>1, <1>4, Zenon DEF Reference, upVars
<1>5. CASE ThreadUp
  <2>1. Running
    BY <1>5, Zenon DEF ThreadUp
  <2>2. CASE \E n \in 0 .. NB_PKT_MAX : Fetch(n, gps.valid)
    BY <1>1, <2>1, <2>2, Zenon DEF Fetch
  <2>3. CASE Skip
    BY <1>1, <2>1, <2>3, Zenon DEF Skip
  <2>4. CASE Close
    BY <1>2, <2>4, Zenon DEF Close
  <2>5. CASE Send
    BY <1>1, <2>1, <2>5, Zenon DEF Send
  <2>6. CASE \E p \in Packets, stamped \in Stamped(gps.active) :
               Serialise(p, stamped)
    <3>1. Encodes(data'.text, data'.payload)
      BY <2>6, SerialiseEncodes, Zenon
    <3> QED
      BY <3>1, Zenon DEF PayloadEncoded
  <2> QED
    BY <1>5, <2>2, <2>3, <2>4, <2>5, <2>6, Zenon DEF ThreadUp
<1>6. CASE UpFails
  <2>1. ~Running'
    BY <1>6, SMT DEF UpFails, Running
  <2> QED
    BY <2>1, Zenon DEF PayloadEncoded
<1>7. CASE Main
  BY <1>1, <1>7, Zenon DEF Main, Report
<1>8. CASE \E d \in Datagrams : PullResp(d)
  BY <1>1, <1>8, Zenon DEF PullResp, upVars
<1> QED
  BY <1>3, <1>4, <1>5, <1>6, <1>7, <1>8, Zenon DEF Next

\* PayloadEncoded: the text of a packet is the base64 form of whatever bytes
\* the radio received, to the last padding character.
THEOREM SpecPayloadEncoded == Spec => []PayloadEncoded
<1>1. Init => PayloadEncoded
  <2>1. NoData.text = <<>> /\ NoData.payload = <<>>
    BY SMT DEF NoData
  <2>2. Init => data = NoData
    BY Zenon DEF Init, UpInit
  <2> QED
    BY <2>1, <2>2, EmptyEncoded, Zenon DEF PayloadEncoded
<1>2. PayloadEncoded /\ [Next]_vars => PayloadEncoded'
  BY NextEncodes, Zenon
<1> QED
  BY <1>1, <1>2, PTL DEF Spec
-----------------------------------------------------------------------------
(***************************************************************************)
(* thread_down: nothing is left of an earlier PULL_RESP.                   *)
(***************************************************************************)
\* A state of the stages is a record of its five fields, whatever they hold.
Fielded(s) == s \in [txpkt : {s.txpkt}, immediate : {s.immediate},
                     local_ref : {s.local_ref}, isdst : {s.isdst},
                     status : {s.status}]

LEMMA SetTxpkt ==
  ASSUME NEW s, Fielded(s), NEW x
  PROVE  LET t == [s EXCEPT !.txpkt = x]
         IN  /\ Fielded(t) /\ t.txpkt = x /\ t.status = s.status
             /\ t.immediate = s.immediate /\ t.isdst = s.isdst
  BY SMT DEF Fielded

Dated(s, i, x) == [s EXCEPT !.isdst = i, !.txpkt = x]

IsDated(t, s, i, x) ==
  /\ Fielded(t) /\ t.txpkt = x /\ t.status = s.status
  /\ t.immediate = s.immediate /\ t.isdst = i

LEMMA SetDated ==
  ASSUME NEW s, Fielded(s), NEW i, NEW x
  PROVE  IsDated(Dated(s, i, x), s, i, x)
<1> DEFINE m == [s EXCEPT !.isdst = i]
           n == [m EXCEPT !.txpkt = x]
<1>1. /\ Fielded(m) /\ m.isdst = i /\ m.status = s.status
      /\ m.immediate = s.immediate
  BY SMT DEF Fielded
<1>2. Dated(s, i, x) = n
  BY Zenon DEF Dated
<1> HIDE DEF m
<1>3. /\ Fielded(n) /\ n.txpkt = x /\ n.status = m.status
      /\ n.immediate = m.immediate /\ n.isdst = m.isdst
  BY <1>1, SetTxpkt, Zenon
<1> HIDE DEF n
<1> QED
  BY <1>1, <1>2, <1>3, Zenon DEF IsDated

LEMMA SetImmediate ==
  ASSUME NEW s, Fielded(s), NEW x
  PROVE  LET t == [s EXCEPT !.immediate = x]
         IN  /\ Fielded(t) /\ t.txpkt = s.txpkt /\ t.status = s.status
             /\ t.immediate = x /\ t.isdst = s.isdst
  BY SMT DEF Fielded

LEMMA SetRef ==
  ASSUME NEW s, Fielded(s), NEW x
  PROVE  LET t == [s EXCEPT !.local_ref = x]
         IN  /\ Fielded(t) /\ t.txpkt = s.txpkt /\ t.status = s.status
             /\ t.immediate = s.immediate /\ t.isdst = s.isdst
  BY SMT DEF Fielded

LEMMA SetStatus ==
  ASSUME NEW s, Fielded(s), NEW x
  PROVE  LET t == [s EXCEPT !.status = x]
         IN  /\ Fielded(t) /\ t.txpkt = s.txpkt /\ t.status = x
             /\ t.immediate = s.immediate /\ t.isdst = s.isdst
  BY SMT DEF Fielded

\* Two states that agree on all that the later stages read.
Alike(s, t) ==
  /\ Fielded(s) /\ Fielded(t)
  /\ s.status = t.status /\ s.txpkt = t.txpkt
  /\ s.status = "go" => s.immediate = t.immediate

LEMMA AbortAlike ==
  ASSUME NEW s, NEW t, Fielded(s), Fielded(t), s.txpkt = t.txpkt
  PROVE  Alike(Abort(s), Abort(t))
<1>1. /\ Fielded(Abort(s)) /\ Abort(s).txpkt = s.txpkt
      /\ Abort(s).status = "abort"
  BY SetStatus, Zenon DEF Abort
<1>2. /\ Fielded(Abort(t)) /\ Abort(t).txpkt = t.txpkt
      /\ Abort(t).status = "abort"
  BY SetStatus, Zenon DEF Abort
<1>3. "abort" # "go"
  OBVIOUS
<1> QED
  BY <1>1, <1>2, <1>3, Zenon DEF Alike

LEMMA StageAlike ==
  ASSUME NEW s, NEW t, Alike(s, t), NEW ok, NEW m, NEW n,
         s.status = "go" /\ ok => Alike(m, n)
  PROVE  Alike(Stage(s, ok, m), Stage(t, ok, n))
<1>1. Alike(Abort(s), Abort(t))
  BY AbortAlike, ZenonT(60) DEF Alike
<1>2. s.status = t.status
  BY Zenon DEF Alike
<1> QED
  BY <1>1, <1>2, Zenon DEF Stage

LEMMA FillAlike ==
  ASSUME NEW s, NEW t, Alike(s, t), NEW ok, NEW x, NEW y,
         s.status = "go" => x = y
  PROVE  Alike(Fill(s, ok, x), Fill(t, ok, y))
<1> DEFINE m == [s EXCEPT !.txpkt = x]
           n == [t EXCEPT !.txpkt = y]
<1>1. /\ Fielded(m) /\ m.txpkt = x /\ m.status = s.status
      /\ m.immediate = s.immediate
  BY SetTxpkt, Zenon DEF Alike
<1>2. /\ Fielded(n) /\ n.txpkt = y /\ n.status = t.status
      /\ n.immediate = t.immediate
  BY SetTxpkt, Zenon DEF Alike
<1>3. Fill(s, ok, x) = Stage(s, ok, m) /\ Fill(t, ok, y) = Stage(t, ok, n)
  BY Zenon DEF Fill
<1> HIDE DEF m, n
<1>4. s.status = "go" => Alike(m, n)
  BY <1>1, <1>2, Zenon DEF Alike
<1> QED
  BY <1>3, <1>4, StageAlike, Zenon

LEMMA StartAlike ==
  ASSUME NEW s, Fielded(s)
  PROVE  /\ Fielded(Start(s)) /\ Start(s).txpkt = ZeroTxpkt
         /\ Start(s).status = "go" /\ Start(s).isdst = s.isdst
<1> DEFINE m == [s EXCEPT !.status = "go"]
<1>1. Fielded(m) /\ m.status = "go" /\ m.isdst = s.isdst
  BY SetStatus, Zenon
<1>2. Start(s) = [m EXCEPT !.txpkt = ZeroTxpkt]
  BY Zenon DEF Start, Cleared
<1> HIDE DEF m
<1> DEFINE n == [m EXCEPT !.txpkt = ZeroTxpkt]
<1>3. /\ Fielded(n) /\ n.txpkt = ZeroTxpkt /\ n.status = m.status
      /\ n.isdst = m.isdst
  BY <1>1, SetTxpkt, Zenon
<1> HIDE DEF n
<1>4. Start(s) = n
  BY <1>2, Zenon DEF n
<1> QED
  BY <1>1, <1>3, <1>4, Zenon

\* What tm_isdst may do to d is the same in s and in t.
SameTime(s, t, d) == s.isdst = t.isdst \/ ~Timed(d) \/ Summer = {}

LEMMA WhenAlike ==
  ASSUME NEW s, NEW t, Fielded(s), Fielded(t), s.txpkt = t.txpkt,
         s.status = "go", t.status = "go", NEW d, NEW g, SameTime(s, t, d)
  PROVE  Alike(When(s, d, g), When(t, d, g))
<1> DEFINE now(u) == [u EXCEPT !.immediate = TRUE]
           later(u) == [u EXCEPT !.immediate = FALSE]
           timed(u) == [later(u) EXCEPT !.local_ref = g.ref]
<1>1. ASSUME NEW u, Fielded(u)
      PROVE  /\ Fielded(now(u)) /\ now(u).immediate = TRUE
             /\ now(u).txpkt = u.txpkt /\ now(u).status = u.status
  BY <1>1, SetImmediate, Zenon
<1>2. ASSUME NEW u, Fielded(u)
      PROVE  /\ Fielded(later(u)) /\ later(u).immediate = FALSE
             /\ later(u).txpkt = u.txpkt /\ later(u).status = u.status
  BY <1>2, SetImmediate, Zenon
<1> HIDE DEF later
<1>3. ASSUME NEW u, Fielded(u)
      PROVE  /\ Fielded(timed(u)) /\ timed(u).immediate = FALSE
             /\ timed(u).txpkt = u.txpkt /\ timed(u).status = u.status
  <2> DEFINE v == later(u)
  <2>1. /\ Fielded(v) /\ v.immediate = FALSE
        /\ v.txpkt = u.txpkt /\ v.status = u.status
    BY <1>2, <1>3, Zenon
  <2> HIDE DEF v
  <2> DEFINE w == [v EXCEPT !.local_ref = g.ref]
  <2>2. /\ Fielded(w) /\ w.txpkt = v.txpkt /\ w.status = v.status
        /\ w.immediate = v.immediate
    BY <2>1, SetRef, Zenon
  <2> HIDE DEF w
  <2>3. timed(u) = w
    BY Zenon DEF v, w
  <2> HIDE DEF timed
  <2> QED
    BY <2>1, <2>2, <2>3, Zenon
<1> DEFINE counted == [s.txpkt EXCEPT !.count_us = number(d.tmst)]
<1> HIDE DEF now, timed
<1>4. /\ Alike(now(s), now(t)) /\ Alike(later(s), later(t))
      /\ Alike(timed(s), timed(t))
  BY <1>1, <1>2, <1>3, ZenonT(60) DEF Alike
<1>5. CASE boolean(d.imme) = 1
  <2>1. When(s, d, g) = now(s) /\ When(t, d, g) = now(t)
    BY <1>5, Zenon DEF When, Stage, now
  <2> QED
    BY <1>4, <2>1, Zenon
<1>6. CASE boolean(d.imme) # 1 /\ d.tmst # Absent
  <2>1. /\ When(s, d, g) = Fill(later(s), TRUE, counted)
        /\ When(t, d, g) = Fill(later(t), TRUE, counted)
    BY <1>6, Zenon DEF When, later
  <2> HIDE DEF counted
  <2> QED
    BY <1>4, <2>1, FillAlike, Zenon
<1>7. CASE /\ boolean(d.imme) # 1 /\ d.tmst = Absent
           /\ ~IsString(d.time) \/ ~g.active \/ ~g.valid
  <2>1. When(s, d, g) = Abort(later(s)) /\ When(t, d, g) = Abort(later(t))
    BY <1>7, Zenon DEF When, later
  <2> QED
    BY <1>2, <2>1, AbortAlike, Zenon
<1>8. CASE /\ boolean(d.imme) # 1 /\ d.tmst = Absent
           /\ ~(~IsString(d.time) \/ ~g.active \/ ~g.valid)
  <2> DEFINE ok == d.time[1] = "utc"
             summer == Isdst(d.time[2])
             at(u) == mktime(d.time[2], u.isdst)
             counts(x, a) == [x EXCEPT !.count_us = utc2cnt(g.ref, a)]
             dated(u) == [timed(u) EXCEPT !.isdst = summer,
                                          !.txpkt = counts(u.txpkt, at(u))]
  <2>1. /\ When(s, d, g) = Stage(timed(s), ok, dated(s))
        /\ When(t, d, g) = Stage(timed(t), ok, dated(t))
    BY <1>8, Zenon DEF When, later, timed
  <2>2. at(s) = at(t)
    <3>1. s.isdst = t.isdst \/ Summer = {}
      BY <1>8, Zenon DEF SameTime, Timed
    <3>2. CASE s.isdst = t.isdst
      BY <3>2, Zenon
    <3>3. CASE Summer = {}
      BY <3>3, Zenon DEF mktime
    <3> QED
      BY <3>1, <3>2, <3>3, Zenon
  <2> HIDE DEF at, summer, ok, counts
  <2>3. ASSUME NEW u, Fielded(u)
        PROVE  /\ Fielded(dated(u)) /\ dated(u).immediate = FALSE
               /\ dated(u).txpkt = counts(u.txpkt, at(u))
               /\ dated(u).status = u.status
    <3> DEFINE v == timed(u)
               x == counts(u.txpkt, at(u))
    <3>1. Fielded(v) /\ v.immediate = FALSE /\ v.status = u.status
      BY <1>3, <2>3, Zenon
    <3> HIDE DEF v, x
    <3> DEFINE w == Dated(v, summer, x)
    <3>2. IsDated(w, v, summer, x)
      BY <3>1, SetDated, Zenon
    <3> HIDE DEF w
    <3>3. dated(u) = w
      BY Zenon DEF v, w, x, Dated
    <3> HIDE DEF dated
    <3> QED
      BY <3>1, <3>2, <3>3, Zenon DEF x, IsDated
  <2> HIDE DEF dated
  <2>4. Alike(dated(s), dated(t))
    BY <2>2, <2>3, ZenonT(60) DEF Alike
  <2> QED
    BY <1>4, <2>1, <2>4, StageAlike, Zenon
<1> QED
  BY <1>5, <1>6, <1>7, <1>8, Zenon

LEMMA RadioAlike ==
  ASSUME NEW s, NEW t, Alike(s, t), NEW d
  PROVE  Alike(Radio(s, d), Radio(t, d))
<1> DEFINE ok == d.freq # Absent /\ d.rfch # Absent
           next(u) == [u EXCEPT !.no_crc = IF d.ncrc = Absent THEN @
                                           ELSE bool(boolean(d.ncrc)),
                                !.freq_hz = number(d.freq),
                                !.rf_chain = number(d.rfch) % 256,
                                !.rf_power = IF d.powe = Absent THEN @
                                             ELSE number(d.powe)]
<1>1. /\ Radio(s, d) = Fill(s, ok, next(s.txpkt))
      /\ Radio(t, d) = Fill(t, ok, next(t.txpkt))
  BY Zenon DEF Radio
<1>2. next(s.txpkt) = next(t.txpkt)
  BY ZenonT(60) DEF Alike
<1> HIDE DEF ok, next
<1> QED
  BY <1>1, <1>2, FillAlike, Zenon

LEMMA ModulationAlike ==
  ASSUME NEW s, NEW t, Alike(s, t), NEW d
  PROVE  Alike(Modulation(s, d), Modulation(t, d))
<1>1. Alike(Lora(s, d), Lora(t, d))
  <2> DEFINE ok == /\ d.datr[1] = "datr"
                   /\ d.datr[2] \in 7 .. 12 /\ d.datr[3] \in {125, 250, 500}
                   /\ coderate(d.codr) # 0
             next(u) == [u EXCEPT !.modulation = "LORA",
                                  !.datarate = d.datr[2],
                                  !.bandwidth = d.datr[3],
                                  !.coderate = coderate(d.codr),
                                  !.invert_pol = IF d.ipol = Absent THEN @
                                                 ELSE bool(boolean(d.ipol)),
                                  !.preamble = Preamble(d.prea, MIN_LORA_PREAMB,
                                                        STD_LORA_PREAMB)]
  <2>1. /\ Lora(s, d) = Fill(s, ok, next(s.txpkt))
        /\ Lora(t, d) = Fill(t, ok, next(t.txpkt))
    BY Zenon DEF Lora
  <2>2. next(s.txpkt) = next(t.txpkt)
    BY Zenon DEF Alike
  <2> HIDE DEF ok, next
  <2> QED
    BY <2>1, <2>2, FillAlike, Zenon
<1>2. Alike(Fsk(s, d), Fsk(t, d))
  <2> DEFINE ok == d.datr # Absent /\ d.fdev # Absent
             next(u) == [u EXCEPT !.modulation = "FSK",
                                  !.datarate = number(d.datr),
                                  !.f_dev = number(d.fdev) % 256,
                                  !.preamble = Preamble(d.prea, MIN_FSK_PREAMB,
                                                        STD_FSK_PREAMB)]
  <2>1. /\ Fsk(s, d) = Fill(s, ok, next(s.txpkt))
        /\ Fsk(t, d) = Fill(t, ok, next(t.txpkt))
    BY Zenon DEF Fsk
  <2>2. next(s.txpkt) = next(t.txpkt)
    BY Zenon DEF Alike
  <2> HIDE DEF ok, next
  <2> QED
    BY <2>1, <2>2, FillAlike, Zenon
<1>3. Alike(Stage(s, FALSE, s), Stage(t, FALSE, t))
  BY StageAlike, Zenon
<1>4. CASE d.modu = Str("LORA")
  BY <1>1, <1>4 DEF Modulation, Str
<1>5. CASE d.modu # Str("LORA") /\ d.modu = Str("FSK")
  BY <1>2, <1>5 DEF Modulation
<1>6. CASE d.modu # Str("LORA") /\ d.modu # Str("FSK")
  BY <1>3, <1>6 DEF Modulation
<1> QED
  BY <1>4, <1>5, <1>6

LEMMA PayloadAlike ==
  ASSUME NEW s, NEW t, Alike(s, t), NEW d
  PROVE  Alike(Payload(s, d), Payload(t, d))
<1> DEFINE bin == b64_to_bin(d.data[2], PAYLOAD_SIZE)
           ok == d.size # Absent /\ d.data[1] = "b64"
           next(u) == [u EXCEPT !.size = number(d.size) % 65536,
                                !.payload = Overwrite(@, bin.out)]
           exit(u) == [u EXCEPT !.status = "exit"]
           fill(u) == [u EXCEPT !.txpkt = next(u.txpkt)]
<1>1. ASSUME NEW u
      PROVE  /\ bin.ret = EXIT => Payload(u, d) = Stage(u, ok, exit(u))
             /\ bin.ret # EXIT => Payload(u, d) = Stage(u, ok, fill(u))
  <2> DEFINE last == IF bin.ret = EXIT THEN exit(u) ELSE fill(u)
  <2>1. Payload(u, d) = Stage(u, ok, last)
    BY DEF Payload
  <2>2. (bin.ret = EXIT => last = exit(u)) /\ (bin.ret # EXIT => last = fill(u))
    OBVIOUS
  <2> HIDE DEF last, bin, ok, exit, fill
  <2> QED
    BY <2>1, <2>2, Zenon
<1> HIDE DEF bin, ok, next
<1>2. ASSUME NEW u, Fielded(u)
      PROVE  /\ Fielded(exit(u)) /\ exit(u).txpkt = u.txpkt
             /\ exit(u).status = "exit" /\ exit(u).immediate = u.immediate
  BY <1>2, SetStatus, Zenon
<1>3. ASSUME NEW u, Fielded(u)
      PROVE  /\ Fielded(fill(u)) /\ fill(u).txpkt = next(u.txpkt)
             /\ fill(u).status = u.status /\ fill(u).immediate = u.immediate
  BY <1>3, SetTxpkt, Zenon
<1> HIDE DEF exit, fill
<1>4. s.status = "go" => Alike(exit(s), exit(t)) /\ Alike(fill(s), fill(t))
  BY <1>2, <1>3, ZenonT(60) DEF Alike
<1>5. CASE bin.ret = EXIT
  BY <1>1, <1>4, <1>5, StageAlike, Zenon
<1>6. CASE bin.ret # EXIT
  BY <1>1, <1>4, <1>6, StageAlike, Zenon
<1> QED
  BY <1>5, <1>6, Zenon

LEMMA ModeAlike ==
  ASSUME NEW s, NEW t, Alike(s, t)
  PROVE  Alike(Mode(s), Mode(t))
<1> DEFINE next(u) == [u.txpkt EXCEPT !.tx_mode =
                         IF u.immediate THEN "IMMEDIATE" ELSE "TIMESTAMPED"]
<1>1. Mode(s) = Fill(s, TRUE, next(s)) /\ Mode(t) = Fill(t, TRUE, next(t))
  BY Zenon DEF Mode
<1>2. s.status = "go" => next(s) = next(t)
  BY Zenon DEF Alike
<1> HIDE DEF next
<1> QED
  BY <1>1, <1>2, FillAlike, Zenon

LEMMA ParseAlike ==
  ASSUME NEW s, NEW t, Fielded(s), Fielded(t), NEW d, NEW g,
         SameTime(s, t, d)
  PROVE  Alike(Parse(s, d, g), Parse(t, d, g))
<1>1. /\ Fielded(Start(s)) /\ Fielded(Start(t))
      /\ Start(s).txpkt = Start(t).txpkt
      /\ Start(s).status = "go" /\ Start(t).status = "go"
      /\ SameTime(Start(s), Start(t), d)
  BY StartAlike, ZenonT(60) DEF SameTime
<1>2. CASE ~d.txpk
  BY <1>1, <1>2, AbortAlike, Zenon DEF Parse
<1>3. CASE d.txpk
  <2> DEFINE when(u) == When(Start(u), d, g)
  <2>1. Alike(when(s), when(t))
    BY <1>1, WhenAlike, Zenon
  <2> HIDE DEF when
  <2>2. Alike(Radio(when(s), d), Radio(when(t), d))
    BY <2>1, RadioAlike, Zenon
  <2>3. Alike(Modulation(Radio(when(s), d), d),
              Modulation(Radio(when(t), d), d))
    BY <2>2, ModulationAlike, Zenon
  <2>4. Alike(Payload(Modulation(Radio(when(s), d), d), d),
              Payload(Modulation(Radio(when(t), d), d), d))
    BY <2>3, PayloadAlike, Zenon
  <2>5. Alike(Mode(Payload(Modulation(Radio(when(s), d), d), d)),
              Mode(Payload(Modulation(Radio(when(t), d), d), d)))
    BY <2>4, ModeAlike, Zenon
  <2> QED
    BY <1>3, <2>5, Zenon DEF Parse, when
<1> QED
  BY <1>2, <1>3, Zenon

LEMMA FirstDownFielded ==
  ASSUME NEW isdst
  PROVE  Fielded(FirstDown(isdst)) /\ FirstDown(isdst).isdst = isdst
  BY SMT DEF Fielded, FirstDown

\* A state of thread_down between datagrams.
Left(s) == Fielded(s) /\ s.isdst \in -1 .. 1

LEMMA AbortLeft ==
  ASSUME NEW s, Left(s)
  PROVE  Left(Abort(s))
  BY SetStatus, Zenon DEF Abort, Left

LEMMA StageLeft ==
  ASSUME NEW s, Left(s), NEW ok, NEW n, Left(n)
  PROVE  Left(Stage(s, ok, n))
  BY AbortLeft, Zenon DEF Stage

LEMMA FillLeft ==
  ASSUME NEW s, Left(s), NEW ok, NEW x
  PROVE  Left(Fill(s, ok, x))
<1> DEFINE t == [s EXCEPT !.txpkt = x]
<1>1. Left(t)
  BY SetTxpkt, Zenon DEF Left
<1>2. Fill(s, ok, x) = Stage(s, ok, t)
  BY Zenon DEF Fill
<1> HIDE DEF t
<1> QED
  BY <1>1, <1>2, StageLeft, Zenon

LEMMA WhenLeft ==
  ASSUME NEW s, Left(s), NEW d, NEW g
  PROVE  Left(When(s, d, g))
<1> DEFINE now == [s EXCEPT !.immediate = TRUE]
           later == [s EXCEPT !.immediate = FALSE]
           timed == [later EXCEPT !.local_ref = g.ref]
           counted == [s.txpkt EXCEPT !.count_us = number(d.tmst)]
           summer == Isdst(d.time[2])
           x == [s.txpkt EXCEPT !.count_us =
                   utc2cnt(g.ref, mktime(d.time[2], s.isdst))]
           dated == [timed EXCEPT !.isdst = summer, !.txpkt = x]
           ok == d.time[1] = "utc"
<1>1. Left(now) /\ Left(later)
  BY SetImmediate, Zenon DEF Left
<1>2. Left(timed)
  <2> HIDE DEF later
  <2> QED
    BY <1>1, SetRef, Zenon DEF Left
<1>3. Left(dated)
  <2>1. summer \in -1 .. 1
    BY SMT DEF Isdst
  <2>2. dated = Dated(timed, summer, x)
    BY Zenon DEF Dated
  <2> HIDE DEF dated, timed, summer, x
  <2>3. IsDated(dated, timed, summer, x)
    BY <1>2, <2>2, SetDated, Zenon DEF Left
  <2> QED
    BY <2>1, <2>3, Zenon DEF Left, IsDated
<1>4. CASE boolean(d.imme) = 1
  <2>1. When(s, d, g) = Stage(s, TRUE, now)
    BY <1>4, Zenon DEF When
  <2> HIDE DEF now
  <2> QED
    BY <1>1, <2>1, StageLeft, Zenon
<1>5. CASE boolean(d.imme) # 1 /\ d.tmst # Absent
  <2>1. When(s, d, g) = Fill(later, TRUE, counted)
    BY <1>5, Zenon DEF When
  <2> HIDE DEF later, counted
  <2> QED
    BY <1>1, <2>1, FillLeft, Zenon
<1>6. CASE /\ boolean(d.imme) # 1 /\ d.tmst = Absent
           /\ ~IsString(d.time) \/ ~g.active \/ ~g.valid
  <2>1. When(s, d, g) = Abort(later)
    BY <1>6, Zenon DEF When
  <2> HIDE DEF later
  <2> QED
    BY <1>1, <2>1, AbortLeft, Zenon
<1>7. CASE /\ boolean(d.imme) # 1 /\ d.tmst = Absent
           /\ ~(~IsString(d.time) \/ ~g.active \/ ~g.valid)
  <2>1. When(s, d, g) = Stage(timed, ok, dated)
    BY <1>7, Zenon DEF When
  <2> HIDE DEF timed, dated, ok
  <2> QED
    BY <1>2, <1>3, <2>1, StageLeft, Zenon
<1> QED
  BY <1>4, <1>5, <1>6, <1>7, Zenon

LEMMA ModulationLeft ==
  ASSUME NEW s, Left(s), NEW d
  PROVE  Left(Modulation(s, d))
<1>1. Left(Lora(s, d)) /\ Left(Fsk(s, d))
  <2>1. \E ok, x : Lora(s, d) = Fill(s, ok, x)
    <3> DEFINE good == /\ d.datr[1] = "datr"
                       /\ d.datr[2] \in 7 .. 12
                       /\ d.datr[3] \in {125, 250, 500}
                       /\ coderate(d.codr) # 0
               next == [s.txpkt EXCEPT
                          !.modulation = "LORA", !.datarate = d.datr[2],
                          !.bandwidth = d.datr[3], !.coderate = coderate(d.codr),
                          !.invert_pol = IF d.ipol = Absent THEN @
                                         ELSE bool(boolean(d.ipol)),
                          !.preamble = Preamble(d.prea, MIN_LORA_PREAMB,
                                                STD_LORA_PREAMB)]
    <3>1. Lora(s, d) = Fill(s, good, next)
      BY Zenon DEF Lora
    <3> HIDE DEF good, next
    <3> QED
      BY <3>1, Zenon
  <2>2. \E ok, x : Fsk(s, d) = Fill(s, ok, x)
    BY SMT DEF Fsk
  <2> QED
    BY <2>1, <2>2, FillLeft, Zenon
<1>2. Left(Stage(s, FALSE, s))
  BY StageLeft, Zenon
<1>3. CASE d.modu = Str("LORA")
  BY <1>1, <1>3 DEF Modulation, Str
<1>4. CASE d.modu # Str("LORA") /\ d.modu = Str("FSK")
  BY <1>1, <1>4 DEF Modulation
<1>5. CASE d.modu # Str("LORA") /\ d.modu # Str("FSK")
  BY <1>2, <1>5 DEF Modulation
<1> QED
  BY <1>3, <1>4, <1>5

LEMMA PayloadLeft ==
  ASSUME NEW s, Left(s), NEW d
  PROVE  Left(Payload(s, d))
<1> DEFINE bin == b64_to_bin(d.data[2], PAYLOAD_SIZE)
           txpkt == [s.txpkt EXCEPT !.size = number(d.size) % 65536,
                                    !.payload = Overwrite(@, bin.out)]
           exit == [s EXCEPT !.status = "exit"]
           fill == [s EXCEPT !.txpkt = txpkt]
           next == IF bin.ret = EXIT THEN exit ELSE fill
           ok == d.size # Absent /\ d.data[1] = "b64"
<1>1. Payload(s, d) = Stage(s, ok, next)
  BY DEF Payload
<1>2. Left(exit)
  BY SetStatus, Zenon DEF Left
<1>3. Left(fill)
  <2> HIDE DEF txpkt
  <2> QED
    BY SetTxpkt, Zenon DEF Left
<1>4. Left(next)
  <2> HIDE DEF exit, fill, bin
  <2> QED
    BY <1>2, <1>3, Zenon
<1> HIDE DEF next, ok
<1> QED
  BY <1>1, <1>4, StageLeft, Zenon

LEMMA ParseLeft ==
  ASSUME NEW s, Left(s), NEW d, NEW g
  PROVE  Left(Parse(s, d, g))
<1>1. Left(Start(s))
  BY StartAlike, Zenon DEF Left
<1>2. Left(Abort(Start(s)))
  BY <1>1, AbortLeft, Zenon
<1>3. Left(Radio(When(Start(s), d, g), d))
  <2>1. ASSUME NEW t PROVE \E ok, x : Radio(t, d) = Fill(t, ok, x)
    BY SMT DEF Radio
  <2> QED
    BY <1>1, <2>1, WhenLeft, FillLeft, Zenon
<1>4. Left(Payload(Modulation(Radio(When(Start(s), d, g), d), d), d))
  BY <1>3, ModulationLeft, PayloadLeft, Zenon
<1>5. ASSUME NEW t, Left(t) PROVE Left(Mode(t))
  <2>1. \E x : Mode(t) = Fill(t, TRUE, x)
    BY Zenon DEF Mode
  <2> QED
    BY <1>5, <2>1, FillLeft, Zenon
<1> QED
  BY <1>2, <1>4, <1>5, Zenon DEF Parse

LEMMA SpecLeft == Spec => []Left(down)
<1>1. Init => Left(down)
  <2> SUFFICES ASSUME Init PROVE Left(down)
    OBVIOUS
  <2>1. PICK isdst \in -1 .. 1 : down = FirstDown(isdst)
    BY SMT DEF Init
  <2> QED
    BY <2>1, FirstDownFielded, Zenon DEF Left
<1>2. Left(down) /\ [Next]_vars => Left(down)'
  <2> SUFFICES ASSUME Left(down), [Next]_vars PROVE Left(down')
    BY Zenon DEF Left, Fielded
  <2>1. ASSUME NEW d \in Datagrams, PullResp(d) PROVE Left(down')
    BY <2>1, ParseLeft, Zenon DEF PullResp
  <2>2. CASE UNCHANGED down
    BY <2>2, Zenon
  <2> QED
    BY <2>1, <2>2, Zenon DEF Next, Reference, ThreadUp, UpFails, Main, vars
<1> QED
  BY <1>1, <1>2, PTL DEF Spec

\* What is transmitted for a PULL_RESP is a function of that datagram and of
\* the time reference, whatever PULL_RESP came before it: only tm_isdst may
\* be left of an earlier one, and it matters to no datagram but one with a
\* UTC time, where there is a summer time.
THEOREM SpecNothingLeftOver == Spec => NothingLeftOver
<1> DEFINE Step == [received'.txpk /\ down'.status = "go" =>
                      \E isdst \in Guesses(received') :
                        down'.txpkt
                          = Parse(FirstDown(isdst), received', gps).txpkt
                     ]_<<down, received>>
<1>1. Left(down) /\ [Next]_vars => Step
  <2> SUFFICES ASSUME Left(down), [Next]_vars PROVE Step
    OBVIOUS
  <2>1. ASSUME NEW d \in Datagrams, PullResp(d) PROVE Step
    <3>1. down' = Parse(down, d, gps) /\ received' = d
      BY <2>1, Zenon DEF PullResp
    <3>2. PICK isdst \in Guesses(d) : SameTime(down, FirstDown(isdst), d)
      <4>1. CASE Timed(d) /\ Summer # {}
        BY <4>1, FirstDownFielded, Zenon DEF Guesses, SameTime, Left
      <4>2. CASE ~(Timed(d) /\ Summer # {})
        BY <4>2, SMT DEF Guesses, SameTime
      <4> QED
        BY <4>1, <4>2, Zenon
    <3>3. Alike(Parse(down, d, gps), Parse(FirstDown(isdst), d, gps))
      BY <3>2, FirstDownFielded, ParseAlike, Zenon DEF Left
    <3> QED
      BY <3>1, <3>2, <3>3, Zenon DEF Alike
  <2>2. CASE UNCHANGED <<down, received>>
    BY <2>2, Zenon
  <2> QED
    BY <2>1, <2>2, Zenon DEF Next, Reference, ThreadUp, UpFails, Main, vars
<1> QED
  BY <1>1, SpecLeft, PTL DEF Spec, NothingLeftOver
-----------------------------------------------------------------------------
(***************************************************************************)
(* thread_down: what goes on the air.                                      *)
(***************************************************************************)
\* A packet whose payload is p.
Holds(x, p) == "payload" \in DOMAIN x /\ x.payload = p

\* A state of the stages before the payload: there are zeros.
Blank(s) == Fielded(s) /\ Holds(s.txpkt, Zeros)

LEMMA OtherField ==
  ASSUME NEW x, NEW p, Holds(x, p), NEW v
  PROVE  /\ Holds([x EXCEPT !.no_crc = v], p)
         /\ Holds([x EXCEPT !.count_us = v], p)
         /\ Holds([x EXCEPT !.tx_mode = v], p)
         /\ Holds([x EXCEPT !.size = v], p)
  BY SMT DEF Holds

LEMMA RadioFields ==
  ASSUME NEW x, NEW p, Holds(x, p), NEW a, NEW b, NEW c, NEW d
  PROVE  Holds([x EXCEPT !.no_crc = a, !.freq_hz = b, !.rf_chain = c,
                         !.rf_power = d], p)
  BY SMT DEF Holds

LEMMA LoraFields ==
  ASSUME NEW x, NEW p, Holds(x, p), NEW a, NEW b, NEW c, NEW d, NEW e
  PROVE  Holds([x EXCEPT !.modulation = "LORA", !.datarate = a, !.bandwidth = b,
                         !.coderate = c, !.invert_pol = d, !.preamble = e], p)
  BY SMT DEF Holds

LEMMA FskFields ==
  ASSUME NEW x, NEW p, Holds(x, p), NEW a, NEW b, NEW c
  PROVE  Holds([x EXCEPT !.modulation = "FSK", !.datarate = a, !.f_dev = b,
                         !.preamble = c], p)
  BY SMT DEF Holds

LEMMA AbortBlank ==
  ASSUME NEW s, Blank(s)
  PROVE  Blank(Abort(s))
  BY SetStatus, Zenon DEF Blank, Abort

LEMMA StageBlank ==
  ASSUME NEW s, Blank(s), NEW ok, NEW next, Blank(next)
  PROVE  Blank(Stage(s, ok, next))
  BY AbortBlank, Zenon DEF Stage

LEMMA FillBlank ==
  ASSUME NEW s, Blank(s), NEW ok, NEW x, Holds(x, Zeros)
  PROVE  Blank(Fill(s, ok, x))
<1> DEFINE t == [s EXCEPT !.txpkt = x]
<1>1. Fielded(t) /\ t.txpkt = x
  BY SetTxpkt, Zenon DEF Blank
<1>2. Fill(s, ok, x) = Stage(s, ok, t)
  BY Zenon DEF Fill
<1> HIDE DEF t
<1> QED
  BY <1>1, <1>2, StageBlank, Zenon DEF Blank

LEMMA StartBlank ==
  ASSUME NEW s, Fielded(s)
  PROVE  Blank(Start(s))
<1> DEFINE m == [s EXCEPT !.status = "go"]
           n == [m EXCEPT !.txpkt = ZeroTxpkt]
<1>1. Start(s) = n
  BY Zenon DEF Start, Cleared
<1>2. Fielded(m)
  BY SetStatus, Zenon
<1> HIDE DEF m
<1>3. Fielded(n) /\ n.txpkt = ZeroTxpkt
  BY <1>2, SetTxpkt, Zenon
<1> HIDE DEF n
<1>4. Holds(ZeroTxpkt, Zeros)
  BY SMT DEF Holds, ZeroTxpkt
<1> QED
  BY <1>1, <1>3, <1>4, Zenon DEF Blank

LEMMA WhenBlank ==
  ASSUME NEW s, Blank(s), NEW d, NEW g
  PROVE  Blank(When(s, d, g))
<1> DEFINE now == [s EXCEPT !.immediate = TRUE]
           later == [s EXCEPT !.immediate = FALSE]
           timed == [later EXCEPT !.local_ref = g.ref]
           counted == [s.txpkt EXCEPT !.count_us = number(d.tmst)]
           counts == [s.txpkt EXCEPT !.count_us =
                        utc2cnt(g.ref, mktime(d.time[2], s.isdst))]
           summer == Isdst(d.time[2])
           dated == [timed EXCEPT !.isdst = summer, !.txpkt = counts]
           ok == d.time[1] = "utc"
<1>1. Blank(now) /\ Blank(later)
  BY SetImmediate, Zenon DEF Blank
<1>2. Blank(timed)
  <2> HIDE DEF later
  <2> QED
    BY <1>1, SetRef, Zenon DEF Blank
<1>3. Holds(counted, Zeros) /\ Holds(counts, Zeros)
  BY OtherField, Zenon DEF Blank
<1>4. Blank(dated)
  <2>1. dated = Dated(timed, summer, counts)
    BY Zenon DEF Dated
  <2> HIDE DEF dated, timed, counts, summer
  <2>2. IsDated(dated, timed, summer, counts)
    BY <1>2, <2>1, SetDated, Zenon DEF Blank
  <2> QED
    BY <1>3, <2>2, Zenon DEF Blank, IsDated
<1>5. CASE boolean(d.imme) = 1
  <2>1. When(s, d, g) = Stage(s, TRUE, now)
    BY <1>5, Zenon DEF When
  <2> HIDE DEF now
  <2> QED
    BY <1>1, <2>1, StageBlank, Zenon
<1>6. CASE boolean(d.imme) # 1 /\ d.tmst # Absent
  <2>1. When(s, d, g) = Fill(later, TRUE, counted)
    BY <1>6, Zenon DEF When
  <2> HIDE DEF later, counted
  <2> QED
    BY <1>1, <1>3, <2>1, FillBlank, Zenon
<1>7. CASE /\ boolean(d.imme) # 1 /\ d.tmst = Absent
           /\ ~IsString(d.time) \/ ~g.active \/ ~g.valid
  <2>1. When(s, d, g) = Abort(later)
    BY <1>7, Zenon DEF When
  <2> HIDE DEF later
  <2> QED
    BY <1>1, <2>1, AbortBlank, Zenon
<1>8. CASE /\ boolean(d.imme) # 1 /\ d.tmst = Absent
           /\ ~(~IsString(d.time) \/ ~g.active \/ ~g.valid)
  <2>1. When(s, d, g) = Stage(timed, ok, dated)
    BY <1>8, Zenon DEF When
  <2> HIDE DEF timed, dated, ok
  <2> QED
    BY <1>2, <1>4, <2>1, StageBlank, Zenon
<1> QED
  BY <1>5, <1>6, <1>7, <1>8, Zenon

LEMMA RadioBlank ==
  ASSUME NEW s, Blank(s), NEW d
  PROVE  Blank(Radio(s, d))
<1> DEFINE ok == d.freq # Absent /\ d.rfch # Absent
           next == [s.txpkt EXCEPT !.no_crc = IF d.ncrc = Absent THEN @
                                              ELSE bool(boolean(d.ncrc)),
                                   !.freq_hz = number(d.freq),
                                   !.rf_chain = number(d.rfch) % 256,
                                   !.rf_power = IF d.powe = Absent THEN @
                                                ELSE number(d.powe)]
<1>1. Radio(s, d) = Fill(s, ok, next)
  BY Zenon DEF Radio
<1>2. Holds(next, Zeros)
  <2> DEFINE a == IF d.ncrc = Absent THEN s.txpkt.no_crc
                  ELSE bool(boolean(d.ncrc))
             b == number(d.freq)
             c == number(d.rfch) % 256
             e == IF d.powe = Absent THEN s.txpkt.rf_power ELSE number(d.powe)
             x == [s.txpkt EXCEPT !.no_crc = a, !.freq_hz = b, !.rf_chain = c,
                                  !.rf_power = e]
  <2>1. next = x
    BY Zenon
  <2>2. Holds(x, Zeros)
    <3> HIDE DEF a, b, c, e
    <3> QED
      BY RadioFields, Zenon DEF Blank
  <2> HIDE DEF next, x
  <2> QED
    BY <2>1, <2>2, Zenon
<1> HIDE DEF ok, next
<1> QED
  BY <1>1, <1>2, FillBlank, Zenon

LEMMA ModulationBlank ==
  ASSUME NEW s, Blank(s), NEW d
  PROVE  Blank(Modulation(s, d))
<1>1. Blank(Lora(s, d))
  <2> DEFINE ok == /\ d.datr[1] = "datr"
                   /\ d.datr[2] \in 7 .. 12 /\ d.datr[3] \in {125, 250, 500}
                   /\ coderate(d.codr) # 0
             next == [s.txpkt EXCEPT !.modulation = "LORA",
                                     !.datarate = d.datr[2],
                                     !.bandwidth = d.datr[3],
                                     !.coderate = coderate(d.codr),
                                     !.invert_pol = IF d.ipol = Absent THEN @
                                                    ELSE bool(boolean(d.ipol)),
                                     !.preamble =
                                       Preamble(d.prea, MIN_LORA_PREAMB,
                                                STD_LORA_PREAMB)]
  <2>1. Lora(s, d) = Fill(s, ok, next)
    BY Zenon DEF Lora
  <2>2. Holds(next, Zeros)
    BY LoraFields, ZenonT(60) DEF Blank
  <2> HIDE DEF ok, next
  <2> QED
    BY <2>1, <2>2, FillBlank, Zenon
<1>2. Blank(Fsk(s, d))
  <2> DEFINE ok == d.datr # Absent /\ d.fdev # Absent
             next == [s.txpkt EXCEPT !.modulation = "FSK",
                                     !.datarate = number(d.datr),
                                     !.f_dev = number(d.fdev) % 256,
                                     !.preamble =
                                       Preamble(d.prea, MIN_FSK_PREAMB,
                                                STD_FSK_PREAMB)]
  <2>1. Fsk(s, d) = Fill(s, ok, next)
    BY Zenon DEF Fsk
  <2>2. Holds(next, Zeros)
    BY FskFields, ZenonT(60) DEF Blank
  <2> HIDE DEF ok, next
  <2> QED
    BY <2>1, <2>2, FillBlank, Zenon
<1>3. Blank(Stage(s, FALSE, s))
  BY StageBlank, Zenon
<1>4. CASE d.modu = Str("LORA")
  BY <1>1, <1>4 DEF Modulation, Str
<1>5. CASE d.modu # Str("LORA") /\ d.modu = Str("FSK")
  BY <1>2, <1>5 DEF Modulation
<1>6. CASE d.modu # Str("LORA") /\ d.modu # Str("FSK")
  BY <1>3, <1>6 DEF Modulation
<1> QED
  BY <1>4, <1>5, <1>6

\* What a packet that is sent holds: its "data", and zeros behind.
LEMMA PayloadHolds ==
  ASSUME NEW s, Blank(s), NEW d, Payload(s, d).status = "go"
  PROVE  /\ d.data[1] = "b64"
         /\ Fielded(Payload(s, d))
         /\ Holds(Payload(s, d).txpkt,
                  Overwrite(Zeros, b64_to_bin(d.data[2], PAYLOAD_SIZE).out))
<1> DEFINE bin == b64_to_bin(d.data[2], PAYLOAD_SIZE)
           ok == d.size # Absent /\ d.data[1] = "b64"
           size == number(d.size) % 65536
           txpkt == [s.txpkt EXCEPT !.size = size,
                                    !.payload = Overwrite(@, bin.out)]
           exit == [s EXCEPT !.status = "exit"]
           fill == [s EXCEPT !.txpkt = txpkt]
           last == IF bin.ret = EXIT THEN exit ELSE fill
           sent == Overwrite(Zeros, bin.out)
<1>1. Payload(s, d) = Stage(s, ok, last)
  BY DEF Payload
<1>2. exit.status = "exit" /\ Abort(s).status = "abort"
  BY SetStatus, Zenon DEF Blank, Abort
<1>3. Holds(txpkt, sent)
  <2> DEFINE x == s.txpkt
             over == Overwrite(x.payload, bin.out)
  <2>1. over = sent
    BY Zenon DEF Blank, Holds
  <2>2. txpkt = [x EXCEPT !.size = size, !.payload = over]
    BY SMT DEF Blank, Holds
  <2>3. "payload" \in DOMAIN x
    BY Zenon DEF Blank, Holds
  <2> HIDE DEF x, over, txpkt, size, sent
  <2> QED
    BY <2>1, <2>2, <2>3, SMT DEF Holds
<1>4. Fielded(fill) /\ fill.txpkt = txpkt
  <2> HIDE DEF txpkt
  <2> QED
    BY SetTxpkt, Zenon DEF Blank
<1>5. "abort" # "go" /\ "exit" # "go"
  OBVIOUS
<1>6. last = IF bin.ret = EXIT THEN exit ELSE fill
  OBVIOUS
<1> HIDE DEF last, exit, fill, txpkt, bin, ok
<1>7. ok
  BY <1>1, <1>2, <1>5, Zenon DEF Stage
<1>8. Payload(s, d) = last
  BY <1>1, <1>2, <1>5, <1>7, Zenon DEF Stage
<1>9. last = fill
  BY <1>2, <1>5, <1>6, <1>8, Zenon
<1>10. Fielded(Payload(s, d)) /\ Holds(Payload(s, d).txpkt, sent)
  BY <1>3, <1>4, <1>8, <1>9, Zenon
<1>11. d.data[1] = "b64"
  BY <1>7, Zenon DEF ok
<1> QED
  BY <1>10, <1>11, Zenon DEF bin

LEMMA ModeHolds ==
  ASSUME NEW s, NEW p, Mode(s).status = "go",
         s.status = "go" => Fielded(s) /\ Holds(s.txpkt, p)
  PROVE  s.status = "go" /\ Holds(Mode(s).txpkt, p)
<1> DEFINE mode == IF s.immediate THEN "IMMEDIATE" ELSE "TIMESTAMPED"
           x == [s.txpkt EXCEPT !.tx_mode = mode]
           t == [s EXCEPT !.txpkt = x]
<1>1. Mode(s) = IF s.status # "go" THEN s ELSE t
  BY Zenon DEF Mode, Fill, Stage
<1> HIDE DEF mode
<1>2. s.status = "go"
  <2> HIDE DEF t
  <2> QED
    BY <1>1, Zenon
<1>3. Holds(x, p)
  BY <1>2, OtherField, Zenon
<1> HIDE DEF x
<1>4. t.txpkt = x
  BY <1>2, SetTxpkt, Zenon
<1> HIDE DEF t
<1> QED
  BY <1>1, <1>2, <1>3, <1>4, Zenon

LEMMA ParseHolds ==
  ASSUME NEW s, Fielded(s), NEW d, NEW g, Parse(s, d, g).status = "go"
  PROVE  /\ d.txpk /\ d.data[1] = "b64"
         /\ Parse(s, d, g).txpkt.payload
              = Overwrite(Zeros, b64_to_bin(d.data[2], PAYLOAD_SIZE).out)
<1> DEFINE blank == Modulation(Radio(When(Start(s), d, g), d), d)
           full == Payload(blank, d)
           sent == Overwrite(Zeros, b64_to_bin(d.data[2], PAYLOAD_SIZE).out)
<1>1. Blank(blank)
  BY StartBlank, WhenBlank, RadioBlank, ModulationBlank, Zenon
<1>2. d.txpk
  <2>1. Fielded(Start(s))
    BY StartBlank, Zenon DEF Blank
  <2>2. Abort(Start(s)).status = "abort"
    BY <2>1, SetStatus, Zenon DEF Abort
  <2>3. "abort" # "go"
    OBVIOUS
  <2> QED
    BY <2>2, <2>3, Zenon DEF Parse
<1>3. Parse(s, d, g) = Mode(full)
  BY <1>2, Zenon DEF Parse
<1> HIDE DEF blank
<1>4. full.status = "go" => /\ d.data[1] = "b64" /\ Fielded(full)
                            /\ Holds(full.txpkt, sent)
  BY <1>1, PayloadHolds, Zenon
<1> HIDE DEF full, sent
<1>5. full.status = "go" /\ Holds(Mode(full).txpkt, sent)
  BY <1>3, <1>4, ModeHolds, Zenon
<1> QED
  BY <1>2, <1>3, <1>4, <1>5, Zenon DEF Holds, sent

LEMMA CharactersAreNumbers ==
  ASSUME NEW t \in Seq(0 .. 255)
  PROVE  t \in Seq(Int)
<1> DEFINE n == Len(t)
<1>1. n \in Nat
  BY SMT
<1>2. ASSUME NEW j \in 1 .. n PROVE t[j] \in Int
  <2>1. t[j] \in 0 .. 255
    BY ElementOfSeq, Zenon
  <2>2. \A x \in 0 .. 255 : x \in Int
    BY SMT
  <2> QED
    BY <2>1, <2>2, Zenon
<1>3. t = [j \in 1 .. n |-> t[j]]
  BY SMT
<1> HIDE DEF n
<1>4. [j \in 1 .. n |-> t[j]] \in Seq(Int)
  BY <1>1, <1>2, SMT
<1> QED
  BY <1>3, <1>4, Zenon

LEMMA NothingOverwritten ==
  ASSUME NEW bytes, bytes = <<>>
  PROVE  Overwrite(Zeros, bytes) = Zeros
<1>1. ASSUME NEW k \in 1 .. PAYLOAD_SIZE
      PROVE  (IF k <= Len(bytes) THEN bytes[k] ELSE Zeros[k]) = Zeros[k]
  <2>1. ~(k <= Len(bytes))
    BY SMT
  <2> QED
    BY <2>1, Zenon
<1>2. Zeros = [k \in 1 .. PAYLOAD_SIZE |-> Zeros[k]]
  BY Zenon DEF Zeros
<1> QED
  BY <1>1, <1>2, Zenon DEF Overwrite

LEMMA PullRespIntact ==
  ASSUME Fielded(down), NEW d \in Datagrams, PullResp(d)
  PROVE  PayloadIntact'
<1> DEFINE text == d.data[2]
           out == b64_to_bin(text, PAYLOAD_SIZE).out
           payload == down'.txpkt.payload
           intact == /\ \A p \in Payloads : Carries(text, p) =>
                          payload = IF Len(p) <= PAYLOAD_SIZE
                                    THEN Overwrite(Zeros, p) ELSE Zeros
                     /\ Len(text) % 4 = 1 => payload = Zeros
<1>1. down' = Parse(down, d, gps) /\ received' = d
  BY Zenon DEF PullResp
<1>2. SUFFICES ASSUME down'.status = "go" PROVE intact
  BY <1>1, Zenon DEF PayloadIntact
<1>3. d.txpk /\ d.data[1] = "b64" /\ payload = Overwrite(Zeros, out)
  BY <1>1, <1>2, ParseHolds, Zenon
<1>4. text \in Seq(Int)
  <2>1. \A e \in Datagrams :
          e.txpk /\ e.data[1] = "b64" => e.data[2] \in Seq(0 .. 255)
    BY DatagramsAssumption, Zenon DEF DatagramsAssumption
  <2>2. text \in Seq(0 .. 255)
    BY <1>3, <2>1, Zenon
  <2> HIDE DEF text
  <2> QED
    BY <2>2, CharactersAreNumbers, Zenon
<1>5. PAYLOAD_SIZE \in Nat
  BY TxpkAssumption
<1> HIDE DEF text, payload
<1>6. ASSUME NEW p \in Payloads, Carries(text, p)
      PROVE  payload = IF Len(p) <= PAYLOAD_SIZE THEN Overwrite(Zeros, p)
                       ELSE Zeros
  <2>1. p \in Seq(0 .. 255)
    BY DatagramsAssumption
  <2>2. out = IF Len(p) <= PAYLOAD_SIZE THEN p ELSE <<>>
    BY <1>4, <1>5, <1>6, <2>1, CarriedDecodes, Zenon
  <2> HIDE DEF out
  <2> QED
    BY <1>3, <2>2, NothingOverwritten, Zenon
<1>7. ASSUME Len(text) % 4 = 1 PROVE payload = Zeros
  <2>1. out = <<>>
    BY <1>4, <1>5, <1>7, OneTooMany, Zenon
  <2> HIDE DEF out
  <2> QED
    BY <1>3, <2>1, NothingOverwritten, Zenon
<1> QED
  BY <1>6, <1>7, Zenon

\* PayloadIntact: of whatever PULL_RESP, the bytes that its text carries go
\* on the air, or none of them.
THEOREM SpecPayloadIntact == Spec => []PayloadIntact
<1>1. Init => PayloadIntact
  <2>1. Init => down.status = "abort"
    BY SMT DEF Init, FirstDown
  <2>2. "abort" # "go"
    OBVIOUS
  <2> QED
    BY <2>1, <2>2, Zenon DEF PayloadIntact
<1>2. Left(down) /\ PayloadIntact /\ [Next]_vars => PayloadIntact'
  <2> SUFFICES ASSUME Fielded(down), PayloadIntact, [Next]_vars
               PROVE  PayloadIntact'
    BY Zenon DEF Left
  <2>1. ASSUME NEW d \in Datagrams, PullResp(d) PROVE PayloadIntact'
    BY <2>1, PullRespIntact, Zenon
  <2>2. CASE UNCHANGED <<down, received>>
    BY <2>2, Zenon DEF PayloadIntact
  <2> QED
    BY <2>1, <2>2, Zenon DEF Next, Reference, ThreadUp, UpFails, Main, vars
<1> QED
  BY <1>1, <1>2, SpecLeft, PTL DEF Spec
=============================================================================
