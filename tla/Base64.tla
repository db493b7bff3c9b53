------------------------------- MODULE Base64 -------------------------------
(***************************************************************************)
(* base64.c, the same in all programs: the payloads of packets in JSON.    *)
(* Characters are their ASCII codes.  A function's value is what it        *)
(* returns (-1: refused, EXIT: the process ends) and what it has written.  *)
(***************************************************************************)
EXTENDS Integers, Sequences

EXIT == -2

code_pad == 61   \* =

Refused == [ret |-> -1, out |-> <<>>]

code_to_char(x) ==
  CASE x <= 25 -> 65 + x
    [] x \in 26 .. 51 -> 97 + (x - 26)
    [] x \in 52 .. 61 -> 48 + (x - 52)
    [] x = 62 -> 43
    [] x = 63 -> 47

char_to_code(c) ==
  CASE c \in 65 .. 90 -> c - 65
    [] c \in 97 .. 122 -> c - 97 + 26
    [] c \in 48 .. 57 -> c - 48 + 52
    [] c = 43 -> 62
    [] c = 47 -> 63
    [] OTHER -> EXIT

\* Element k, counted from 0, or 0 beyond the end.
At(in, k) == IF k < Len(in) THEN in[k + 1] ELSE 0

\* The 24 bits of the i-th three bytes, of the i-th four codes.
Bytes24(in, i) ==
  65536 * At(in, 3*i) + 256 * At(in, 3*i + 1) + At(in, 3*i + 2)
Codes24(in, i) ==
  262144 * At(in, 4*i) + 4096 * At(in, 4*i + 1) + 64 * At(in, 4*i + 2)
    + At(in, 4*i + 3)

bin_to_b64_nopad(in, max_len) ==
  LET rest == Len(in) % 3
      result_len == 4 * (Len(in) \div 3) + (IF rest = 0 THEN 0 ELSE rest + 1)
      char(j) == code_to_char((Bytes24(in, j \div 4)
                                 \div <<262144, 4096, 64, 1>>[(j % 4) + 1]) % 64)
  IN  IF in = <<>> THEN [ret |-> 0, out |-> <<0>>]
      ELSE IF max_len < result_len + 1 THEN Refused
      ELSE [ret |-> result_len,
            out |-> Append([j \in 1 .. result_len |-> char(j - 1)], 0)]

\* Mutant of Padding: one character too few when one byte is left.
PaddingShort(ret) == IF ret % 4 = 0 THEN 0 ELSE 1

\* Characters that a text of ret characters lacks to whole blocks.
Padding(ret) == IF ret % 4 = 0 THEN 0 ELSE 4 - (ret % 4)

\* Padding is added only if max_len exceeds what the padded text, with its
\* terminator, needs.
bin_to_b64(in, max_len) ==
  LET r == bin_to_b64_nopad(in, max_len)
      pad == Padding(r.ret)
  IN  IF r.ret = -1 \/ pad = 0 THEN r
      ELSE IF ~(max_len > r.ret + pad + 1) THEN [r EXCEPT !.ret = -1]
      ELSE [ret |-> r.ret + pad,
            out |-> SubSeq(r.out, 1, r.ret)
                      \o [k \in 1 .. pad |-> code_pad] \o <<0>>]

\* A character outside the alphabet ends the process.
b64_to_bin_nopad(in, max_len) ==
  LET rest == Len(in) % 4
      result_len == 3 * (Len(in) \div 4) + (IF rest = 0 THEN 0 ELSE rest - 1)
      code == [j \in 1 .. Len(in) |-> char_to_code(in[j])]
      byte(k) == (Codes24(code, k \div 3)
                    \div <<65536, 256, 1>>[(k % 3) + 1]) % 256
  IN  IF in = <<>> THEN [ret |-> 0, out |-> <<>>]
      ELSE IF rest = 1 \/ max_len < result_len THEN Refused
      ELSE IF \E j \in DOMAIN code : code[j] = EXIT
           THEN [Refused EXCEPT !.ret = EXIT]
      ELSE [ret |-> result_len,
            out |-> [k \in 1 .. result_len |-> byte(k - 1)]]

\* Mutant of b64_to_bin: both kinds of padding are taken for two characters.
b64_to_bin_two(in, max_len) ==
  LET n == Len(in)
      padded == n % 4 = 0 /\ n >= 4 /\ code_pad \in {in[n - 1], in[n]}
  IN  b64_to_bin_nopad(SubSeq(in, 1, IF padded THEN n - 2 ELSE n), max_len)

\* The padding of whole blocks is dropped, after one look per place.
b64_to_bin(in, max_len) ==
  LET n == Len(in)
      pad == IF n % 4 # 0 \/ n < 4 THEN 0
             ELSE IF in[n - 1] = code_pad THEN 2
             ELSE IF in[n] = code_pad THEN 1 ELSE 0
  IN  b64_to_bin_nopad(SubSeq(in, 1, n - pad), max_len)
-----------------------------------------------------------------------------
(***************************************************************************)
(* The reference: bytes and text are the same bits, six to a character,    *)
(* filled up with zeros to a character and with = to four of them.         *)
(***************************************************************************)
Bit(n, k) == (n \div 2^k) % 2

BitsOf(bytes) ==
  [i \in 1 .. 8 * Len(bytes) |->
     Bit(bytes[(i - 1) \div 8 + 1], 7 - ((i - 1) % 8))]

\* Whether text is the base64 form of bytes.
Encodes(text, bytes) ==
  LET n == (8 * Len(bytes) + 5) \div 6
      bits == BitsOf(bytes)
  IN  /\ Len(text) = 4 * ((n + 3) \div 4)
      /\ \A j \in n + 1 .. Len(text) : text[j] = code_pad
      /\ \A j \in 1 .. n : char_to_code(text[j]) \in 0 .. 63
      /\ \A j \in 1 .. n, k \in 0 .. 5 :
           LET i == 6 * (j - 1) + 6 - k
           IN  Bit(char_to_code(text[j]), k)
                 = (IF i <= Len(bits) THEN bits[i] ELSE 0)

\* Whether text is bytes in base64, complete or without the = at its end.
Carries(text, bytes) ==
  \/ Encodes(text, bytes)
  \/ /\ \A j \in 1 .. Len(text) : text[j] # code_pad
     /\ Encodes(text \o [k \in 1 .. Padding(Len(text)) |-> code_pad], bytes)
=============================================================================
