----------------------------- MODULE RsaDigits -----------------------------
(***************************************************************************)
(* What the three versions of the RSA application have in common: the key, *)
(* the message, and the arithmetic on numbers that are functions from      *)
(* 0..n-1 to digits, the least significant digit first.  Reduction is long *)
(* division: multiples of the modulus are subtracted from the top down.    *)
(***************************************************************************)
EXTENDS Integers, Sequences

NUM_DIGITS == 8
NUM_PAD_DIGITS == 1

\* src/data/key64.txt.
pubkey_n == <<21, 112, 246, 66, 14, 130, 113, 166>>
pubkey_e == 3

\* sizeof(PLAINTEXT) counts the null byte.
CYPHERTEXT_SIZE(message) == ((Len(message) + 1) \div (NUM_DIGITS - NUM_PAD_DIGITS) + 1) * NUM_DIGITS

Digits == 0..NUM_DIGITS-1
ProductDigits == 0..2*NUM_DIGITS-1

Modulus == [i \in Digits |-> pubkey_n[i + 1]]
One == [i \in Digits |-> IF i = 0 THEN 1 ELSE 0]
Zero(D) == [i \in D |-> 0]

\* The block of the message at an offset, padded.
Padded(message, block_offset) ==
    [i \in Digits |-> IF i >= NUM_DIGITS - NUM_PAD_DIGITS THEN 1
                      ELSE IF block_offset + i < Len(message) THEN message[block_offset + i + 1] ELSE 255]

\* The sum of what f gives for digits.
SumOf(f) ==
    LET Sum[n \in Nat] == IF n = 0 THEN 0 ELSE Sum[n - 1] + (IF n - 1 \in DOMAIN f THEN f[n - 1] ELSE 0)
    IN  Sum[2 * NUM_DIGITS]

\* One column of a * b: its digit, and what it carries to the next.
Column(a, b, digit, carry) ==
    LET D == {i \in Digits : digit - i \in Digits}
        p == carry + SumOf([i \in D |-> (a[digit - i] * b[i]) % 256])
        c == SumOf([i \in D |-> (a[digit - i] * b[i]) \div 256])
    IN  [digit |-> p % 256, carry |-> c + p \div 256]

\* The place of the first digit of m other than 0.
TopDigit(m) == CHOOSE d \in DOMAIN m : /\ \A i \in DOMAIN m : i > d => m[i] = 0
                                       /\ m[d] # 0 \/ d = 0

\* Number n, offset digits further up.
Shift(n, offset) == [i \in ProductDigits |-> IF i - offset \in Digits THEN n[i - offset] ELSE 0]

\* Whether a is less than b, by the first digit of D in which they differ.
IsLess(a, b, D) == \E i \in D : a[i] < b[i] /\ \A j \in D : j > i => a[j] = b[j]

\* Whether the modulus can be subtracted from the leading digits of m.  When
\* they are equal the comparison goes on to what lies before the modulus in
\* memory, and may give either answer.
Normalizable(m, offset) ==
    LET leading == offset..offset + NUM_DIGITS - 1
        n == Shift(Modulus, offset)
    IN  IF offset > 0 /\ \A i \in leading : m[i] = n[i] THEN BOOLEAN ELSE {~IsLess(m, n, leading)}

\* m - s in the digits lo..hi.
Subtract(m, s, lo, hi) ==
    LET borrow[i \in Nat] == IF i > lo /\ m[i - 1] < s[i - 1] + borrow[i - 1] THEN 1 ELSE 0
    IN  [i \in DOMAIN m |-> IF i \in lo..hi THEN (m[i] - s[i] - borrow[i]) % 256 ELSE m[i]]

Normalize(m, offset) == Subtract(m, Shift(Modulus, offset), offset, offset + NUM_DIGITS - 1)

\* The digit of the quotient at the top digit d of m: a guess by the first
\* digit of the modulus, corrected by the second.
Quotient(m, d) ==
    LET n_n == Modulus[NUM_DIGITS - 1]
        n_div == n_n * 256 + Modulus[NUM_DIGITS - 2]
        n_q == (m[d] * 256 + m[d - 1]) * 256 + m[d - 2]
        q == IF m[d] = n_n THEN 255 ELSE (m[d] * 256 + m[d - 1]) \div n_n
    IN  IF n_div * q > n_q THEN n_q \div n_div ELSE q

\* q times the modulus, offset digits further up; digit_t has 16 bits.
Multiple(q, offset) ==
    LET n == Shift(Modulus, offset)
        column[i \in Nat] == ((IF i > offset THEN column[i - 1] \div 256 ELSE 0) + q * n[i]) % 65536
    IN  [i \in ProductDigits |-> IF i < offset THEN 0 ELSE column[i] % 256]

\* m + n, the modulus being offset digits further up.
AddBack(m, offset) ==
    LET n == Shift(Modulus, offset)
        column[i \in Nat] == (IF i > offset THEN column[i - 1] \div 256 ELSE 0) + m[i] + n[i]
    IN  [i \in ProductDigits |-> IF i < offset THEN m[i] ELSE column[i] % 256]

\* src/data/plaintext.txt, ".RRRSSSAAA.", and the cyphertext the application
\* prints, src/golden_result/rsa.txt.
plaintext == <<46, 82, 82, 82, 83, 83, 83, 65, 65, 65, 46>>
golden == <<\HD6, \HCC, \HE9, \HB1, \HEF, \H04, \H77, \H39,
            \HF8, \H01, \H92, \H45, \H5E, \H96, \HDE, \H6A>>

\* "LO", whose reduction adds the modulus back, and the cube of its one block
\* (76, 79 and the padding of set_block) under the modulus of the source.
adding == <<76, 79>>
golden_adding == <<\HCA, \H34, \H90, \HFE, \HEB, \HDA, \H61, \H6D>>

\* The texts to encrypt.
Messages == {plaintext, adding}

\* The digits printed, which are indexed from 0, are those of the text.
Prints(digits, text) == digits = [i \in 0..Len(text)-1 |-> text[i+1]]
=============================================================================
