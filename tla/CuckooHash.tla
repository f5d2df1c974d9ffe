----------------------------- MODULE CuckooHash -----------------------------
(***************************************************************************)
(* The hash functions of the cuckoo filter, src/src/main_cuckoo_alpaca.c.      *)
(* Words have 16 bits.                                                     *)
(***************************************************************************)
EXTENDS Integers

CONSTANT NUM_BUCKETS  \* 128 in the code

Word == 0 .. 65535

\* (Bug) The hash is kept in more than 16 bits.
djb_step_Wide(hash, byte) == hash * 33 + byte

\* hash = ((hash << 5) + hash) + (*data), in a uint16_t.
djb_step(hash, byte) == (hash * 33 + byte) % 65536

\* djb_hash() over the two bytes of a word, the low one first.
djb_hash(w) == djb_step(djb_step(5381, w % 256), w \div 256)

hash_to_fingerprint(k) == djb_hash(k)
hash_to_index(fp) == djb_hash(fp) % NUM_BUCKETS

\* The exclusive or of two words, in the bit worth w and as a whole.
bit_xor(a, b, w) == IF (a \div w) % 2 = (b \div w) % 2 THEN 0 ELSE w

xor(a, b) ==
    bit_xor(a, b, 1) + bit_xor(a, b, 2) + bit_xor(a, b, 4) + bit_xor(a, b, 8)
    + bit_xor(a, b, 16) + bit_xor(a, b, 32) + bit_xor(a, b, 64) + bit_xor(a, b, 128)
    + bit_xor(a, b, 256) + bit_xor(a, b, 512) + bit_xor(a, b, 1024) + bit_xor(a, b, 2048)
    + bit_xor(a, b, 4096) + bit_xor(a, b, 8192) + bit_xor(a, b, 16384) + bit_xor(a, b, 32768)
-----------------------------------------------------------------------------
\* The application prints src/golden_result/cuckoo.txt: the occupied buckets, and
\* how many keys were inserted, all of which are found.
golden_fingerprints ==
    {32128, 30210, 29690, 34320, 31638, 27927, 28327, 30965,
     31144, 29229, 34869, 28342, 33209, 31939, 34048, 35592,
     34004, 29276, 31453, 32223, 28386, 27877, 33127, 29695,
     28521, 34922, 30958, 28533, 34552, 32889, 29946, 33407}
golden_inserts == 32

\* Which of its two buckets a fingerprint is in depends on the victims rand()
\* picks: the golden filter has these fingerprints, in some order.
IsGoldenFilter(buckets) ==
    LET occupied == {i \in DOMAIN buckets : buckets[i] # 0}
    IN  /\ {buckets[i] : i \in occupied} = golden_fingerprints
        /\ \A i, j \in occupied : buckets[i] = buckets[j] => i = j
=============================================================================
