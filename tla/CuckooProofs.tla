---------------------------- MODULE CuckooProofs ----------------------------
(***************************************************************************)
(* Proofs about the cuckoo filter application, run task by task, whatever  *)
(* the number of buckets, of inserted keys and of relocations.             *)
(***************************************************************************)
EXTENDS CuckooTasks, FiniteSetTheorems, SequenceTheorems, TLAPS

-----------------------------------------------------------------------------
(* Hashes.                                                                 *)

\* A number cut to 16 bits is a word.
LEMMA ModIsWord == \A x \in Int : x % 65536 \in Word
BY SMTT(60) DEF Word

\* Words are numbers of 16 bits.
LEMMA WordBound == \A x \in Word : x \in Nat /\ x \in Int /\ x < 65536 /\ x <= 65535
BY SMTT(60) DEF Word

\* And all of these are words.
LEMMA BelowIsWord == \A x \in Nat : x < 65536 => x \in Word
<1>1. \A x \in Nat : x < 65536 => x % 65536 = x /\ x \in Int
  OBVIOUS
<1> QED
  BY <1>1, ModIsWord

\* Zero and one are words, and every word is a number.
LEMMA WordBasics ==
    0 \in Word /\ 1 \in Word /\ \A w \in Word : w \in Nat
<1>1. 0 \in Word /\ 1 \in Word
  BY BelowIsWord
<1> QED
  BY <1>1, WordBound

\* A bucket is empty when its word is 0, and task_add() and task_relocate()
\* test nothing else.  That is safe because no key has the fingerprint 0.
THEOREM FingerprintIsNotEmpty == \A k \in Word : hash_to_fingerprint(k) # 0
<1>1. TAKE k \in Word
<1>2. PICK lo \in 0..255, hi \in 0..255 : lo = k % 256 /\ hi = k \div 256
  <2>1. k \in Nat /\ k < 65536
    BY WordBound
  <2>2. k % 256 \in 0..255
    BY <2>1
  <2>3. k \div 256 \in 0..255
    BY <2>1
  <2>4. QED
    BY <2>2, <2>3, Zenon
<1>3. djb_step(5381, lo) = 46501 + lo
  BY DEF djb_step
<1>4. djb_step(46501 + lo, hi) = 27205 + 33 * lo + hi
  BY DEF djb_step
<1>5. hash_to_fingerprint(k) = djb_step(djb_step(5381, lo), hi)
  BY <1>2 DEF hash_to_fingerprint, djb_hash
<1>6. 27205 + 33 * lo + hi # 0
  OBVIOUS
<1>7. QED
  BY <1>3, <1>4, <1>5, <1>6

\* Buckets are numbered by words.
LEMMA Buckets16 ==
    /\ NUM_BUCKETS \in Nat /\ NUM_BUCKETS >= 1 /\ NUM_BUCKETS <= 32768
    /\ \A i \in Bucket : i \in Word /\ i \in Nat /\ i < NUM_BUCKETS
    /\ 0 \in Bucket
<1>1. NUM_BUCKETS \in Nat /\ NUM_BUCKETS >= 1 /\ NUM_BUCKETS <= 32768
  BY BucketsAssumption
<1>2. \A i \in Bucket : i \in Nat /\ i < NUM_BUCKETS
  BY <1>1 DEF Bucket
<1>3. \A i \in Bucket : i \in Word
  <2>1. \A i \in Bucket : i < 65536
    BY <1>1, <1>2
  <2> QED
    BY <1>2, <2>1, BelowIsWord
<1>4. 0 \in Bucket
  BY <1>1 DEF Bucket
<1> QED
  BY <1>1, <1>2, <1>3, <1>4

\* A step of the hash, and the generator of keys, return words.
LEMMA StepIsWord ==
    /\ \A a, b \in Int : djb_step(a, b) \in Word
    /\ \A k \in Int : next_key(k) \in Word
    /\ \A w \in Word : w \in Nat
<1>1. \A a, b \in Int : djb_step(a, b) \in Word
  <2>1. SUFFICES ASSUME NEW a \in Int, NEW b \in Int PROVE djb_step(a, b) \in Word
    OBVIOUS
  <2> QED
    BY ModIsWord DEF djb_step
<1>2. \A k \in Int : next_key(k) \in Word
  BY ModIsWord DEF next_key
<1> QED
  BY <1>1, <1>2, WordBound

\* The sizes are numbers.
LEMMA Counts == NUM_INSERTS \in Nat /\ NUM_INSERTS > 0 /\ NUM_INSERTS <= 65535 /\ MAX_RELOCATIONS \in Nat
<1>1. NUM_INSERTS \in Word /\ NUM_INSERTS # 0 /\ MAX_RELOCATIONS \in Word
  BY CountsAssumption
<1> QED
  BY <1>1, WordBound

\* The hash functions return words, and buckets.
LEMMA HashRange ==
    ASSUME NEW k \in Word
    PROVE  hash_to_fingerprint(k) \in Word /\ hash_to_index(k) \in Bucket /\ next_key(k) \in Word
<1>1. k \in Nat /\ k \in Int
  BY StepIsWord
<1> DEFINE lo == k % 256
           hi == k \div 256
           h == djb_step(5381, lo)
           hash == djb_hash(k)
<1>2. lo \in Int /\ hi \in Int
  BY <1>1
<1> HIDE DEF lo, hi
<1>3. h \in Word
  BY <1>2, StepIsWord
<1> HIDE DEF h
<1>4. djb_step(h, hi) \in Word
  BY <1>2, <1>3, StepIsWord
<1>5. hash = djb_step(h, hi)
  BY DEF djb_hash, h, lo, hi
<1> HIDE DEF hash
<1>6. hash \in Word /\ hash \in Nat
  BY <1>4, <1>5, StepIsWord
<1>7. hash % NUM_BUCKETS \in Bucket
  <2>1. hash \in Nat
    BY <1>6
  <2> QED
    BY <2>1, Buckets16 DEF Bucket
<1>8. next_key(k) \in Word
  BY <1>1, StepIsWord
<1>9. hash_to_fingerprint(k) = hash /\ hash_to_index(k) = hash % NUM_BUCKETS
  BY DEF hash_to_fingerprint, hash_to_index, hash
<1> QED
  BY <1>6, <1>7, <1>8, <1>9

-----------------------------------------------------------------------------
(* The exclusive or.                                                       *)

\* The bit of n worth w.
Bit(n, w) == (n \div w) % 2
Worth == {1, 2, 4, 8, 16, 32, 64, 128, 256, 512, 1024, 2048, 4096, 8192, 16384
          , 32768}

\* The number whose bits are x.
Sum(x) == x[1] + 2 * x[2] + 4 * x[4] + 8 * x[8] + 16 * x[16] + 32 * x[32]
          + 64 * x[64] + 128 * x[128] + 256 * x[256] + 512 * x[512]
          + 1024 * x[1024] + 2048 * x[2048] + 4096 * x[4096] + 8192 * x[8192]
          + 16384 * x[16384] + 32768 * x[32768]

\* The last bit, and what is left without it.
LEMMA LastBit ==
    ASSUME NEW q \in Nat, NEW p \in Nat, q = 2 * p \/ q = 2 * p + 1
    PROVE  q % 2 \in 0..1 /\ q = 2 * p + (q % 2)
<1>1. CASE q = 2 * p
  <2>1. q % 2 = 0
    BY <1>1
  <2> QED
    BY <1>1, <2>1
<1>2. CASE q = 2 * p + 1
  <2>1. q % 2 = 1
    BY <1>2
  <2> QED
    BY <1>2, <2>1
<1> QED
  BY <1>1, <1>2

\* A shift by one bit.
LEMMA Halve ==
    ASSUME NEW n \in Nat, NEW w \in Worth
    PROVE  /\ n \div w \in Nat /\ Bit(n, w) \in 0..1
           /\ n \div w = 2 * (n \div (2 * w)) + Bit(n, w)
<1> DEFINE q == n \div w
           p == n \div (2 * w)
<1> SUFFICES q \in Nat /\ p \in Nat /\ (q = 2 * p \/ q = 2 * p + 1)
  BY LastBit, Zenon DEF Bit
<1>1. CASE w = 1
  BY <1>1
<1>2. CASE w = 2
  BY <1>2
<1>3. CASE w = 4
  BY <1>3
<1>4. CASE w = 8
  BY <1>4
<1>5. CASE w = 16
  BY <1>5
<1>6. CASE w = 32
  BY <1>6
<1>7. CASE w = 64
  BY <1>7
<1>8. CASE w = 128
  BY <1>8
<1>9. CASE w = 256
  BY <1>9
<1>10. CASE w = 512
  BY <1>10
<1>11. CASE w = 1024
  BY <1>11
<1>12. CASE w = 2048
  BY <1>12
<1>13. CASE w = 4096
  BY <1>13
<1>14. CASE w = 8192
  BY <1>14
<1>15. CASE w = 16384
  BY <1>15
<1>16. CASE w = 32768
  BY <1>16
<1> QED
  BY <1>1, <1>2, <1>3, <1>4, <1>5, <1>6, <1>7, <1>8, <1>9, <1>10, <1>11
     , <1>12, <1>13, <1>14, <1>15, <1>16 DEF Worth

\* A word is the sum of its bits.
LEMMA SumOfBits ==
    ASSUME NEW n \in Word
    PROVE  n = Sum([w \in Worth |-> Bit(n, w)])
<1> DEFINE d(w) == n \div w
           bit(w) == Bit(n, w)
           s1 == bit(1)
           s2 == s1 + 2 * bit(2)
           s3 == s2 + 4 * bit(4)
           s4 == s3 + 8 * bit(8)
           s5 == s4 + 16 * bit(16)
           s6 == s5 + 32 * bit(32)
           s7 == s6 + 64 * bit(64)
           s8 == s7 + 128 * bit(128)
           s9 == s8 + 256 * bit(256)
           s10 == s9 + 512 * bit(512)
           s11 == s10 + 1024 * bit(1024)
           s12 == s11 + 2048 * bit(2048)
           s13 == s12 + 4096 * bit(4096)
           s14 == s13 + 8192 * bit(8192)
           s15 == s14 + 16384 * bit(16384)
           s16 == s15 + 32768 * bit(32768)
<1>1. n \in Nat /\ d(1) = n /\ d(65536) = 0
  <2>1. n \in Nat /\ n < 65536
    BY WordBound
  <2>2. n \div 1 = n
    BY <2>1
  <2>3. n \div 65536 = 0
    BY <2>1
  <2> QED
    BY <2>1, <2>2, <2>3
<1>2. \A w \in Worth : d(w) \in Nat /\ bit(w) \in 0..1 /\ d(w) = 2 * d(2 * w) + bit(w)
  BY <1>1, Halve
<1>3. d(65536) \in Nat
  BY <1>1
<1> HIDE DEF d, bit, s1, s2, s3, s4, s5, s6, s7, s8, s9, s10, s11, s12, s13, s14, s15, s16
<1>4. d(1) \in Nat /\ bit(1) \in 0..1 /\ d(1) = 2 * d(2) + bit(1)
  BY <1>2 DEF Worth
<1>5. d(2) \in Nat /\ bit(2) \in 0..1 /\ d(2) = 2 * d(4) + bit(2)
  BY <1>2 DEF Worth
<1>6. d(4) \in Nat /\ bit(4) \in 0..1 /\ d(4) = 2 * d(8) + bit(4)
  BY <1>2 DEF Worth
<1>7. d(8) \in Nat /\ bit(8) \in 0..1 /\ d(8) = 2 * d(16) + bit(8)
  BY <1>2 DEF Worth
<1>8. d(16) \in Nat /\ bit(16) \in 0..1 /\ d(16) = 2 * d(32) + bit(16)
  BY <1>2 DEF Worth
<1>9. d(32) \in Nat /\ bit(32) \in 0..1 /\ d(32) = 2 * d(64) + bit(32)
  BY <1>2 DEF Worth
<1>10. d(64) \in Nat /\ bit(64) \in 0..1 /\ d(64) = 2 * d(128) + bit(64)
  BY <1>2 DEF Worth
<1>11. d(128) \in Nat /\ bit(128) \in 0..1 /\ d(128) = 2 * d(256) + bit(128)
  BY <1>2 DEF Worth
<1>12. d(256) \in Nat /\ bit(256) \in 0..1 /\ d(256) = 2 * d(512) + bit(256)
  BY <1>2 DEF Worth
<1>13. d(512) \in Nat /\ bit(512) \in 0..1 /\ d(512) = 2 * d(1024) + bit(512)
  BY <1>2 DEF Worth
<1>14. d(1024) \in Nat /\ bit(1024) \in 0..1 /\ d(1024) = 2 * d(2048) + bit(1024)
  BY <1>2 DEF Worth
<1>15. d(2048) \in Nat /\ bit(2048) \in 0..1 /\ d(2048) = 2 * d(4096) + bit(2048)
  BY <1>2 DEF Worth
<1>16. d(4096) \in Nat /\ bit(4096) \in 0..1 /\ d(4096) = 2 * d(8192) + bit(4096)
  BY <1>2 DEF Worth
<1>17. d(8192) \in Nat /\ bit(8192) \in 0..1 /\ d(8192) = 2 * d(16384) + bit(8192)
  BY <1>2 DEF Worth
<1>18. d(16384) \in Nat /\ bit(16384) \in 0..1 /\ d(16384) = 2 * d(32768) + bit(16384)
  BY <1>2 DEF Worth
<1>19. d(32768) \in Nat /\ bit(32768) \in 0..1 /\ d(32768) = 2 * d(65536) + bit(32768)
  BY <1>2 DEF Worth
<1>20. s1 \in Nat /\ n = s1 + 2 * d(2)
  BY <1>1, <1>3, <1>4, <1>5 DEF s1
<1>21. s2 \in Nat /\ n = s2 + 4 * d(4)
  BY <1>1, <1>3, <1>20, <1>5, <1>6 DEF s2
<1>22. s3 \in Nat /\ n = s3 + 8 * d(8)
  BY <1>1, <1>3, <1>21, <1>6, <1>7 DEF s3
<1>23. s4 \in Nat /\ n = s4 + 16 * d(16)
  BY <1>1, <1>3, <1>22, <1>7, <1>8 DEF s4
<1>24. s5 \in Nat /\ n = s5 + 32 * d(32)
  BY <1>1, <1>3, <1>23, <1>8, <1>9 DEF s5
<1>25. s6 \in Nat /\ n = s6 + 64 * d(64)
  BY <1>1, <1>3, <1>24, <1>9, <1>10 DEF s6
<1>26. s7 \in Nat /\ n = s7 + 128 * d(128)
  BY <1>1, <1>3, <1>25, <1>10, <1>11 DEF s7
<1>27. s8 \in Nat /\ n = s8 + 256 * d(256)
  BY <1>1, <1>3, <1>26, <1>11, <1>12 DEF s8
<1>28. s9 \in Nat /\ n = s9 + 512 * d(512)
  BY <1>1, <1>3, <1>27, <1>12, <1>13 DEF s9
<1>29. s10 \in Nat /\ n = s10 + 1024 * d(1024)
  BY <1>1, <1>3, <1>28, <1>13, <1>14 DEF s10
<1>30. s11 \in Nat /\ n = s11 + 2048 * d(2048)
  BY <1>1, <1>3, <1>29, <1>14, <1>15 DEF s11
<1>31. s12 \in Nat /\ n = s12 + 4096 * d(4096)
  BY <1>1, <1>3, <1>30, <1>15, <1>16 DEF s12
<1>32. s13 \in Nat /\ n = s13 + 8192 * d(8192)
  BY <1>1, <1>3, <1>31, <1>16, <1>17 DEF s13
<1>33. s14 \in Nat /\ n = s14 + 16384 * d(16384)
  BY <1>1, <1>3, <1>32, <1>17, <1>18 DEF s14
<1>34. s15 \in Nat /\ n = s15 + 32768 * d(32768)
  BY <1>1, <1>3, <1>33, <1>18, <1>19 DEF s15
<1>35. s16 \in Nat /\ n = s16 + 65536 * d(65536)
  BY <1>1, <1>3, <1>34, <1>19 DEF s16
<1>36. n = s16
  BY <1>1, <1>35
<1>37. s16 = Sum([w \in Worth |-> bit(w)])
  BY DEF Sum, Worth, s1, s2, s3, s4, s5, s6, s7, s8, s9, s10, s11, s12, s13, s14, s15, s16
<1> QED
  BY <1>36, <1>37 DEF bit

\* The bits of a sum of bits.
LEMMA BitsOfSum ==
    ASSUME NEW x \in [Worth -> 0..1]
    PROVE  Sum(x) \in Word /\ \A w \in Worth : Bit(Sum(x), w) = x[w]
<1> DEFINE c == Sum(x)
           v1 == x[1]
           v2 == x[2]
           v4 == x[4]
           v8 == x[8]
           v16 == x[16]
           v32 == x[32]
           v64 == x[64]
           v128 == x[128]
           v256 == x[256]
           v512 == x[512]
           v1024 == x[1024]
           v2048 == x[2048]
           v4096 == x[4096]
           v8192 == x[8192]
           v16384 == x[16384]
           v32768 == x[32768]
           h32768 == v32768
           h16384 == v16384 + 2 * h32768
           h8192 == v8192 + 2 * h16384
           h4096 == v4096 + 2 * h8192
           h2048 == v2048 + 2 * h4096
           h1024 == v1024 + 2 * h2048
           h512 == v512 + 2 * h1024
           h256 == v256 + 2 * h512
           h128 == v128 + 2 * h256
           h64 == v64 + 2 * h128
           h32 == v32 + 2 * h64
           h16 == v16 + 2 * h32
           h8 == v8 + 2 * h16
           h4 == v4 + 2 * h8
           h2 == v2 + 2 * h4
           h1 == v1 + 2 * h2
           l1 == 0
           l2 == l1 + v1
           l4 == l2 + 2 * v2
           l8 == l4 + 4 * v4
           l16 == l8 + 8 * v8
           l32 == l16 + 16 * v16
           l64 == l32 + 32 * v32
           l128 == l64 + 64 * v64
           l256 == l128 + 128 * v128
           l512 == l256 + 256 * v256
           l1024 == l512 + 512 * v512
           l2048 == l1024 + 1024 * v1024
           l4096 == l2048 + 2048 * v2048
           l8192 == l4096 + 4096 * v4096
           l16384 == l8192 + 8192 * v8192
           l32768 == l16384 + 16384 * v16384
<1>1. \A w \in Worth : x[w] \in 0..1
  OBVIOUS
<1> HIDE DEF c, v1, v2, v4, v8, v16, v32, v64, v128, v256, v512, v1024, v2048, v4096
             , v8192, v16384, v32768, h1, h2, h4, h8, h16, h32, h64, h128, h256
             , h512, h1024, h2048, h4096, h8192, h16384, h32768, l1, l2, l4, l8
             , l16, l32, l64, l128, l256, l512, l1024, l2048, l4096, l8192, l16384
             , l32768
<1>2. c = v1 + 2 * v2 + 4 * v4 + 8 * v8 + 16 * v16 + 32 * v32 + 64 * v64
          + 128 * v128 + 256 * v256 + 512 * v512 + 1024 * v1024 + 2048 * v2048
          + 4096 * v4096 + 8192 * v8192 + 16384 * v16384 + 32768 * v32768
  BY DEF Sum, c, v1, v2, v4, v8, v16, v32, v64, v128, v256, v512, v1024, v2048, v4096
     , v8192, v16384, v32768
<1>3. v1 \in 0..1
  BY <1>1 DEF Worth, v1
<1>4. v2 \in 0..1
  BY <1>1 DEF Worth, v2
<1>5. v4 \in 0..1
  BY <1>1 DEF Worth, v4
<1>6. v8 \in 0..1
  BY <1>1 DEF Worth, v8
<1>7. v16 \in 0..1
  BY <1>1 DEF Worth, v16
<1>8. v32 \in 0..1
  BY <1>1 DEF Worth, v32
<1>9. v64 \in 0..1
  BY <1>1 DEF Worth, v64
<1>10. v128 \in 0..1
  BY <1>1 DEF Worth, v128
<1>11. v256 \in 0..1
  BY <1>1 DEF Worth, v256
<1>12. v512 \in 0..1
  BY <1>1 DEF Worth, v512
<1>13. v1024 \in 0..1
  BY <1>1 DEF Worth, v1024
<1>14. v2048 \in 0..1
  BY <1>1 DEF Worth, v2048
<1>15. v4096 \in 0..1
  BY <1>1 DEF Worth, v4096
<1>16. v8192 \in 0..1
  BY <1>1 DEF Worth, v8192
<1>17. v16384 \in 0..1
  BY <1>1 DEF Worth, v16384
<1>18. v32768 \in 0..1
  BY <1>1 DEF Worth, v32768
<1>19. c = h1
  BY <1>2, <1>3, <1>4, <1>5, <1>6, <1>7, <1>8, <1>9, <1>10, <1>11, <1>12, <1>13
     , <1>14, <1>15, <1>16, <1>17, <1>18 DEF h1, h2, h4, h8, h16, h32, h64, h128, h256, h512, h1024, h2048, h4096
     , h8192, h16384, h32768
<1>20. h32768 \in Nat /\ h32768 = v32768
  BY <1>18 DEF h32768
<1>21. h16384 \in Nat /\ h16384 = v16384 + 2 * h32768
  BY <1>20, <1>17 DEF h16384
<1>22. h8192 \in Nat /\ h8192 = v8192 + 2 * h16384
  BY <1>21, <1>16 DEF h8192
<1>23. h4096 \in Nat /\ h4096 = v4096 + 2 * h8192
  BY <1>22, <1>15 DEF h4096
<1>24. h2048 \in Nat /\ h2048 = v2048 + 2 * h4096
  BY <1>23, <1>14 DEF h2048
<1>25. h1024 \in Nat /\ h1024 = v1024 + 2 * h2048
  BY <1>24, <1>13 DEF h1024
<1>26. h512 \in Nat /\ h512 = v512 + 2 * h1024
  BY <1>25, <1>12 DEF h512
<1>27. h256 \in Nat /\ h256 = v256 + 2 * h512
  BY <1>26, <1>11 DEF h256
<1>28. h128 \in Nat /\ h128 = v128 + 2 * h256
  BY <1>27, <1>10 DEF h128
<1>29. h64 \in Nat /\ h64 = v64 + 2 * h128
  BY <1>28, <1>9 DEF h64
<1>30. h32 \in Nat /\ h32 = v32 + 2 * h64
  BY <1>29, <1>8 DEF h32
<1>31. h16 \in Nat /\ h16 = v16 + 2 * h32
  BY <1>30, <1>7 DEF h16
<1>32. h8 \in Nat /\ h8 = v8 + 2 * h16
  BY <1>31, <1>6 DEF h8
<1>33. h4 \in Nat /\ h4 = v4 + 2 * h8
  BY <1>32, <1>5 DEF h4
<1>34. h2 \in Nat /\ h2 = v2 + 2 * h4
  BY <1>33, <1>4 DEF h2
<1>35. h1 \in Nat /\ h1 = v1 + 2 * h2
  BY <1>34, <1>3 DEF h1
<1>36. l1 \in 0..0 /\ c = l1 + h1
  BY <1>19, <1>35 DEF l1
<1>37. l2 \in 0..1 /\ c = l2 + 2 * h2
  BY <1>36, <1>3, <1>34, <1>35 DEF l2
<1>38. l4 \in 0..3 /\ c = l4 + 4 * h4
  BY <1>37, <1>4, <1>33, <1>34 DEF l4
<1>39. l8 \in 0..7 /\ c = l8 + 8 * h8
  BY <1>38, <1>5, <1>32, <1>33 DEF l8
<1>40. l16 \in 0..15 /\ c = l16 + 16 * h16
  BY <1>39, <1>6, <1>31, <1>32 DEF l16
<1>41. l32 \in 0..31 /\ c = l32 + 32 * h32
  BY <1>40, <1>7, <1>30, <1>31 DEF l32
<1>42. l64 \in 0..63 /\ c = l64 + 64 * h64
  BY <1>41, <1>8, <1>29, <1>30 DEF l64
<1>43. l128 \in 0..127 /\ c = l128 + 128 * h128
  BY <1>42, <1>9, <1>28, <1>29 DEF l128
<1>44. l256 \in 0..255 /\ c = l256 + 256 * h256
  BY <1>43, <1>10, <1>27, <1>28 DEF l256
<1>45. l512 \in 0..511 /\ c = l512 + 512 * h512
  BY <1>44, <1>11, <1>26, <1>27 DEF l512
<1>46. l1024 \in 0..1023 /\ c = l1024 + 1024 * h1024
  BY <1>45, <1>12, <1>25, <1>26 DEF l1024
<1>47. l2048 \in 0..2047 /\ c = l2048 + 2048 * h2048
  BY <1>46, <1>13, <1>24, <1>25 DEF l2048
<1>48. l4096 \in 0..4095 /\ c = l4096 + 4096 * h4096
  BY <1>47, <1>14, <1>23, <1>24 DEF l4096
<1>49. l8192 \in 0..8191 /\ c = l8192 + 8192 * h8192
  BY <1>48, <1>15, <1>22, <1>23 DEF l8192
<1>50. l16384 \in 0..16383 /\ c = l16384 + 16384 * h16384
  BY <1>49, <1>16, <1>21, <1>22 DEF l16384
<1>51. l32768 \in 0..32767 /\ c = l32768 + 32768 * h32768
  BY <1>50, <1>17, <1>20, <1>21 DEF l32768
<1>52. Bit(c, 1) = v1
  <2>1. h1 \in Nat
    BY <1>35
  <2>2. c \div 1 = h1
    BY <1>36, <2>1
  <2>3. (v1 + 2 * h2) % 2 = v1
    BY <1>34, <1>3
  <2> QED
    BY <2>2, <2>3, <1>35 DEF Bit
<1>53. Bit(c, 2) = v2
  <2>1. h2 \in Nat
    BY <1>34
  <2>2. c \div 2 = h2
    BY <1>37, <2>1
  <2>3. (v2 + 2 * h4) % 2 = v2
    BY <1>33, <1>4
  <2> QED
    BY <2>2, <2>3, <1>34 DEF Bit
<1>54. Bit(c, 4) = v4
  <2>1. h4 \in Nat
    BY <1>33
  <2>2. c \div 4 = h4
    BY <1>38, <2>1
  <2>3. (v4 + 2 * h8) % 2 = v4
    BY <1>32, <1>5
  <2> QED
    BY <2>2, <2>3, <1>33 DEF Bit
<1>55. Bit(c, 8) = v8
  <2>1. h8 \in Nat
    BY <1>32
  <2>2. c \div 8 = h8
    BY <1>39, <2>1
  <2>3. (v8 + 2 * h16) % 2 = v8
    BY <1>31, <1>6
  <2> QED
    BY <2>2, <2>3, <1>32 DEF Bit
<1>56. Bit(c, 16) = v16
  <2>1. h16 \in Nat
    BY <1>31
  <2>2. c \div 16 = h16
    BY <1>40, <2>1
  <2>3. (v16 + 2 * h32) % 2 = v16
    BY <1>30, <1>7
  <2> QED
    BY <2>2, <2>3, <1>31 DEF Bit
<1>57. Bit(c, 32) = v32
  <2>1. h32 \in Nat
    BY <1>30
  <2>2. c \div 32 = h32
    BY <1>41, <2>1
  <2>3. (v32 + 2 * h64) % 2 = v32
    BY <1>29, <1>8
  <2> QED
    BY <2>2, <2>3, <1>30 DEF Bit
<1>58. Bit(c, 64) = v64
  <2>1. h64 \in Nat
    BY <1>29
  <2>2. c \div 64 = h64
    BY <1>42, <2>1
  <2>3. (v64 + 2 * h128) % 2 = v64
    BY <1>28, <1>9
  <2> QED
    BY <2>2, <2>3, <1>29 DEF Bit
<1>59. Bit(c, 128) = v128
  <2>1. h128 \in Nat
    BY <1>28
  <2>2. c \div 128 = h128
    BY <1>43, <2>1
  <2>3. (v128 + 2 * h256) % 2 = v128
    BY <1>27, <1>10
  <2> QED
    BY <2>2, <2>3, <1>28 DEF Bit
<1>60. Bit(c, 256) = v256
  <2>1. h256 \in Nat
    BY <1>27
  <2>2. c \div 256 = h256
    BY <1>44, <2>1
  <2>3. (v256 + 2 * h512) % 2 = v256
    BY <1>26, <1>11
  <2> QED
    BY <2>2, <2>3, <1>27 DEF Bit
<1>61. Bit(c, 512) = v512
  <2>1. h512 \in Nat
    BY <1>26
  <2>2. c \div 512 = h512
    BY <1>45, <2>1
  <2>3. (v512 + 2 * h1024) % 2 = v512
    BY <1>25, <1>12
  <2> QED
    BY <2>2, <2>3, <1>26 DEF Bit
<1>62. Bit(c, 1024) = v1024
  <2>1. h1024 \in Nat
    BY <1>25
  <2>2. c \div 1024 = h1024
    BY <1>46, <2>1
  <2>3. (v1024 + 2 * h2048) % 2 = v1024
    BY <1>24, <1>13
  <2> QED
    BY <2>2, <2>3, <1>25 DEF Bit
<1>63. Bit(c, 2048) = v2048
  <2>1. h2048 \in Nat
    BY <1>24
  <2>2. c \div 2048 = h2048
    BY <1>47, <2>1
  <2>3. (v2048 + 2 * h4096) % 2 = v2048
    BY <1>23, <1>14
  <2> QED
    BY <2>2, <2>3, <1>24 DEF Bit
<1>64. Bit(c, 4096) = v4096
  <2>1. h4096 \in Nat
    BY <1>23
  <2>2. c \div 4096 = h4096
    BY <1>48, <2>1
  <2>3. (v4096 + 2 * h8192) % 2 = v4096
    BY <1>22, <1>15
  <2> QED
    BY <2>2, <2>3, <1>23 DEF Bit
<1>65. Bit(c, 8192) = v8192
  <2>1. h8192 \in Nat
    BY <1>22
  <2>2. c \div 8192 = h8192
    BY <1>49, <2>1
  <2>3. (v8192 + 2 * h16384) % 2 = v8192
    BY <1>21, <1>16
  <2> QED
    BY <2>2, <2>3, <1>22 DEF Bit
<1>66. Bit(c, 16384) = v16384
  <2>1. h16384 \in Nat
    BY <1>21
  <2>2. c \div 16384 = h16384
    BY <1>50, <2>1
  <2>3. (v16384 + 2 * h32768) % 2 = v16384
    BY <1>20, <1>17
  <2> QED
    BY <2>2, <2>3, <1>21 DEF Bit
<1>67. Bit(c, 32768) = v32768
  <2>1. c \div 32768 = v32768
    BY <1>51, <1>20, <1>18
  <2>2. v32768 % 2 = v32768
    BY <1>18
  <2> QED
    BY <2>1, <2>2 DEF Bit
<1>68. c \in Word
  <2>1. h32768 = 0 \/ h32768 = 1
    BY <1>18, <1>20
  <2>2. c \in Nat /\ c < 65536
    <3>1. CASE h32768 = 0
      BY <3>1, <1>51
    <3>2. CASE h32768 = 1
      BY <3>2, <1>51
    <3> QED
      BY <2>1, <3>1, <3>2
  <2> QED
    BY <2>2, BelowIsWord
<1>69. \A w \in Worth : Bit(c, w) = x[w]
  BY <1>52, <1>53, <1>54, <1>55, <1>56, <1>57, <1>58, <1>59, <1>60, <1>61
     , <1>62, <1>63, <1>64, <1>65, <1>66, <1>67
  DEF Worth, v1, v2, v4, v8, v16, v32, v64, v128, v256, v512, v1024, v2048, v4096
     , v8192, v16384, v32768
<1> QED
  BY <1>68, <1>69 DEF c

\* The exclusive or is the sum of the bits in which its arguments differ.
LEMMA XorIsSum ==
    ASSUME NEW a \in Word, NEW b \in Word
    PROVE  xor(a, b) = Sum([w \in Worth |-> IF Bit(a, w) = Bit(b, w) THEN 0 ELSE 1])
<1> DEFINE x == [w \in Worth |-> IF Bit(a, w) = Bit(b, w) THEN 0 ELSE 1]
<1>1. bit_xor(a, b, 1) = x[1] /\ x[1] \in 0..1
  BY DEF bit_xor, Bit, Worth
<1>2. bit_xor(a, b, 2) = 2 * x[2] /\ x[2] \in 0..1
  BY DEF bit_xor, Bit, Worth
<1>3. bit_xor(a, b, 4) = 4 * x[4] /\ x[4] \in 0..1
  BY DEF bit_xor, Bit, Worth
<1>4. bit_xor(a, b, 8) = 8 * x[8] /\ x[8] \in 0..1
  BY DEF bit_xor, Bit, Worth
<1>5. bit_xor(a, b, 16) = 16 * x[16] /\ x[16] \in 0..1
  BY DEF bit_xor, Bit, Worth
<1>6. bit_xor(a, b, 32) = 32 * x[32] /\ x[32] \in 0..1
  BY DEF bit_xor, Bit, Worth
<1>7. bit_xor(a, b, 64) = 64 * x[64] /\ x[64] \in 0..1
  BY DEF bit_xor, Bit, Worth
<1>8. bit_xor(a, b, 128) = 128 * x[128] /\ x[128] \in 0..1
  BY DEF bit_xor, Bit, Worth
<1>9. bit_xor(a, b, 256) = 256 * x[256] /\ x[256] \in 0..1
  BY DEF bit_xor, Bit, Worth
<1>10. bit_xor(a, b, 512) = 512 * x[512] /\ x[512] \in 0..1
  BY DEF bit_xor, Bit, Worth
<1>11. bit_xor(a, b, 1024) = 1024 * x[1024] /\ x[1024] \in 0..1
  BY DEF bit_xor, Bit, Worth
<1>12. bit_xor(a, b, 2048) = 2048 * x[2048] /\ x[2048] \in 0..1
  BY DEF bit_xor, Bit, Worth
<1>13. bit_xor(a, b, 4096) = 4096 * x[4096] /\ x[4096] \in 0..1
  BY DEF bit_xor, Bit, Worth
<1>14. bit_xor(a, b, 8192) = 8192 * x[8192] /\ x[8192] \in 0..1
  BY DEF bit_xor, Bit, Worth
<1>15. bit_xor(a, b, 16384) = 16384 * x[16384] /\ x[16384] \in 0..1
  BY DEF bit_xor, Bit, Worth
<1>16. bit_xor(a, b, 32768) = 32768 * x[32768] /\ x[32768] \in 0..1
  BY DEF bit_xor, Bit, Worth
<1> HIDE DEF x
<1>17. xor(a, b) = Sum(x)
  BY <1>1, <1>2, <1>3, <1>4, <1>5, <1>6, <1>7, <1>8, <1>9, <1>10, <1>11
     , <1>12, <1>13, <1>14, <1>15, <1>16 DEF xor, Sum
<1> QED
  BY <1>17 DEF x

\* The exclusive or with b undoes the exclusive or with b: from either of its
\* two buckets a fingerprint finds the other one.
LEMMA XorUndone ==
    ASSUME NEW a \in Word, NEW b \in Word
    PROVE  xor(a, b) \in Word /\ xor(xor(a, b), b) = a
<1> DEFINE x == [w \in Worth |-> IF Bit(a, w) = Bit(b, w) THEN 0 ELSE 1]
           c == xor(a, b)
           y == [w \in Worth |-> IF Bit(c, w) = Bit(b, w) THEN 0 ELSE 1]
           z == [w \in Worth |-> Bit(a, w)]
<1>1. x \in [Worth -> 0..1] /\ a \in Nat /\ b \in Nat
  BY WordBasics
<1>2. c = Sum(x)
  BY XorIsSum
<1>3. c \in Word /\ \A w \in Worth : Bit(c, w) = x[w]
  <2> HIDE DEF x
  <2> QED
    BY <1>1, <1>2, BitsOfSum
<1>4. xor(c, b) = Sum(y)
  BY <1>3, XorIsSum
<1>5. ASSUME NEW w \in Worth PROVE y[w] = z[w]
  <2>1. Bit(a, w) \in 0..1 /\ Bit(b, w) \in 0..1
    BY <1>1, Halve
  <2>2. Bit(c, w) = x[w]
    BY <1>3
  <2> QED
    BY <2>1, <2>2
<1>6. y = z
  BY <1>5
<1>7. a = Sum(z)
  BY SumOfBits
<1> QED
  BY <1>3, <1>4, <1>6, <1>7

\* The exclusive or of two buckets is a bucket, because their number is a power
\* of two.
LEMMA XorRange ==
    ASSUME NEW i \in Bucket, NEW j \in Bucket
    PROVE  xor(i, j) \in Bucket
<1> DEFINE b1 == bit_xor(i, j, 1)
           b2 == bit_xor(i, j, 2)
           b4 == bit_xor(i, j, 4)
           b8 == bit_xor(i, j, 8)
           b16 == bit_xor(i, j, 16)
           b32 == bit_xor(i, j, 32)
           b64 == bit_xor(i, j, 64)
           b128 == bit_xor(i, j, 128)
           b256 == bit_xor(i, j, 256)
           b512 == bit_xor(i, j, 512)
           b1024 == bit_xor(i, j, 1024)
           b2048 == bit_xor(i, j, 2048)
           b4096 == bit_xor(i, j, 4096)
           b8192 == bit_xor(i, j, 8192)
           b16384 == bit_xor(i, j, 16384)
           b32768 == bit_xor(i, j, 32768)
           s1 == 0
           s2 == s1 + b1
           s4 == s2 + b2
           s8 == s4 + b4
           s16 == s8 + b8
           s32 == s16 + b16
           s64 == s32 + b32
           s128 == s64 + b64
           s256 == s128 + b128
           s512 == s256 + b256
           s1024 == s512 + b512
           s2048 == s1024 + b1024
           s4096 == s2048 + b2048
           s8192 == s4096 + b4096
           s16384 == s8192 + b8192
           s32768 == s16384 + b16384
           s65536 == s32768 + b32768
<1>1. i \in Nat /\ j \in Nat /\ i < NUM_BUCKETS /\ j < NUM_BUCKETS /\ NUM_BUCKETS \in Nat
  BY Buckets16
<1>2. b1 \in {0, 1} /\ (NUM_BUCKETS <= 1 => b1 = 0)
  <2>1. b1 \in {0, 1}
    BY DEF bit_xor
  <2>2. ASSUME NUM_BUCKETS <= 1 PROVE b1 = 0
    <3>1. i \div 1 = 0 /\ j \div 1 = 0
      BY <1>1, <2>2
    <3> QED
      BY <3>1 DEF bit_xor
  <2> QED
    BY <2>1, <2>2
<1>3. b2 \in {0, 2} /\ (NUM_BUCKETS <= 2 => b2 = 0)
  <2>1. b2 \in {0, 2}
    BY DEF bit_xor
  <2>2. ASSUME NUM_BUCKETS <= 2 PROVE b2 = 0
    <3>1. i \div 2 = 0 /\ j \div 2 = 0
      BY <1>1, <2>2
    <3> QED
      BY <3>1 DEF bit_xor
  <2> QED
    BY <2>1, <2>2
<1>4. b4 \in {0, 4} /\ (NUM_BUCKETS <= 4 => b4 = 0)
  <2>1. b4 \in {0, 4}
    BY DEF bit_xor
  <2>2. ASSUME NUM_BUCKETS <= 4 PROVE b4 = 0
    <3>1. i \div 4 = 0 /\ j \div 4 = 0
      BY <1>1, <2>2
    <3> QED
      BY <3>1 DEF bit_xor
  <2> QED
    BY <2>1, <2>2
<1>5. b8 \in {0, 8} /\ (NUM_BUCKETS <= 8 => b8 = 0)
  <2>1. b8 \in {0, 8}
    BY DEF bit_xor
  <2>2. ASSUME NUM_BUCKETS <= 8 PROVE b8 = 0
    <3>1. i \div 8 = 0 /\ j \div 8 = 0
      BY <1>1, <2>2
    <3> QED
      BY <3>1 DEF bit_xor
  <2> QED
    BY <2>1, <2>2
<1>6. b16 \in {0, 16} /\ (NUM_BUCKETS <= 16 => b16 = 0)
  <2>1. b16 \in {0, 16}
    BY DEF bit_xor
  <2>2. ASSUME NUM_BUCKETS <= 16 PROVE b16 = 0
    <3>1. i \div 16 = 0 /\ j \div 16 = 0
      BY <1>1, <2>2
    <3> QED
      BY <3>1 DEF bit_xor
  <2> QED
    BY <2>1, <2>2
<1>7. b32 \in {0, 32} /\ (NUM_BUCKETS <= 32 => b32 = 0)
  <2>1. b32 \in {0, 32}
    BY DEF bit_xor
  <2>2. ASSUME NUM_BUCKETS <= 32 PROVE b32 = 0
    <3>1. i \div 32 = 0 /\ j \div 32 = 0
      BY <1>1, <2>2
    <3> QED
      BY <3>1 DEF bit_xor
  <2> QED
    BY <2>1, <2>2
<1>8. b64 \in {0, 64} /\ (NUM_BUCKETS <= 64 => b64 = 0)
  <2>1. b64 \in {0, 64}
    BY DEF bit_xor
  <2>2. ASSUME NUM_BUCKETS <= 64 PROVE b64 = 0
    <3>1. i \div 64 = 0 /\ j \div 64 = 0
      BY <1>1, <2>2
    <3> QED
      BY <3>1 DEF bit_xor
  <2> QED
    BY <2>1, <2>2
<1>9. b128 \in {0, 128} /\ (NUM_BUCKETS <= 128 => b128 = 0)
  <2>1. b128 \in {0, 128}
    BY DEF bit_xor
  <2>2. ASSUME NUM_BUCKETS <= 128 PROVE b128 = 0
    <3>1. i \div 128 = 0 /\ j \div 128 = 0
      BY <1>1, <2>2
    <3> QED
      BY <3>1 DEF bit_xor
  <2> QED
    BY <2>1, <2>2
<1>10. b256 \in {0, 256} /\ (NUM_BUCKETS <= 256 => b256 = 0)
  <2>1. b256 \in {0, 256}
    BY DEF bit_xor
  <2>2. ASSUME NUM_BUCKETS <= 256 PROVE b256 = 0
    <3>1. i \div 256 = 0 /\ j \div 256 = 0
      BY <1>1, <2>2
    <3> QED
      BY <3>1 DEF bit_xor
  <2> QED
    BY <2>1, <2>2
<1>11. b512 \in {0, 512} /\ (NUM_BUCKETS <= 512 => b512 = 0)
  <2>1. b512 \in {0, 512}
    BY DEF bit_xor
  <2>2. ASSUME NUM_BUCKETS <= 512 PROVE b512 = 0
    <3>1. i \div 512 = 0 /\ j \div 512 = 0
      BY <1>1, <2>2
    <3> QED
      BY <3>1 DEF bit_xor
  <2> QED
    BY <2>1, <2>2
<1>12. b1024 \in {0, 1024} /\ (NUM_BUCKETS <= 1024 => b1024 = 0)
  <2>1. b1024 \in {0, 1024}
    BY DEF bit_xor
  <2>2. ASSUME NUM_BUCKETS <= 1024 PROVE b1024 = 0
    <3>1. i \div 1024 = 0 /\ j \div 1024 = 0
      BY <1>1, <2>2
    <3> QED
      BY <3>1 DEF bit_xor
  <2> QED
    BY <2>1, <2>2
<1>13. b2048 \in {0, 2048} /\ (NUM_BUCKETS <= 2048 => b2048 = 0)
  <2>1. b2048 \in {0, 2048}
    BY DEF bit_xor
  <2>2. ASSUME NUM_BUCKETS <= 2048 PROVE b2048 = 0
    <3>1. i \div 2048 = 0 /\ j \div 2048 = 0
      BY <1>1, <2>2
    <3> QED
      BY <3>1 DEF bit_xor
  <2> QED
    BY <2>1, <2>2
<1>14. b4096 \in {0, 4096} /\ (NUM_BUCKETS <= 4096 => b4096 = 0)
  <2>1. b4096 \in {0, 4096}
    BY DEF bit_xor
  <2>2. ASSUME NUM_BUCKETS <= 4096 PROVE b4096 = 0
    <3>1. i \div 4096 = 0 /\ j \div 4096 = 0
      BY <1>1, <2>2
    <3> QED
      BY <3>1 DEF bit_xor
  <2> QED
    BY <2>1, <2>2
<1>15. b8192 \in {0, 8192} /\ (NUM_BUCKETS <= 8192 => b8192 = 0)
  <2>1. b8192 \in {0, 8192}
    BY DEF bit_xor
  <2>2. ASSUME NUM_BUCKETS <= 8192 PROVE b8192 = 0
    <3>1. i \div 8192 = 0 /\ j \div 8192 = 0
      BY <1>1, <2>2
    <3> QED
      BY <3>1 DEF bit_xor
  <2> QED
    BY <2>1, <2>2
<1>16. b16384 \in {0, 16384} /\ (NUM_BUCKETS <= 16384 => b16384 = 0)
  <2>1. b16384 \in {0, 16384}
    BY DEF bit_xor
  <2>2. ASSUME NUM_BUCKETS <= 16384 PROVE b16384 = 0
    <3>1. i \div 16384 = 0 /\ j \div 16384 = 0
      BY <1>1, <2>2
    <3> QED
      BY <3>1 DEF bit_xor
  <2> QED
    BY <2>1, <2>2
<1>17. b32768 \in {0, 32768} /\ (NUM_BUCKETS <= 32768 => b32768 = 0)
  <2>1. b32768 \in {0, 32768}
    BY DEF bit_xor
  <2>2. ASSUME NUM_BUCKETS <= 32768 PROVE b32768 = 0
    <3>1. i \div 32768 = 0 /\ j \div 32768 = 0
      BY <1>1, <2>2
    <3> QED
      BY <3>1 DEF bit_xor
  <2> QED
    BY <2>1, <2>2
<1> HIDE DEF b1, b2, b4, b8, b16, b32, b64, b128, b256, b512, b1024, b2048, b4096
             , b8192, b16384, b32768, s1, s2, s4, s8, s16, s32, s64, s128, s256
             , s512, s1024, s2048, s4096, s8192, s16384, s32768, s65536
<1>18. s1 \in Nat /\ s1 < 1 /\ (NUM_BUCKETS <= 1 => s1 < NUM_BUCKETS)
  BY Buckets16 DEF s1
<1>19. s2 \in Nat /\ s2 < 2 /\ (NUM_BUCKETS <= 2 => s2 < NUM_BUCKETS)
  <2>1. NUM_BUCKETS <= 1 \/ NUM_BUCKETS >= 2
    BY BucketsAssumption
  <2> QED
    BY <1>1, <1>2, <1>18, <2>1 DEF s2
<1>20. s4 \in Nat /\ s4 < 4 /\ (NUM_BUCKETS <= 4 => s4 < NUM_BUCKETS)
  <2>1. NUM_BUCKETS <= 2 \/ NUM_BUCKETS >= 4
    BY BucketsAssumption
  <2> QED
    BY <1>1, <1>3, <1>19, <2>1 DEF s4
<1>21. s8 \in Nat /\ s8 < 8 /\ (NUM_BUCKETS <= 8 => s8 < NUM_BUCKETS)
  <2>1. NUM_BUCKETS <= 4 \/ NUM_BUCKETS >= 8
    BY BucketsAssumption
  <2> QED
    BY <1>1, <1>4, <1>20, <2>1 DEF s8
<1>22. s16 \in Nat /\ s16 < 16 /\ (NUM_BUCKETS <= 16 => s16 < NUM_BUCKETS)
  <2>1. NUM_BUCKETS <= 8 \/ NUM_BUCKETS >= 16
    BY BucketsAssumption
  <2> QED
    BY <1>1, <1>5, <1>21, <2>1 DEF s16
<1>23. s32 \in Nat /\ s32 < 32 /\ (NUM_BUCKETS <= 32 => s32 < NUM_BUCKETS)
  <2>1. NUM_BUCKETS <= 16 \/ NUM_BUCKETS >= 32
    BY BucketsAssumption
  <2> QED
    BY <1>1, <1>6, <1>22, <2>1 DEF s32
<1>24. s64 \in Nat /\ s64 < 64 /\ (NUM_BUCKETS <= 64 => s64 < NUM_BUCKETS)
  <2>1. NUM_BUCKETS <= 32 \/ NUM_BUCKETS >= 64
    BY BucketsAssumption
  <2> QED
    BY <1>1, <1>7, <1>23, <2>1 DEF s64
<1>25. s128 \in Nat /\ s128 < 128 /\ (NUM_BUCKETS <= 128 => s128 < NUM_BUCKETS)
  <2>1. NUM_BUCKETS <= 64 \/ NUM_BUCKETS >= 128
    BY BucketsAssumption
  <2> QED
    BY <1>1, <1>8, <1>24, <2>1 DEF s128
<1>26. s256 \in Nat /\ s256 < 256 /\ (NUM_BUCKETS <= 256 => s256 < NUM_BUCKETS)
  <2>1. NUM_BUCKETS <= 128 \/ NUM_BUCKETS >= 256
    BY BucketsAssumption
  <2> QED
    BY <1>1, <1>9, <1>25, <2>1 DEF s256
<1>27. s512 \in Nat /\ s512 < 512 /\ (NUM_BUCKETS <= 512 => s512 < NUM_BUCKETS)
  <2>1. NUM_BUCKETS <= 256 \/ NUM_BUCKETS >= 512
    BY BucketsAssumption
  <2> QED
    BY <1>1, <1>10, <1>26, <2>1 DEF s512
<1>28. s1024 \in Nat /\ s1024 < 1024 /\ (NUM_BUCKETS <= 1024 => s1024 < NUM_BUCKETS)
  <2>1. NUM_BUCKETS <= 512 \/ NUM_BUCKETS >= 1024
    BY BucketsAssumption
  <2> QED
    BY <1>1, <1>11, <1>27, <2>1 DEF s1024
<1>29. s2048 \in Nat /\ s2048 < 2048 /\ (NUM_BUCKETS <= 2048 => s2048 < NUM_BUCKETS)
  <2>1. NUM_BUCKETS <= 1024 \/ NUM_BUCKETS >= 2048
    BY BucketsAssumption
  <2> QED
    BY <1>1, <1>12, <1>28, <2>1 DEF s2048
<1>30. s4096 \in Nat /\ s4096 < 4096 /\ (NUM_BUCKETS <= 4096 => s4096 < NUM_BUCKETS)
  <2>1. NUM_BUCKETS <= 2048 \/ NUM_BUCKETS >= 4096
    BY BucketsAssumption
  <2> QED
    BY <1>1, <1>13, <1>29, <2>1 DEF s4096
<1>31. s8192 \in Nat /\ s8192 < 8192 /\ (NUM_BUCKETS <= 8192 => s8192 < NUM_BUCKETS)
  <2>1. NUM_BUCKETS <= 4096 \/ NUM_BUCKETS >= 8192
    BY BucketsAssumption
  <2> QED
    BY <1>1, <1>14, <1>30, <2>1 DEF s8192
<1>32. s16384 \in Nat /\ s16384 < 16384 /\ (NUM_BUCKETS <= 16384 => s16384 < NUM_BUCKETS)
  <2>1. NUM_BUCKETS <= 8192 \/ NUM_BUCKETS >= 16384
    BY BucketsAssumption
  <2> QED
    BY <1>1, <1>15, <1>31, <2>1 DEF s16384
<1>33. s32768 \in Nat /\ s32768 < 32768 /\ (NUM_BUCKETS <= 32768 => s32768 < NUM_BUCKETS)
  <2>1. NUM_BUCKETS <= 16384 \/ NUM_BUCKETS >= 32768
    BY BucketsAssumption
  <2> QED
    BY <1>1, <1>16, <1>32, <2>1 DEF s32768
<1>34. s65536 \in Nat /\ s65536 < 65536 /\ (NUM_BUCKETS <= 65536 => s65536 < NUM_BUCKETS)
  <2>1. NUM_BUCKETS <= 32768 \/ NUM_BUCKETS >= 65536
    BY BucketsAssumption
  <2> QED
    BY <1>1, <1>17, <1>33, <2>1 DEF s65536
<1>35. s65536 \in Nat /\ s65536 < NUM_BUCKETS
  BY <1>1, <1>34, Buckets16
<1>36. s65536 = xor(i, j)
  BY <1>2, <1>3, <1>4, <1>5, <1>6, <1>7, <1>8, <1>9, <1>10, <1>11, <1>12
     , <1>13, <1>14, <1>15, <1>16, <1>17
  DEF xor, b1, b2, b4, b8, b16, b32, b64, b128, b256, b512, b1024, b2048, b4096
      , b8192, b16384, b32768, s1, s2, s4, s8, s16, s32, s64, s128, s256
      , s512, s1024, s2048, s4096, s8192, s16384, s32768, s65536
<1> QED
  BY <1>1, <1>35, <1>36 DEF Bucket

-----------------------------------------------------------------------------
(* The sequence of the keys.                                               *)

\* What holds of a number when it holds of all smaller ones, holds of all.
LEMMA UpInduction ==
    ASSUME NEW hi \in Nat, NEW P,
           \A b \in 0..hi : (\A c \in 0..(b - 1) : c \in P) => b \in P
    PROVE  \A b \in 0..hi : b \in P
<1> SUFFICES ASSUME \E b \in 0..hi : b \notin P PROVE FALSE
  OBVIOUS
<1> DEFINE T == {n \in Nat : n <= hi /\ n \notin P}
<1>1. PICK b \in T : TRUE
  OBVIOUS
<1>2. PICK m \in T : \A k \in T : ~(<<k, m>> \in OpToRel(<, Nat))
  BY <1>1, NatLessThanWellFounded, WFMin
<1>3. \A k \in T : ~(k < m)
  BY <1>2 DEF OpToRel
<1>4. ASSUME NEW c \in 0..(m - 1) PROVE c \in P
  <2>1. c \in Nat /\ c < m /\ c <= hi
    <3>1. m \in Nat /\ m <= hi
      BY <1>2
    <3>2. c \in 0..(m - 1)
      BY <1>4
    <3> QED
      BY <3>1, <3>2
  <2> QED
    BY <1>3, <2>1
<1>5. m \in 0..hi /\ m \notin P
  <2>1. m \in Nat /\ m <= hi /\ m \notin P
    BY <1>2
  <2> QED
    BY <2>1
<1> QED
  BY <1>4, <1>5

\* The key number n, given those before it.
KeyAt(g, n) == IF n = 0 THEN init_key ELSE next_key(g[n-1])

\* The sequence of the keys exists.
LEMMA KeysExist ==
    \E g \in [0..NUM_INSERTS -> Word] : g = [n \in 0..NUM_INSERTS |-> KeyAt(g, n)]
<1> DEFINE N == NUM_INSERTS
           S == 0..N
           P == {n \in S : \E g \in [S -> Word] : \A m \in 0..n : g[m] = KeyAt(g, m)}
<1>1. N \in Nat
  BY Counts
<1>2. ASSUME NEW g \in [S -> Word], NEW n \in S PROVE KeyAt(g, n) \in Word
  <2>1. CASE n = 0
    BY <2>1, WordBasics DEF KeyAt, init_key
  <2>2. CASE n # 0
    <3>1. n - 1 \in S
      BY <1>1, <2>2
    <3>2. g[n-1] \in Word
      BY <3>1
    <3> QED
      BY <2>2, <3>2, HashRange DEF KeyAt
  <2> QED
    BY <2>1, <2>2
<1>3. ASSUME NEW n \in S, \A c \in 0..(n - 1) : c \in P PROVE n \in P
  <2>1. PICK g \in [S -> Word] : \A m \in 0..(n - 1) : g[m] = KeyAt(g, m)
    <3>1. CASE n = 0
      <4>1. 0..(n - 1) = {}
        BY <3>1
      <4>2. [m \in S |-> 0] \in [S -> Word]
        BY WordBasics
      <4> QED
        BY <4>1, <4>2
    <3>2. CASE n # 0
      <4>1. n - 1 \in 0..(n - 1)
        BY <1>1, <3>2
      <4> QED
        BY <1>3, <4>1
    <3> QED
      BY <3>1, <3>2
  <2> DEFINE h == [g EXCEPT ![n] = KeyAt(g, n)]
  <2>2. h \in [S -> Word]
    BY <1>2
  <2>3. \A m \in 0..(n - 1) : m \in S /\ h[m] = g[m]
    BY <1>1
  <2>4. h[n] = KeyAt(g, n)
    OBVIOUS
  <2> HIDE DEF h
  <2>5. ASSUME NEW m \in 0..n PROVE KeyAt(h, m) = KeyAt(g, m)
    <3>1. CASE m = 0
      BY <3>1 DEF KeyAt
    <3>2. CASE m # 0
      <4>1. m - 1 \in 0..(n - 1)
        BY <1>1, <3>2
      <4>2. h[m-1] = g[m-1]
        BY <2>3, <4>1
      <4> QED
        BY <3>2, <4>2 DEF KeyAt
    <3> QED
      BY <3>1, <3>2
  <2>6. ASSUME NEW m \in 0..n PROVE h[m] = KeyAt(h, m)
    <3>1. m = n \/ m \in 0..(n - 1)
      BY <1>1
    <3> QED
      BY <2>1, <2>3, <2>4, <2>5, <3>1
  <2> QED
    BY <2>2, <2>6
<1>4. N \in P
  <2>1. \A b \in 0..N : b \in P
    <3> HIDE DEF P
    <3> QED
      BY <1>1, <1>3, UpInduction
  <2> QED
    BY <1>1, <2>1
<1>5. PICK g \in [S -> Word] : \A m \in S : g[m] = KeyAt(g, m)
  BY <1>4
<1> QED
  BY <1>5

\* Each key is a word, and follows from the one before it.
LEMMA Keys ==
    /\ \A n \in 0..NUM_INSERTS : K[n] \in Word
    /\ K[0] = init_key
    /\ \A n \in 0..(NUM_INSERTS - 1) : K[n+1] = next_key(K[n])
<1> DEFINE S == 0..NUM_INSERTS
           g0 == CHOOSE g : g = [n \in S |-> KeyAt(g, n)]
<1>1. PICK g \in [S -> Word] : g = [n \in S |-> KeyAt(g, n)]
  BY KeysExist
<1>2. g0 = [n \in S |-> KeyAt(g0, n)]
  BY <1>1
<1>3. K = g0
  BY DEF K, KeyAt
<1>4. NUM_INSERTS \in Nat
  BY Counts
<1>5. K = [n \in S |-> KeyAt(K, n)]
  <2> HIDE DEF g0
  <2> QED
    BY <1>2, <1>3
<1>6. ASSUME NEW n \in S PROVE K[n] = KeyAt(K, n)
  BY <1>5
<1>7. K[0] = init_key
  <2>1. 0 \in S
    BY <1>4
  <2> QED
    BY <1>6, <2>1 DEF KeyAt
<1>8. ASSUME NEW n \in 0..(NUM_INSERTS - 1) PROVE K[n+1] = next_key(K[n])
  <2>1. n + 1 \in S /\ n + 1 # 0 /\ (n + 1) - 1 = n
    BY <1>4
  <2> QED
    BY <1>6, <2>1 DEF KeyAt
<1>9. \A n \in S : K[n] \in Word
  <2> DEFINE P == {n \in S : K[n] \in Word}
  <2>1. ASSUME NEW n \in S, \A c \in 0..(n - 1) : c \in P PROVE n \in P
    <3>1. CASE n = 0
      <4>1. K[n] = 1 /\ 1 \in Word
        BY <1>7, <3>1, WordBasics DEF init_key
      <4> QED
        BY <4>1
    <3>2. CASE n # 0
      <4>1. n - 1 \in 0..(n - 1)
        BY <1>4, <3>2
      <4>2. K[n-1] \in Word
        BY <2>1, <4>1
      <4> QED
        BY <1>6, <3>2, <4>2, HashRange DEF KeyAt
    <3> QED
      BY <3>1, <3>2
  <2>2. \A n \in S : n \in P
    <3> HIDE DEF P
    <3> QED
      BY <1>4, <2>1, UpInduction
  <2> QED
    BY <2>2
<1> QED
  BY <1>7, <1>8, <1>9

-----------------------------------------------------------------------------
(* What a list of accesses does to the memory.                             *)

Vars == Filter \cup Scalars
\* Memory m with x in variable v.
Store(m, v, x) == [m EXCEPT ![v] = x]
Accesses == [op : {"read", "write"}, var : Vars, val : Int]

\* The variables are distinct.
LEMMA Names ==
    /\ \A i : filter(i) \notin Scalars
    /\ \A i, j : filter(i) = filter(j) => i = j
    /\ key \notin {next_task, fingerprint, index1, index2, relocation_count, insert_count,
                   inserted_count, lookup_count, member_count, success, member}
    /\ next_task \notin {fingerprint, index1, index2, relocation_count, insert_count,
                         inserted_count, lookup_count, member_count, success, member}
    /\ fingerprint \notin {index1, index2, relocation_count, insert_count, inserted_count,
                           lookup_count, member_count, success, member}
    /\ index1 \notin {index2, relocation_count, insert_count, inserted_count, lookup_count,
                      member_count, success, member}
    /\ index2 \notin {relocation_count, insert_count, inserted_count, lookup_count,
                      member_count, success, member}
    /\ relocation_count \notin {insert_count, inserted_count, lookup_count, member_count,
                                success, member}
    /\ insert_count \notin {inserted_count, lookup_count, member_count, success, member}
    /\ inserted_count \notin {lookup_count, member_count, success, member}
    /\ lookup_count \notin {member_count, success, member}
    /\ member_count \notin {success, member}
    /\ success # member
<1>1. \A i : filter(i) \notin Scalars
  BY DEF filter, Scalars, key, next_task, fingerprint, index1, index2, relocation_count, insert_count,
     inserted_count, lookup_count, member_count, success, member
<1>2. \A i, j : filter(i) = filter(j) => i = j
  BY DEF filter
<1>3. \A a, b : <<a>> = <<b>> => a = b
  OBVIOUS
<1> QED
  BY <1>1, <1>2, <1>3 DEF key, next_task, fingerprint, index1, index2, relocation_count, insert_count,
     inserted_count, lookup_count, member_count, success, member

\* They are the cells of the array and the scalars.
LEMMA VarsAre ==
    /\ \A i \in Bucket : filter(i) \in Vars /\ filter(i) \in Filter
    /\ Scalars \subseteq Vars
    /\ key \in Vars /\ next_task \in Vars /\ fingerprint \in Vars /\ index1 \in Vars
    /\ index2 \in Vars /\ relocation_count \in Vars /\ insert_count \in Vars
    /\ inserted_count \in Vars /\ lookup_count \in Vars /\ member_count \in Vars
    /\ success \in Vars /\ member \in Vars
    /\ \A v \in Vars : v \in Scalars \/ \E i \in Bucket : v = filter(i)
BY DEF Vars, Filter, Bucket, Scalars

\* Of any number of accesses one is the last.
LEMMA LastOf ==
    ASSUME NEW n \in Nat, NEW W \in SUBSET (1..n), W # {}
    PROVE  \E i \in W : \A j \in W : j <= i
<1> DEFINE T == {k \in Nat : n - k \in W}
<1>1. PICK i \in W : TRUE
  OBVIOUS
<1>2. n - i \in T
  <2>1. i \in 1..n
    OBVIOUS
  <2>2. n - i \in Nat /\ n - (n - i) = i
    BY <2>1
  <2> QED
    BY <1>1, <2>2
<1>3. PICK m \in T : \A k \in T : ~(<<k, m>> \in OpToRel(<, Nat))
  BY <1>2, NatLessThanWellFounded, WFMin
<1>4. \A k \in T : ~(k < m)
  BY <1>3 DEF OpToRel
<1>5. n - m \in W /\ m \in Nat
  BY <1>3
<1>6. ASSUME NEW j \in W PROVE j <= n - m
  <2>1. j \in 1..n
    OBVIOUS
  <2>2. n - j \in Nat /\ n - (n - j) = j
    BY <2>1
  <2>3. n - j \in T
    BY <2>2
  <2>4. ~(n - j < m)
    BY <1>4, <2>3
  <2> QED
    BY <1>5, <2>1, <2>2, <2>4
<1> QED
  BY <1>5, <1>6

\* The last access of a list decides about its variable, if it is a write.
LEMMA Appended ==
    ASSUME NEW m \in [Vars -> Int], NEW ops \in Seq(Accesses), NEW v \in Vars, NEW x \in Int
    PROVE  /\ ops \o write(v, x) \in Seq(Accesses)
           /\ After(m, ops \o write(v, x)) = Store(After(m, ops), v, x)
           /\ ops \o read(v) \in Seq(Accesses)
           /\ After(m, ops \o read(v)) = After(m, ops)
<1> DEFINE n == Len(ops)
           W(s, u) == {i \in DOMAIN s : s[i].op = "write" /\ s[i].var = u}
           last(s, u) == CHOOSE i \in W(s, u) : \A j \in W(s, u) : j <= i
<1>1. n \in Nat /\ DOMAIN ops = 1..n
  OBVIOUS
<1>2. ASSUME NEW u \in Vars, W(ops, u) # {} PROVE last(ops, u) \in W(ops, u) /\ last(ops, u) \in 1..n
  <2>1. W(ops, u) \in SUBSET (1..n)
    BY <1>1
  <2>2. \E i \in W(ops, u) : \A j \in W(ops, u) : j <= i
    <3> HIDE DEF W
    <3> QED
      BY <1>1, <1>2, <2>1, LastOf
  <2>3. last(ops, u) \in W(ops, u)
    <3> HIDE DEF W
    <3> QED
      BY <2>2
  <2> QED
    BY <2>1, <2>3
<1>3. ASSUME NEW a \in Accesses
      PROVE  /\ ops \o <<a>> \in Seq(Accesses) /\ DOMAIN (ops \o <<a>>) = 1..(n + 1)
             /\ (ops \o <<a>>)[n+1] = a /\ \A i \in 1..n : (ops \o <<a>>)[i] = ops[i]
  OBVIOUS
<1>4. ASSUME NEW a \in Accesses, NEW u \in Vars, a.op # "write" \/ a.var # u
      PROVE  After(m, ops \o <<a>>)[u] = After(m, ops)[u]
  <2> DEFINE s == ops \o <<a>>
  <2>1. W(s, u) = W(ops, u)
    <3> HIDE DEF s
    <3>1. DOMAIN s = 1..(n + 1) /\ s[n+1] = a /\ \A i \in 1..n : s[i] = ops[i]
      BY <1>3 DEF s
    <3>2. \A i \in 1..(n + 1) : i = n + 1 \/ i \in 1..n
      BY <1>1
    <3>3. \A i \in 1..n : i \in 1..(n + 1)
      BY <1>1
    <3> HIDE DEF n
    <3> QED
      BY <1>1, <1>4, <3>1, <3>2, <3>3
  <2>2. After(m, s)[u] = IF W(s, u) = {} THEN m[u] ELSE s[last(s, u)].val
    BY DEF After
  <2>3. After(m, ops)[u] = IF W(ops, u) = {} THEN m[u] ELSE ops[last(ops, u)].val
    BY DEF After
  <2>4. last(s, u) = last(ops, u)
    <3> HIDE DEF W, s
    <3> QED
      BY <2>1
  <2>5. W(ops, u) # {} => s[last(ops, u)] = ops[last(ops, u)]
    <3> HIDE DEF W, last
    <3> QED
      BY <1>2, <1>3
  <2> HIDE DEF W, last, s
  <2> QED
    BY <2>1, <2>2, <2>3, <2>4, <2>5 DEF s
<1>5. ASSUME NEW a \in Accesses, a.op = "write"
      PROVE  After(m, ops \o <<a>>)[a.var] = a.val
  <2> DEFINE s == ops \o <<a>>
             u == a.var
  <2>1. u \in Vars
    BY DEF Accesses
  <2>2. DOMAIN s = 1..(n + 1) /\ s[n+1] = a
    BY <1>3
  <2> HIDE DEF s, n
  <2>3. n + 1 \in W(s, u) /\ \A j \in W(s, u) : j <= n + 1 /\ j \in Nat
    BY <1>1, <1>5, <2>2
  <2>4. last(s, u) = n + 1
    <3> HIDE DEF W
    <3> QED
      BY <1>1, <2>3
  <2>5. After(m, s)[u] = IF W(s, u) = {} THEN m[u] ELSE s[last(s, u)].val
    BY <2>1 DEF After
  <2> HIDE DEF W, last
  <2> QED
    BY <2>2, <2>3, <2>4, <2>5 DEF s
<1>6. \A s : After(m, s) = [u \in Vars |-> After(m, s)[u]]
  BY DEF After
<1> DEFINE r == [op |-> "read", var |-> v, val |-> 0]
           w == [op |-> "write", var |-> v, val |-> x]
<1>7. r \in Accesses /\ w \in Accesses /\ r.op # "write" /\ w.op = "write" /\ w.var = v /\ w.val = x
  BY DEF Accesses
<1>8. read(v) = <<r>> /\ write(v, x) = <<w>>
  BY DEF read, write
<1> HIDE DEF r, w
<1>9. After(m, ops \o <<r>>) = After(m, ops)
  <2>1. \A u \in Vars : After(m, ops \o <<r>>)[u] = After(m, ops)[u]
    BY <1>4, <1>7
  <2> QED
    BY <1>6, <2>1
<1>10. After(m, ops \o <<w>>) = [After(m, ops) EXCEPT ![v] = x]
  <2>1. \A u \in Vars : u # v => After(m, ops \o <<w>>)[u] = After(m, ops)[u]
    BY <1>4, <1>7
  <2>2. After(m, ops \o <<w>>)[v] = x
    BY <1>5, <1>7
  <2> DEFINE a == After(m, ops)
             b == After(m, ops \o <<w>>)
  <2>3. a = [u \in Vars |-> a[u]] /\ b = [u \in Vars |-> b[u]]
    BY <1>6
  <2> HIDE DEF a, b
  <2>4. b[v] = x /\ \A u \in Vars : u # v => b[u] = a[u]
    BY <2>1, <2>2 DEF a, b
  <2>5. b = [a EXCEPT ![v] = x]
    BY <2>3, <2>4
  <2> QED
    BY <2>5 DEF a, b
<1>11. After(m, ops \o <<w>>) = Store(After(m, ops), v, x)
  BY <1>10 DEF Store
<1> QED
  BY <1>3, <1>7, <1>8, <1>9, <1>11

\* No access leaves the memory alone.
LEMMA Nothing ==
    ASSUME NEW m \in [Vars -> Int]
    PROVE  After(m, <<>>) = m
<1>1. \A u : {i \in DOMAIN <<>> : <<>>[i].op = "write" /\ <<>>[i].var = u} = {}
  <2>1. DOMAIN <<>> = {}
    OBVIOUS
  <2> QED
    BY <2>1
<1>2. After(m, <<>>) = [u \in Vars |-> m[u]]
  BY <1>1 DEF After
<1> QED
  BY <1>2

\* The first access of a list.
LEMMA Single ==
    ASSUME NEW m \in [Vars -> Int], NEW v \in Vars, NEW x \in Int
    PROVE  /\ write(v, x) \in Seq(Accesses) /\ After(m, write(v, x)) = Store(m, v, x)
           /\ read(v) \in Seq(Accesses) /\ After(m, read(v)) = m
<1>1. <<>> \in Seq(Accesses)
  OBVIOUS
<1>2. After(m, <<>>) = m
  BY Nothing
<1>3. <<>> \o write(v, x) = write(v, x) /\ <<>> \o read(v) = read(v)
  BY DEF write, read
<1>4. /\ <<>> \o write(v, x) \in Seq(Accesses)
      /\ After(m, <<>> \o write(v, x)) = Store(After(m, <<>>), v, x)
      /\ <<>> \o read(v) \in Seq(Accesses)
      /\ After(m, <<>> \o read(v)) = After(m, <<>>)
  BY <1>1, Appended
<1> QED
  BY <1>2, <1>3, <1>4

-----------------------------------------------------------------------------
(* What each task does.                                                    *)

\* The accesses of each task.
LEMMA Scripts ==
    ASSUME NEW m, NEW coin
    PROVE  /\ Script(entry_task, m, coin) = Enter
           /\ Script(task_init, m, coin) = Initialize(NUM_BUCKETS)
           /\ Script(task_generate_key, m, coin) = GenerateKey(m)
           /\ Script(task_insert, m, coin) = Insert
           /\ Script(task_calc_indexes, m, coin) = CalcIndexes(m)
           /\ Script(task_calc_indexes_index_1, m, coin) = CalcIndex1(m)
           /\ Script(task_calc_indexes_index_2, m, coin) = CalcIndex2(m)
           /\ Script(task_add, m, coin) = Add(m, coin)
           /\ Script(task_relocate, m, coin) = Relocate(m)
           /\ Script(task_insert_done, m, coin) = InsertDone(m)
           /\ Script(task_lookup, m, coin) = Lookup
           /\ Script(task_lookup_search, m, coin) = LookupSearch(m)
           /\ Script(task_lookup_done, m, coin) = LookupDone(m)
           /\ Script(task_print_stats, m, coin) = script(<<>>, task_done)
BY DEF Script, entry_task, task_init, task_generate_key, task_insert, task_calc_indexes,
   task_calc_indexes_index_1, task_calc_indexes_index_2, task_add, task_relocate, task_insert_done,
   task_lookup, task_lookup_search, task_lookup_done, task_print_stats

\* A task that runs makes them.
LEMMA Runs ==
    ASSUME NEW t, RunTask(t)
    PROVE  /\ current = t
           /\ \E coin \in {0, 1} : /\ store' = After(store, Script(t, store, coin).ops)
                                   /\ current' = Script(t, store, coin).next
BY DEF RunTask

\* Scalars other than those of S, and buckets, are left alone.
Kept(S) == \A v \in Scalars \ S : store'[v] = store[v]
KeptBuckets == \A i \in Bucket : store'[filter(i)] = store[filter(i)]

\* Words and buckets are numbers.
LEMMA WordsAre ==
    /\ \A x \in Word : x \in Int /\ x \in Nat /\ x <= 65535
    /\ \A i \in Bucket : i \in Int /\ i \in Nat
BY WordBound DEF Bucket

\* The memory holds words.
LEMMA Memory ==
    ASSUME TasksTypeOK
    PROVE  /\ store \in [Vars -> Word] /\ store \in [Vars -> Int]
           /\ \A v \in Vars : store[v] \in Word /\ store[v] \in Nat /\ store[v] <= 65535
<1>1. store \in [Vars -> Word]
  BY DEF TasksTypeOK, Vars
<1>2. \A v \in Vars : store[v] \in Word
  BY <1>1
<1> QED
  BY <1>1, <1>2, WordsAre

\* A task that stores one scalar.
LEMMA OneWrite ==
    ASSUME TasksTypeOK, NEW v \in Scalars, NEW x \in Int, store' = After(store, write(v, x))
    PROVE  store' \in [Vars -> Int] /\ Kept({v}) /\ KeptBuckets /\ store'[v] = x
<1>1. v \in Vars /\ store \in [Vars -> Int]
  BY Memory, VarsAre
<1>2. store' = [store EXCEPT ![v] = x]
  BY <1>1, Single DEF Store
<1>3. \A u \in Vars : u # v => store'[u] = store[u]
  BY <1>1, <1>2
<1>4. KeptBuckets
  BY <1>3, Names, VarsAre DEF KeptBuckets
<1>5. Kept({v})
  BY <1>3, VarsAre DEF Kept
<1> QED
  BY <1>1, <1>2, <1>4, <1>5

\* ENTRY_TASK(task_init)
LEMMA EnterRuns ==
    ASSUME TasksTypeOK, RunTask(entry_task)
    PROVE  current = entry_task /\ current' = task_init /\ store' = store
<1>1. current = entry_task /\ store' = After(store, Enter.ops) /\ current' = Enter.next
  BY Runs, Scripts
<1> QED
  BY <1>1, Memory, Nothing DEF Enter, script

\* task_print_stats() changes nothing.
LEMMA PrintRuns ==
    ASSUME TasksTypeOK, RunTask(task_print_stats)
    PROVE  current = task_print_stats /\ current' = task_done /\ store' = store
<1>1. current = task_print_stats /\ store' = After(store, script(<<>>, task_done).ops)
         /\ current' = script(<<>>, task_done).next
  BY Runs, Scripts
<1> QED
  BY <1>1, Memory, Nothing DEF script

\* task_generate_key()
LEMMA GenerateKeyRuns ==
    ASSUME TasksTypeOK, RunTask(task_generate_key)
    PROVE  /\ current = task_generate_key /\ current' = store[next_task]
           /\ store' \in [Vars -> Int] /\ Kept({key}) /\ KeptBuckets
           /\ store'[key] = next_key(store[key])
<1>1. current = task_generate_key /\ store' = After(store, GenerateKey(store).ops) /\ current' = GenerateKey(store).next
  BY Runs, Scripts
<1>2. next_key(store[key]) \in Int
  <2>1. store[key] \in Word
    BY Memory, VarsAre
  <2> QED
    BY <2>1, HashRange, WordsAre
<1> QED
  BY <1>1, <1>2, OneWrite DEF GenerateKey, script, Scalars

\* task_insert()
LEMMA InsertRuns ==
    ASSUME TasksTypeOK, RunTask(task_insert)
    PROVE  /\ current = task_insert /\ current' = task_calc_indexes
           /\ store' \in [Vars -> Int] /\ Kept({next_task}) /\ KeptBuckets
           /\ store'[next_task] = task_add
<1>1. current = task_insert /\ store' = After(store, Insert.ops) /\ current' = Insert.next
  BY Runs, Scripts
<1>2. task_add \in Int /\ next_task \in Scalars
  BY DEF task_add, Scalars
<1> QED
  BY <1>1, <1>2, OneWrite DEF Insert, script

\* task_lookup()
LEMMA LookupRuns ==
    ASSUME TasksTypeOK, RunTask(task_lookup)
    PROVE  /\ current = task_lookup /\ current' = task_calc_indexes
           /\ store' \in [Vars -> Int] /\ Kept({next_task}) /\ KeptBuckets
           /\ store'[next_task] = task_lookup_search
<1>1. current = task_lookup /\ store' = After(store, Lookup.ops) /\ current' = Lookup.next
  BY Runs, Scripts
<1>2. task_lookup_search \in Int /\ next_task \in Scalars
  BY DEF task_lookup_search, Scalars
<1> QED
  BY <1>1, <1>2, OneWrite DEF Lookup, script

\* task_calc_indexes()
LEMMA CalcIndexesRuns ==
    ASSUME TasksTypeOK, RunTask(task_calc_indexes)
    PROVE  /\ current = task_calc_indexes /\ current' = task_calc_indexes_index_1
           /\ store' \in [Vars -> Int] /\ Kept({fingerprint}) /\ KeptBuckets
           /\ store'[fingerprint] = hash_to_fingerprint(store[key])
<1>1. current = task_calc_indexes /\ store' = After(store, CalcIndexes(store).ops) /\ current' = CalcIndexes(store).next
  BY Runs, Scripts
<1>2. hash_to_fingerprint(store[key]) \in Int /\ fingerprint \in Scalars
  <2>1. store[key] \in Word
    BY Memory, VarsAre
  <2> QED
    BY <2>1, HashRange, WordsAre DEF Scalars
<1> QED
  BY <1>1, <1>2, OneWrite DEF CalcIndexes, script

\* task_calc_indexes_index_1()
LEMMA CalcIndex1Runs ==
    ASSUME TasksTypeOK, RunTask(task_calc_indexes_index_1)
    PROVE  /\ current = task_calc_indexes_index_1 /\ current' = task_calc_indexes_index_2
           /\ store' \in [Vars -> Int] /\ Kept({index1}) /\ KeptBuckets
           /\ store'[index1] = hash_to_index(store[key])
<1>1. current = task_calc_indexes_index_1 /\ store' = After(store, CalcIndex1(store).ops) /\ current' = CalcIndex1(store).next
  BY Runs, Scripts
<1>2. hash_to_index(store[key]) \in Int /\ index1 \in Scalars
  BY HashRange, Memory, VarsAre DEF Bucket, Scalars
<1> QED
  BY <1>1, <1>2, OneWrite DEF CalcIndex1, script

\* task_calc_indexes_index_2()
LEMMA CalcIndex2Runs ==
    ASSUME TasksTypeOK, RunTask(task_calc_indexes_index_2)
    PROVE  /\ current = task_calc_indexes_index_2 /\ current' = store[next_task]
           /\ store' \in [Vars -> Int] /\ Kept({index2}) /\ KeptBuckets
           /\ store'[index2] = xor(store[index1], hash_to_index(store[fingerprint]))
<1>1. current = task_calc_indexes_index_2 /\ store' = After(store, CalcIndex2(store).ops) /\ current' = CalcIndex2(store).next
  BY Runs, Scripts
<1>2. hash_to_index(store[fingerprint]) \in Word /\ store[index1] \in Word /\ index2 \in Scalars
  BY HashRange, Memory, VarsAre, Buckets16 DEF Scalars
<1>3. xor(store[index1], hash_to_index(store[fingerprint])) \in Int
  BY <1>2, XorUndone, WordsAre
<1> QED
  BY <1>1, <1>2, <1>3, OneWrite DEF CalcIndex2, script

\* task_lookup_search()
LEMMA LookupSearchRuns ==
    ASSUME TasksTypeOK, RunTask(task_lookup_search)
    PROVE  /\ current = task_lookup_search /\ current' = task_lookup_done
           /\ store' \in [Vars -> Int] /\ Kept({member}) /\ KeptBuckets
           /\ store'[member] = flag(IsMember(store))
<1>1. current = task_lookup_search /\ store' = After(store, LookupSearch(store).ops) /\ current' = LookupSearch(store).next
  BY Runs, Scripts
<1>2. flag(IsMember(store)) \in Int /\ member \in Scalars
  BY DEF flag, Scalars
<1> QED
  BY <1>1, <1>2, OneWrite DEF LookupSearch, script

\* A task that gives bucket i the fingerprint x.
Filled(i, x) == /\ store'[filter(i)] = x
                /\ \A j \in Bucket : j # i => store'[filter(j)] = store[filter(j)]

\* A store to a scalar, or to a bucket, changes nothing else.
LEMMA StoreIs ==
    ASSUME NEW m \in [Vars -> Int], NEW v \in Vars, NEW x \in Int
    PROVE  /\ Store(m, v, x) \in [Vars -> Int]
           /\ Store(m, v, x)[v] = x
           /\ \A u \in Vars : u # v => Store(m, v, x)[u] = m[u]
           /\ v \in Scalars => \A i \in Bucket : Store(m, v, x)[filter(i)] = m[filter(i)]
           /\ v \notin Scalars => \A u \in Scalars : Store(m, v, x)[u] = m[u]
<1>1. /\ Store(m, v, x) \in [Vars -> Int] /\ Store(m, v, x)[v] = x
      /\ \A u \in Vars : u # v => Store(m, v, x)[u] = m[u]
  BY DEF Store
<1>2. v \in Scalars => \A i \in Bucket : filter(i) \in Vars /\ filter(i) # v
  BY Names, VarsAre
<1>3. v \notin Scalars => \A u \in Scalars : u \in Vars /\ u # v
  BY VarsAre
<1> QED
  BY <1>1, <1>2, <1>3

\* task_init(), on the memory as it is after flashing.
LEMMA InitializeRuns ==
    ASSUME TasksTypeOK, RunTask(task_init), \A v \in Vars : store[v] = 0
    PROVE  /\ current = task_init /\ current' = task_generate_key
           /\ store' \in [Vars -> Int] /\ Kept({key, next_task}) /\ KeptBuckets
           /\ store'[key] = init_key /\ store'[next_task] = task_insert
<1>1. current = task_init /\ store' = After(store, Initialize(NUM_BUCKETS).ops) /\ current' = Initialize(NUM_BUCKETS).next
  BY Runs, Scripts
<1> DEFINE cell(i) == [op |-> "write", var |-> filter(i - 1), val |-> 0]
           s0 == [i \in 1..NUM_BUCKETS |-> write(filter(i - 1), 0)[1]]
           s1 == s0 \o write(insert_count, 0)
           s2 == s1 \o write(lookup_count, 0)
           s3 == s2 \o write(inserted_count, 0)
           s4 == s3 \o write(member_count, 0)
           s5 == s4 \o write(key, init_key)
           s6 == s5 \o write(next_task, task_insert)
           m5 == Store(store, key, init_key)
           m6 == Store(m5, next_task, task_insert)
<1>2. Initialize(NUM_BUCKETS).ops = s6 /\ Initialize(NUM_BUCKETS).next = task_generate_key
  BY DEF Initialize, script
<1>3. store \in [Vars -> Int] /\ NUM_BUCKETS \in Nat
  BY Memory, Buckets16
<1>4. \A i \in 1..NUM_BUCKETS : s0[i] = cell(i) /\ cell(i) \in Accesses
  <2>1. ASSUME NEW i \in 1..NUM_BUCKETS PROVE s0[i] = cell(i) /\ cell(i) \in Accesses
    <3>1. i - 1 \in Bucket
      BY <1>3 DEF Bucket
    <3>2. filter(i - 1) \in Vars
      BY <3>1, VarsAre
    <3> QED
      BY <3>2 DEF write, Accesses
  <2> QED
    BY <2>1
<1>5. s0 = [i \in 1..NUM_BUCKETS |-> s0[i]] /\ DOMAIN s0 = 1..NUM_BUCKETS
  OBVIOUS
<1>6. \A i \in DOMAIN s0 : s0[i].val = 0 /\ s0[i] \in Accesses
  <2> HIDE DEF s0
  <2>1. \A i \in 1..NUM_BUCKETS : cell(i).val = 0
    OBVIOUS
  <2> QED
    BY <1>4, <1>5, <2>1
<1> HIDE DEF s0
<1>7. s0 \in Seq(Accesses)
  BY <1>3, <1>5, <1>6
<1>8. After(store, s0) = store
  <2>1. ASSUME NEW v \in Vars PROVE After(store, s0)[v] = 0
    <3> DEFINE W == {i \in DOMAIN s0 : s0[i].op = "write" /\ s0[i].var = v}
               last == CHOOSE i \in W : \A j \in W : j <= i
    <3>1. After(store, s0)[v] = IF W = {} THEN store[v] ELSE s0[last].val
      BY <1>3 DEF After
    <3>2. W \in SUBSET (1..NUM_BUCKETS) /\ \A i \in W : s0[i].val = 0
      BY <1>5, <1>6
    <3> HIDE DEF W
    <3>3. W # {} => last \in W
      BY <1>3, <3>2, LastOf
    <3> QED
      BY <3>1, <3>2, <3>3
  <2>2. After(store, s0) = [v \in Vars |-> After(store, s0)[v]]
    BY <1>3 DEF After
  <2> DEFINE a == After(store, s0)
  <2>3. a = [v \in Vars |-> a[v]] /\ store = [v \in Vars |-> store[v]] /\ \A v \in Vars : a[v] = store[v]
    BY <1>3, <2>1, <2>2
  <2> HIDE DEF a
  <2>4. a = store
    BY <2>3
  <2> QED
    BY <2>4 DEF a
<1>9. Store(store, insert_count, 0) = store /\ Store(store, lookup_count, 0) = store
      /\ Store(store, inserted_count, 0) = store /\ Store(store, member_count, 0) = store
  BY <1>3, VarsAre DEF Store
<1>10. init_key \in Int /\ task_insert \in Int /\ 0 \in Int
  BY DEF init_key, task_insert
<1>11. s1 \in Seq(Accesses) /\ After(store, s1) = store
  <2>1. insert_count \in Vars /\ 0 \in Int
    BY <1>10, VarsAre
  <2>2. /\ s0 \o write(insert_count, 0) \in Seq(Accesses)
        /\ After(store, s0 \o write(insert_count, 0)) = Store(After(store, s0), insert_count, 0)
    BY <1>3, <1>7, <1>8, <2>1, Appended
  <2> QED
    BY <1>9, <1>7, <1>8, <2>2
<1> HIDE DEF s1
<1>12. s2 \in Seq(Accesses) /\ After(store, s2) = store
  <2>1. lookup_count \in Vars /\ 0 \in Int
    BY <1>10, VarsAre
  <2>2. /\ s1 \o write(lookup_count, 0) \in Seq(Accesses)
        /\ After(store, s1 \o write(lookup_count, 0)) = Store(After(store, s1), lookup_count, 0)
    BY <1>3, <1>11, <2>1, Appended
  <2> QED
    BY <1>9, <1>11, <2>2
<1> HIDE DEF s2
<1>13. s3 \in Seq(Accesses) /\ After(store, s3) = store
  <2>1. inserted_count \in Vars /\ 0 \in Int
    BY <1>10, VarsAre
  <2>2. /\ s2 \o write(inserted_count, 0) \in Seq(Accesses)
        /\ After(store, s2 \o write(inserted_count, 0)) = Store(After(store, s2), inserted_count, 0)
    BY <1>3, <1>12, <2>1, Appended
  <2> QED
    BY <1>9, <1>12, <2>2
<1> HIDE DEF s3
<1>14. s4 \in Seq(Accesses) /\ After(store, s4) = store
  <2>1. member_count \in Vars /\ 0 \in Int
    BY <1>10, VarsAre
  <2>2. /\ s3 \o write(member_count, 0) \in Seq(Accesses)
        /\ After(store, s3 \o write(member_count, 0)) = Store(After(store, s3), member_count, 0)
    BY <1>3, <1>13, <2>1, Appended
  <2> QED
    BY <1>9, <1>13, <2>2
<1> HIDE DEF s4
<1>15. s5 \in Seq(Accesses) /\ After(store, s5) = m5
  <2>1. key \in Vars /\ init_key \in Int
    BY <1>10, VarsAre
  <2>2. /\ s4 \o write(key, init_key) \in Seq(Accesses)
        /\ After(store, s4 \o write(key, init_key)) = Store(After(store, s4), key, init_key)
    BY <1>3, <1>14, <2>1, Appended
  <2> QED
    BY <1>9, <1>14, <2>2
<1> HIDE DEF s5, m5
<1>16. s6 \in Seq(Accesses) /\ After(store, s6) = m6
  <2>1. next_task \in Vars /\ task_insert \in Int
    BY <1>10, VarsAre
  <2>2. /\ s5 \o write(next_task, task_insert) \in Seq(Accesses)
        /\ After(store, s5 \o write(next_task, task_insert)) = Store(After(store, s5), next_task, task_insert)
    BY <1>3, <1>15, <2>1, Appended
  <2> QED
    BY <1>9, <1>15, <2>2
<1>17. store' = m6 /\ current' = task_generate_key
  BY <1>1, <1>2, <1>16
<1>18. m5 \in [Vars -> Int] /\ m5[key] = init_key /\ (\A u \in Vars : u # key => m5[u] = store[u])
       /\ \A i \in Bucket : m5[filter(i)] = store[filter(i)]
  <2>1. key \in Vars /\ key \in Scalars
    BY VarsAre DEF Scalars
  <2> QED
    BY <1>3, <1>10, <2>1, StoreIs DEF m5
<1>19. m6 \in [Vars -> Int] /\ m6[next_task] = task_insert /\ (\A u \in Vars : u # next_task => m6[u] = m5[u])
       /\ \A i \in Bucket : m6[filter(i)] = m5[filter(i)]
  <2>1. next_task \in Vars /\ next_task \in Scalars
    BY VarsAre DEF Scalars
  <2> QED
    BY <1>10, <1>18, <2>1, StoreIs
<1> HIDE DEF m6
<1>20. KeptBuckets
  BY <1>17, <1>18, <1>19 DEF KeptBuckets
<1>21. Kept({key, next_task})
  BY <1>17, <1>18, <1>19, VarsAre DEF Kept
<1>22. m6[key] = init_key
  BY <1>18, <1>19, Names, VarsAre
<1> QED
  BY <1>1, <1>17, <1>19, <1>20, <1>21, <1>22

\* Scalars are variables, and not buckets.
LEMMA ScalarsAre ==
    /\ key \in Scalars /\ next_task \in Scalars /\ fingerprint \in Scalars /\ index1 \in Scalars
    /\ index2 \in Scalars /\ relocation_count \in Scalars /\ insert_count \in Scalars
    /\ inserted_count \in Scalars /\ lookup_count \in Scalars /\ member_count \in Scalars
    /\ success \in Scalars /\ member \in Scalars
BY DEF Scalars

\* A store to a scalar.
LEMMA StoreScalar ==
    ASSUME NEW m \in [Vars -> Int], NEW v \in Scalars, NEW x \in Int
    PROVE  /\ Store(m, v, x) \in [Vars -> Int] /\ Store(m, v, x)[v] = x
           /\ \A u \in Scalars : u # v => Store(m, v, x)[u] = m[u]
           /\ \A i \in Bucket : Store(m, v, x)[filter(i)] = m[filter(i)]
<1>1. v \in Vars /\ \A u \in Scalars : u \in Vars
  BY VarsAre
<1>2. /\ Store(m, v, x) \in [Vars -> Int] /\ Store(m, v, x)[v] = x
      /\ \A u \in Vars : u # v => Store(m, v, x)[u] = m[u]
      /\ \A i \in Bucket : Store(m, v, x)[filter(i)] = m[filter(i)]
  BY <1>1, StoreIs
<1> QED
  BY <1>1, <1>2

\* A store to a bucket.
LEMMA StoreBucket ==
    ASSUME NEW m \in [Vars -> Int], NEW i \in Bucket, NEW x \in Int
    PROVE  /\ Store(m, filter(i), x) \in [Vars -> Int] /\ Store(m, filter(i), x)[filter(i)] = x
           /\ \A u \in Scalars : Store(m, filter(i), x)[u] = m[u]
           /\ \A j \in Bucket : j # i => Store(m, filter(i), x)[filter(j)] = m[filter(j)]
<1> DEFINE v == filter(i)
<1>1. v \in Vars /\ v \notin Scalars
  BY VarsAre, Names
<1>2. (\A j \in Bucket : j # i => filter(j) \in Vars /\ filter(j) # v)
      /\ \A u \in Scalars : u \in Vars /\ u # v
  BY <1>1, VarsAre, Names
<1> HIDE DEF v
<1>3. /\ Store(m, v, x) \in [Vars -> Int] /\ Store(m, v, x)[v] = x
      /\ \A u \in Vars : u # v => Store(m, v, x)[u] = m[u]
  BY <1>1, StoreIs
<1>4. /\ Store(m, v, x) \in [Vars -> Int] /\ Store(m, v, x)[v] = x
      /\ \A u \in Scalars : Store(m, v, x)[u] = m[u]
      /\ \A j \in Bucket : j # i => Store(m, v, x)[filter(j)] = m[filter(j)]
  BY <1>2, <1>3
<1> QED
  BY <1>4 DEF v

\* A read changes nothing.
LEMMA ThenRead ==
    ASSUME NEW m \in [Vars -> Int], NEW ops \in Seq(Accesses), NEW i \in Bucket
    PROVE  ops \o read(filter(i)) \in Seq(Accesses) /\ After(m, ops \o read(filter(i))) = After(m, ops)
<1>1. filter(i) \in Vars /\ 0 \in Int
  BY VarsAre
<1> QED
  BY <1>1, Appended

\* A list of accesses that begins with a read.
LEMMA FirstRead ==
    ASSUME NEW m \in [Vars -> Int], NEW i \in Bucket
    PROVE  read(filter(i)) \in Seq(Accesses) /\ After(m, read(filter(i))) = m
<1>1. filter(i) \in Vars /\ 0 \in Int
  BY VarsAre
<1> QED
  BY <1>1, Single

\* task_insert_done()
LEMMA InsertDoneRuns ==
    ASSUME TasksTypeOK, RunTask(task_insert_done)
    PROVE  /\ current = task_insert_done /\ store' \in [Vars -> Int] /\ KeptBuckets
           /\ Kept({insert_count, inserted_count, next_task, key})
           /\ store'[insert_count] = store[insert_count] + 1
           /\ store'[inserted_count] = store[inserted_count] + store[success]
           /\ \/ /\ store[insert_count] + 1 < NUM_INSERTS /\ current' = task_generate_key
                 /\ store'[next_task] = task_insert /\ store'[key] = store[key]
              \/ /\ ~(store[insert_count] + 1 < NUM_INSERTS) /\ current' = task_generate_key
                 /\ store'[next_task] = task_lookup /\ store'[key] = init_key
<1>1. current = task_insert_done /\ store' = After(store, InsertDone(store).ops) /\ current' = InsertDone(store).next
  BY Runs, Scripts
<1> DEFINE a == store[insert_count] + 1
           b == store[inserted_count] + store[success]
           s1 == write(insert_count, a)
           m1 == Store(store, insert_count, a)
           s2 == s1 \o write(inserted_count, b)
           m2 == Store(m1, inserted_count, b)
           s3 == s2 \o write(next_task, task_insert)
           m3 == Store(m2, next_task, task_insert)
           s4 == s2 \o write(next_task, task_lookup)
           m4 == Store(m2, next_task, task_lookup)
           s5 == s4 \o write(key, init_key)
           m5 == Store(m4, key, init_key)
<1>2. store \in [Vars -> Int] /\ a \in Int /\ b \in Int
  BY Memory, VarsAre
<1>3. /\ a < NUM_INSERTS => InsertDone(store).ops = s3 /\ InsertDone(store).next = task_generate_key
      /\ ~(a < NUM_INSERTS) => InsertDone(store).ops = s5 /\ InsertDone(store).next = task_generate_key
  BY DEF InsertDone, script
<1> HIDE DEF a, b
<1>4. task_insert \in Int /\ task_lookup \in Int /\ init_key \in Int
  BY DEF task_insert, task_lookup, init_key
<1>5. /\ s1 \in Seq(Accesses) /\ After(store, s1) = m1 /\ m1 \in [Vars -> Int] /\ m1[insert_count] = a
      /\ (\A u \in Scalars : u # insert_count => m1[u] = store[u])
      /\ \A i \in Bucket : m1[filter(i)] = store[filter(i)]
  <2>1. insert_count \in Scalars /\ insert_count \in Vars /\ a \in Int
    BY <1>2, <1>4, ScalarsAre, VarsAre
  <2>2. write(insert_count, a) \in Seq(Accesses) /\ After(store, write(insert_count, a)) = Store(store, insert_count, a)
    BY <1>2, <2>1, Single
  <2>3. /\ Store(store, insert_count, a) \in [Vars -> Int] /\ Store(store, insert_count, a)[insert_count] = a
        /\ \A u \in Scalars : u # insert_count => Store(store, insert_count, a)[u] = store[u]
        /\ \A i \in Bucket : Store(store, insert_count, a)[filter(i)] = store[filter(i)]
    BY <1>2, <2>1, StoreScalar
  <2> QED
    BY <2>2, <2>3
<1> HIDE DEF s1, m1
<1>6. /\ s2 \in Seq(Accesses) /\ After(store, s2) = m2 /\ m2 \in [Vars -> Int] /\ m2[inserted_count] = b
      /\ (\A u \in Scalars : u # inserted_count => m2[u] = m1[u])
      /\ \A i \in Bucket : m2[filter(i)] = m1[filter(i)]
  <2>1. inserted_count \in Scalars /\ inserted_count \in Vars /\ b \in Int
    BY <1>2, <1>4, ScalarsAre, VarsAre
  <2>2. /\ s1 \o write(inserted_count, b) \in Seq(Accesses)
        /\ After(store, s1 \o write(inserted_count, b)) = Store(After(store, s1), inserted_count, b)
    BY <1>2, <1>5, <2>1, Appended
  <2>3. /\ Store(m1, inserted_count, b) \in [Vars -> Int] /\ Store(m1, inserted_count, b)[inserted_count] = b
        /\ \A u \in Scalars : u # inserted_count => Store(m1, inserted_count, b)[u] = m1[u]
        /\ \A i \in Bucket : Store(m1, inserted_count, b)[filter(i)] = m1[filter(i)]
    BY <1>2, <1>5, <2>1, StoreScalar
  <2> QED
    BY <1>5, <2>2, <2>3
<1> HIDE DEF s2, m2
<1>7. /\ s3 \in Seq(Accesses) /\ After(store, s3) = m3 /\ m3 \in [Vars -> Int] /\ m3[next_task] = task_insert
      /\ (\A u \in Scalars : u # next_task => m3[u] = m2[u])
      /\ \A i \in Bucket : m3[filter(i)] = m2[filter(i)]
  <2>1. next_task \in Scalars /\ next_task \in Vars /\ task_insert \in Int
    BY <1>2, <1>4, ScalarsAre, VarsAre
  <2>2. /\ s2 \o write(next_task, task_insert) \in Seq(Accesses)
        /\ After(store, s2 \o write(next_task, task_insert)) = Store(After(store, s2), next_task, task_insert)
    BY <1>2, <1>6, <2>1, Appended
  <2>3. /\ Store(m2, next_task, task_insert) \in [Vars -> Int] /\ Store(m2, next_task, task_insert)[next_task] = task_insert
        /\ \A u \in Scalars : u # next_task => Store(m2, next_task, task_insert)[u] = m2[u]
        /\ \A i \in Bucket : Store(m2, next_task, task_insert)[filter(i)] = m2[filter(i)]
    BY <1>2, <1>6, <2>1, StoreScalar
  <2> QED
    BY <1>6, <2>2, <2>3
<1> HIDE DEF s3, m3
<1>8. /\ s4 \in Seq(Accesses) /\ After(store, s4) = m4 /\ m4 \in [Vars -> Int] /\ m4[next_task] = task_lookup
      /\ (\A u \in Scalars : u # next_task => m4[u] = m2[u])
      /\ \A i \in Bucket : m4[filter(i)] = m2[filter(i)]
  <2>1. next_task \in Scalars /\ next_task \in Vars /\ task_lookup \in Int
    BY <1>2, <1>4, ScalarsAre, VarsAre
  <2>2. /\ s2 \o write(next_task, task_lookup) \in Seq(Accesses)
        /\ After(store, s2 \o write(next_task, task_lookup)) = Store(After(store, s2), next_task, task_lookup)
    BY <1>2, <1>6, <2>1, Appended
  <2>3. /\ Store(m2, next_task, task_lookup) \in [Vars -> Int] /\ Store(m2, next_task, task_lookup)[next_task] = task_lookup
        /\ \A u \in Scalars : u # next_task => Store(m2, next_task, task_lookup)[u] = m2[u]
        /\ \A i \in Bucket : Store(m2, next_task, task_lookup)[filter(i)] = m2[filter(i)]
    BY <1>2, <1>6, <2>1, StoreScalar
  <2> QED
    BY <1>6, <2>2, <2>3
<1> HIDE DEF s4, m4
<1>9. /\ s5 \in Seq(Accesses) /\ After(store, s5) = m5 /\ m5 \in [Vars -> Int] /\ m5[key] = init_key
      /\ (\A u \in Scalars : u # key => m5[u] = m4[u])
      /\ \A i \in Bucket : m5[filter(i)] = m4[filter(i)]
  <2>1. key \in Scalars /\ key \in Vars /\ init_key \in Int
    BY <1>2, <1>4, ScalarsAre, VarsAre
  <2>2. /\ s4 \o write(key, init_key) \in Seq(Accesses)
        /\ After(store, s4 \o write(key, init_key)) = Store(After(store, s4), key, init_key)
    BY <1>2, <1>8, <2>1, Appended
  <2>3. /\ Store(m4, key, init_key) \in [Vars -> Int] /\ Store(m4, key, init_key)[key] = init_key
        /\ \A u \in Scalars : u # key => Store(m4, key, init_key)[u] = m4[u]
        /\ \A i \in Bucket : Store(m4, key, init_key)[filter(i)] = m4[filter(i)]
    BY <1>2, <1>8, <2>1, StoreScalar
  <2> QED
    BY <1>8, <2>2, <2>3
<1> HIDE DEF s5, m5
<1>10. ASSUME store' = m3
      PROVE  /\ store' \in [Vars -> Int] /\ KeptBuckets /\ Kept({insert_count, inserted_count, next_task, key})
             /\ store'[insert_count] = a /\ store'[inserted_count] = b
  <2>1. KeptBuckets
    BY <1>10, <1>5, <1>6, <1>7 DEF KeptBuckets
  <2>2. Kept({insert_count, inserted_count, next_task, key})
    BY <1>10, <1>5, <1>6, <1>7 DEF Kept
  <2>3. store'[insert_count] = a /\ store'[inserted_count] = b
    BY <1>10, <1>5, <1>6, <1>7, Names, ScalarsAre
  <2> QED
    BY <1>10, <1>5, <1>6, <1>7, <2>1, <2>2, <2>3
<1>11. ASSUME store' = m5
      PROVE  /\ store' \in [Vars -> Int] /\ KeptBuckets /\ Kept({insert_count, inserted_count, next_task, key})
             /\ store'[insert_count] = a /\ store'[inserted_count] = b
  <2>1. KeptBuckets
    BY <1>11, <1>5, <1>6, <1>8, <1>9 DEF KeptBuckets
  <2>2. Kept({insert_count, inserted_count, next_task, key})
    BY <1>11, <1>5, <1>6, <1>8, <1>9 DEF Kept
  <2>3. store'[insert_count] = a /\ store'[inserted_count] = b
    BY <1>11, <1>5, <1>6, <1>8, <1>9, Names, ScalarsAre
  <2> QED
    BY <1>11, <1>5, <1>6, <1>8, <1>9, <2>1, <2>2, <2>3
<1>12. m3[next_task] = task_insert /\ m3[key] = store[key]
  BY <1>5, <1>6, <1>7, Names, ScalarsAre
<1>13. m5[next_task] = task_lookup /\ m5[key] = init_key
  BY <1>8, <1>9, Names, ScalarsAre
<1>14. CASE a < NUM_INSERTS
  <2>1. store' = m3 /\ current' = task_generate_key
    BY <1>1, <1>3, <1>7, <1>14
  <2> QED
    BY <1>1, <1>10, <1>12, <1>14, <2>1 DEF a, b
<1>15. CASE ~(a < NUM_INSERTS)
  <2>1. store' = m5 /\ current' = task_generate_key
    BY <1>1, <1>3, <1>9, <1>15
  <2> QED
    BY <1>1, <1>11, <1>13, <1>15, <2>1 DEF a, b
<1> QED
  BY <1>14, <1>15

\* task_lookup_done()
LEMMA LookupDoneRuns ==
    ASSUME TasksTypeOK, RunTask(task_lookup_done)
    PROVE  /\ current = task_lookup_done /\ store' \in [Vars -> Int] /\ KeptBuckets
           /\ Kept({lookup_count, member_count, next_task, key})
           /\ store'[lookup_count] = store[lookup_count] + 1
           /\ store'[member_count] = store[member_count] + store[member]
           /\ \/ /\ store[lookup_count] + 1 < NUM_INSERTS /\ current' = task_generate_key
                 /\ store'[next_task] = task_lookup /\ store'[key] = store[key]
              \/ /\ ~(store[lookup_count] + 1 < NUM_INSERTS) /\ current' = task_print_stats
                 /\ store'[next_task] = store[next_task] /\ store'[key] = store[key]
<1>1. current = task_lookup_done /\ store' = After(store, LookupDone(store).ops) /\ current' = LookupDone(store).next
  BY Runs, Scripts
<1> DEFINE a == store[lookup_count] + 1
           b == store[member_count] + store[member]
           s1 == write(lookup_count, a)
           m1 == Store(store, lookup_count, a)
           s2 == s1 \o write(member_count, b)
           m2 == Store(m1, member_count, b)
           s3 == s2 \o write(next_task, task_lookup)
           m3 == Store(m2, next_task, task_lookup)
<1>2. store \in [Vars -> Int] /\ a \in Int /\ b \in Int
  BY Memory, VarsAre
<1>3. /\ a < NUM_INSERTS => LookupDone(store).ops = s3 /\ LookupDone(store).next = task_generate_key
      /\ ~(a < NUM_INSERTS) => LookupDone(store).ops = s2 /\ LookupDone(store).next = task_print_stats
  BY DEF LookupDone, script
<1> HIDE DEF a, b
<1>4. task_insert \in Int /\ task_lookup \in Int /\ init_key \in Int
  BY DEF task_insert, task_lookup, init_key
<1>5. /\ s1 \in Seq(Accesses) /\ After(store, s1) = m1 /\ m1 \in [Vars -> Int] /\ m1[lookup_count] = a
      /\ (\A u \in Scalars : u # lookup_count => m1[u] = store[u])
      /\ \A i \in Bucket : m1[filter(i)] = store[filter(i)]
  <2>1. lookup_count \in Scalars /\ lookup_count \in Vars /\ a \in Int
    BY <1>2, <1>4, ScalarsAre, VarsAre
  <2>2. write(lookup_count, a) \in Seq(Accesses) /\ After(store, write(lookup_count, a)) = Store(store, lookup_count, a)
    BY <1>2, <2>1, Single
  <2>3. /\ Store(store, lookup_count, a) \in [Vars -> Int] /\ Store(store, lookup_count, a)[lookup_count] = a
        /\ \A u \in Scalars : u # lookup_count => Store(store, lookup_count, a)[u] = store[u]
        /\ \A i \in Bucket : Store(store, lookup_count, a)[filter(i)] = store[filter(i)]
    BY <1>2, <2>1, StoreScalar
  <2> QED
    BY <2>2, <2>3
<1> HIDE DEF s1, m1
<1>6. /\ s2 \in Seq(Accesses) /\ After(store, s2) = m2 /\ m2 \in [Vars -> Int] /\ m2[member_count] = b
      /\ (\A u \in Scalars : u # member_count => m2[u] = m1[u])
      /\ \A i \in Bucket : m2[filter(i)] = m1[filter(i)]
  <2>1. member_count \in Scalars /\ member_count \in Vars /\ b \in Int
    BY <1>2, <1>4, ScalarsAre, VarsAre
  <2>2. /\ s1 \o write(member_count, b) \in Seq(Accesses)
        /\ After(store, s1 \o write(member_count, b)) = Store(After(store, s1), member_count, b)
    BY <1>2, <1>5, <2>1, Appended
  <2>3. /\ Store(m1, member_count, b) \in [Vars -> Int] /\ Store(m1, member_count, b)[member_count] = b
        /\ \A u \in Scalars : u # member_count => Store(m1, member_count, b)[u] = m1[u]
        /\ \A i \in Bucket : Store(m1, member_count, b)[filter(i)] = m1[filter(i)]
    BY <1>2, <1>5, <2>1, StoreScalar
  <2> QED
    BY <1>5, <2>2, <2>3
<1> HIDE DEF s2, m2
<1>7. /\ s3 \in Seq(Accesses) /\ After(store, s3) = m3 /\ m3 \in [Vars -> Int] /\ m3[next_task] = task_lookup
      /\ (\A u \in Scalars : u # next_task => m3[u] = m2[u])
      /\ \A i \in Bucket : m3[filter(i)] = m2[filter(i)]
  <2>1. next_task \in Scalars /\ next_task \in Vars /\ task_lookup \in Int
    BY <1>2, <1>4, ScalarsAre, VarsAre
  <2>2. /\ s2 \o write(next_task, task_lookup) \in Seq(Accesses)
        /\ After(store, s2 \o write(next_task, task_lookup)) = Store(After(store, s2), next_task, task_lookup)
    BY <1>2, <1>6, <2>1, Appended
  <2>3. /\ Store(m2, next_task, task_lookup) \in [Vars -> Int] /\ Store(m2, next_task, task_lookup)[next_task] = task_lookup
        /\ \A u \in Scalars : u # next_task => Store(m2, next_task, task_lookup)[u] = m2[u]
        /\ \A i \in Bucket : Store(m2, next_task, task_lookup)[filter(i)] = m2[filter(i)]
    BY <1>2, <1>6, <2>1, StoreScalar
  <2> QED
    BY <1>6, <2>2, <2>3
<1> HIDE DEF s3, m3
<1>8. ASSUME store' = m3
      PROVE  /\ store' \in [Vars -> Int] /\ KeptBuckets /\ Kept({lookup_count, member_count, next_task, key})
             /\ store'[lookup_count] = a /\ store'[member_count] = b
  <2>1. KeptBuckets
    BY <1>8, <1>5, <1>6, <1>7 DEF KeptBuckets
  <2>2. Kept({lookup_count, member_count, next_task, key})
    BY <1>8, <1>5, <1>6, <1>7 DEF Kept
  <2>3. store'[lookup_count] = a /\ store'[member_count] = b
    BY <1>8, <1>5, <1>6, <1>7, Names, ScalarsAre
  <2> QED
    BY <1>8, <1>5, <1>6, <1>7, <2>1, <2>2, <2>3
<1>9. ASSUME store' = m2
      PROVE  /\ store' \in [Vars -> Int] /\ KeptBuckets /\ Kept({lookup_count, member_count, next_task, key})
             /\ store'[lookup_count] = a /\ store'[member_count] = b
  <2>1. KeptBuckets
    BY <1>9, <1>5, <1>6 DEF KeptBuckets
  <2>2. Kept({lookup_count, member_count, next_task, key})
    BY <1>9, <1>5, <1>6 DEF Kept
  <2>3. store'[lookup_count] = a /\ store'[member_count] = b
    BY <1>9, <1>5, <1>6, Names, ScalarsAre
  <2> QED
    BY <1>9, <1>5, <1>6, <2>1, <2>2, <2>3
<1>10. m3[next_task] = task_lookup /\ m3[key] = store[key]
  BY <1>5, <1>6, <1>7, Names, ScalarsAre
<1>11. m2[next_task] = store[next_task] /\ m2[key] = store[key]
  BY <1>5, <1>6, Names, ScalarsAre
<1>12. CASE a < NUM_INSERTS
  <2>1. store' = m3 /\ current' = task_generate_key
    BY <1>1, <1>3, <1>7, <1>12
  <2> QED
    BY <1>1, <1>8, <1>10, <1>12, <2>1 DEF a, b
<1>13. CASE ~(a < NUM_INSERTS)
  <2>1. store' = m2 /\ current' = task_print_stats
    BY <1>1, <1>3, <1>6, <1>13
  <2> QED
    BY <1>1, <1>9, <1>11, <1>13, <2>1 DEF a, b
<1> QED
  BY <1>12, <1>13

\* A fingerprint finds an empty bucket, and the insertion is over.
LEMMA FillRuns ==
    ASSUME TasksTypeOK, NEW tests \in Seq(Accesses), After(store, tests) = store, NEW i \in Bucket, NEW x \in Int,
           store' = After(store, tests \o write(success, 1) \o write(filter(i), x))
    PROVE  store' \in [Vars -> Int] /\ Filled(i, x) /\ store'[success] = 1 /\ Kept({success})
<1> DEFINE s1 == tests \o write(success, 1)
           m1 == Store(store, success, 1)
           s2 == s1 \o write(filter(i), x)
           m2 == Store(m1, filter(i), x)
<1>0. store' = After(store, s2)
  OBVIOUS
<1>1. store \in [Vars -> Int] /\ tests \in Seq(Accesses) /\ After(store, tests) = store /\ i \in Bucket /\ x \in Int
      /\ 1 \in Int
  BY Memory
<1>2. /\ s1 \in Seq(Accesses) /\ After(store, s1) = m1 /\ m1 \in [Vars -> Int] /\ m1[success] = 1
      /\ (\A u \in Scalars : u # success => m1[u] = store[u])
      /\ \A j \in Bucket : m1[filter(j)] = store[filter(j)]
  <2>1. success \in Scalars /\ success \in Vars /\ 1 \in Int
    BY <1>1, ScalarsAre, VarsAre
  <2>2. /\ tests \o write(success, 1) \in Seq(Accesses)
        /\ After(store, tests \o write(success, 1)) = Store(After(store, tests), success, 1)
    BY <1>1, <1>1, <2>1, Appended
  <2>3. /\ Store(store, success, 1) \in [Vars -> Int] /\ Store(store, success, 1)[success] = 1
        /\ \A u \in Scalars : u # success => Store(store, success, 1)[u] = store[u]
        /\ \A j \in Bucket : Store(store, success, 1)[filter(j)] = store[filter(j)]
    BY <1>1, <1>1, <2>1, StoreScalar
  <2> QED
    BY <1>1, <2>2, <2>3
<1> HIDE DEF s1, m1
<1>3. /\ s2 \in Seq(Accesses) /\ After(store, s2) = m2 /\ m2 \in [Vars -> Int] /\ m2[filter(i)] = x
      /\ (\A u \in Scalars : m2[u] = m1[u])
      /\ \A j \in Bucket : j # i => m2[filter(j)] = m1[filter(j)]
  <2>1. i \in Bucket /\ filter(i) \in Vars /\ x \in Int
    BY <1>1, VarsAre
  <2>2. /\ s1 \o write(filter(i), x) \in Seq(Accesses)
        /\ After(store, s1 \o write(filter(i), x)) = Store(After(store, s1), filter(i), x)
    BY <1>1, <1>2, <2>1, Appended
  <2>3. /\ Store(m1, filter(i), x) \in [Vars -> Int] /\ Store(m1, filter(i), x)[filter(i)] = x
        /\ \A u \in Scalars : Store(m1, filter(i), x)[u] = m1[u]
        /\ \A j \in Bucket : j # i => Store(m1, filter(i), x)[filter(j)] = m1[filter(j)]
    BY <1>1, <1>2, <2>1, StoreBucket
  <2> QED
    BY <1>2, <2>2, <2>3
<1> HIDE DEF s2, m2
<1>4. Filled(i, x)
  BY <1>0, <1>2, <1>3 DEF Filled
<1>5. Kept({success})
  BY <1>0, <1>2, <1>3 DEF Kept
<1>6. store'[success] = 1
  BY <1>0, <1>2, <1>3, ScalarsAre
<1> QED
  BY <1>0, <1>2, <1>3, <1>4, <1>5, <1>6

\* A fingerprint takes the place of the first victim.
LEMMA EvictRuns ==
    ASSUME TasksTypeOK, NEW tests \in Seq(Accesses), After(store, tests) = store, NEW i \in Bucket,
           store' = After(store, tests \o read(filter(i)) \o write(filter(i), store[fingerprint])
                               \o write(index1, i) \o write(fingerprint, store[filter(i)])
                               \o write(relocation_count, 0))
    PROVE  /\ store' \in [Vars -> Int] /\ Filled(i, store[fingerprint])
           /\ store'[index1] = i /\ store'[fingerprint] = store[filter(i)] /\ store'[relocation_count] = 0
           /\ Kept({index1, fingerprint, relocation_count})
<1> DEFINE old == store[filter(i)]
           s1 == tests \o read(filter(i))
           s2 == s1 \o write(filter(i), store[fingerprint])
           m2 == Store(store, filter(i), store[fingerprint])
           s3 == s2 \o write(index1, i)
           m3 == Store(m2, index1, i)
           s4 == s3 \o write(fingerprint, old)
           m4 == Store(m3, fingerprint, old)
           s5 == s4 \o write(relocation_count, 0)
           m5 == Store(m4, relocation_count, 0)
<1>0. store' = After(store, s5)
  OBVIOUS
<1>1. /\ store \in [Vars -> Int] /\ tests \in Seq(Accesses) /\ After(store, tests) = store /\ i \in Bucket /\ i \in Int
      /\ store[fingerprint] \in Int /\ old \in Int /\ store[relocation_count] + 1 \in Int /\ 0 \in Int
  BY Memory, VarsAre, WordsAre
<1> HIDE DEF old
<1>2. s1 \in Seq(Accesses) /\ After(store, s1) = store /\ store \in [Vars -> Int]
  BY <1>1, <1>1, ThenRead
<1> HIDE DEF s1
<1>3. /\ s2 \in Seq(Accesses) /\ After(store, s2) = m2 /\ m2 \in [Vars -> Int] /\ m2[filter(i)] = store[fingerprint]
      /\ (\A u \in Scalars : m2[u] = store[u])
      /\ \A j \in Bucket : j # i => m2[filter(j)] = store[filter(j)]
  <2>1. i \in Bucket /\ filter(i) \in Vars /\ store[fingerprint] \in Int
    BY <1>1, VarsAre
  <2>2. /\ s1 \o write(filter(i), store[fingerprint]) \in Seq(Accesses)
        /\ After(store, s1 \o write(filter(i), store[fingerprint])) = Store(After(store, s1), filter(i), store[fingerprint])
    BY <1>1, <1>2, <2>1, Appended
  <2>3. /\ Store(store, filter(i), store[fingerprint]) \in [Vars -> Int] /\ Store(store, filter(i), store[fingerprint])[filter(i)] = store[fingerprint]
        /\ \A u \in Scalars : Store(store, filter(i), store[fingerprint])[u] = store[u]
        /\ \A j \in Bucket : j # i => Store(store, filter(i), store[fingerprint])[filter(j)] = store[filter(j)]
    BY <1>1, <1>2, <2>1, StoreBucket
  <2> QED
    BY <1>2, <2>2, <2>3
<1> HIDE DEF s2, m2
<1>4. /\ s3 \in Seq(Accesses) /\ After(store, s3) = m3 /\ m3 \in [Vars -> Int] /\ m3[index1] = i
      /\ (\A u \in Scalars : u # index1 => m3[u] = m2[u])
      /\ \A j \in Bucket : m3[filter(j)] = m2[filter(j)]
  <2>1. index1 \in Scalars /\ index1 \in Vars /\ i \in Int
    BY <1>1, ScalarsAre, VarsAre
  <2>2. /\ s2 \o write(index1, i) \in Seq(Accesses)
        /\ After(store, s2 \o write(index1, i)) = Store(After(store, s2), index1, i)
    BY <1>1, <1>3, <2>1, Appended
  <2>3. /\ Store(m2, index1, i) \in [Vars -> Int] /\ Store(m2, index1, i)[index1] = i
        /\ \A u \in Scalars : u # index1 => Store(m2, index1, i)[u] = m2[u]
        /\ \A j \in Bucket : Store(m2, index1, i)[filter(j)] = m2[filter(j)]
    BY <1>1, <1>3, <2>1, StoreScalar
  <2> QED
    BY <1>3, <2>2, <2>3
<1> HIDE DEF s3, m3
<1>5. /\ s4 \in Seq(Accesses) /\ After(store, s4) = m4 /\ m4 \in [Vars -> Int] /\ m4[fingerprint] = old
      /\ (\A u \in Scalars : u # fingerprint => m4[u] = m3[u])
      /\ \A j \in Bucket : m4[filter(j)] = m3[filter(j)]
  <2>1. fingerprint \in Scalars /\ fingerprint \in Vars /\ old \in Int
    BY <1>1, ScalarsAre, VarsAre
  <2>2. /\ s3 \o write(fingerprint, old) \in Seq(Accesses)
        /\ After(store, s3 \o write(fingerprint, old)) = Store(After(store, s3), fingerprint, old)
    BY <1>1, <1>4, <2>1, Appended
  <2>3. /\ Store(m3, fingerprint, old) \in [Vars -> Int] /\ Store(m3, fingerprint, old)[fingerprint] = old
        /\ \A u \in Scalars : u # fingerprint => Store(m3, fingerprint, old)[u] = m3[u]
        /\ \A j \in Bucket : Store(m3, fingerprint, old)[filter(j)] = m3[filter(j)]
    BY <1>1, <1>4, <2>1, StoreScalar
  <2> QED
    BY <1>4, <2>2, <2>3
<1> HIDE DEF s4, m4
<1>6. /\ s5 \in Seq(Accesses) /\ After(store, s5) = m5 /\ m5 \in [Vars -> Int] /\ m5[relocation_count] = 0
      /\ (\A u \in Scalars : u # relocation_count => m5[u] = m4[u])
      /\ \A j \in Bucket : m5[filter(j)] = m4[filter(j)]
  <2>1. relocation_count \in Scalars /\ relocation_count \in Vars /\ 0 \in Int
    BY <1>1, ScalarsAre, VarsAre
  <2>2. /\ s4 \o write(relocation_count, 0) \in Seq(Accesses)
        /\ After(store, s4 \o write(relocation_count, 0)) = Store(After(store, s4), relocation_count, 0)
    BY <1>1, <1>5, <2>1, Appended
  <2>3. /\ Store(m4, relocation_count, 0) \in [Vars -> Int] /\ Store(m4, relocation_count, 0)[relocation_count] = 0
        /\ \A u \in Scalars : u # relocation_count => Store(m4, relocation_count, 0)[u] = m4[u]
        /\ \A j \in Bucket : Store(m4, relocation_count, 0)[filter(j)] = m4[filter(j)]
    BY <1>1, <1>5, <2>1, StoreScalar
  <2> QED
    BY <1>5, <2>2, <2>3
<1> HIDE DEF s5, m5
<1>7. Filled(i, store[fingerprint])
  <2>1. \A j \in Bucket : m5[filter(j)] = m2[filter(j)]
    BY <1>4, <1>5, <1>6
  <2>2. store' = m5
    BY <1>0, <1>6
  <2>3. store'[filter(i)] = store[fingerprint]
    BY <1>1, <1>3, <2>1, <2>2
  <2>4. \A j \in Bucket : j # i => store'[filter(j)] = store[filter(j)]
    BY <1>3, <2>1, <2>2
  <2> QED
    BY <2>3, <2>4 DEF Filled
<1>8. Kept({index1, fingerprint, relocation_count})
  BY <1>0, <1>3, <1>4, <1>5, <1>6 DEF Kept
<1>9. store'[index1] = i /\ store'[fingerprint] = store[filter(i)] /\ store'[relocation_count] = 0
  BY <1>0, <1>3, <1>4, <1>5, <1>6, ScalarsAre, Names DEF old
<1> QED
  BY <1>0, <1>3, <1>4, <1>5, <1>6, <1>7, <1>8, <1>9

\* The victim takes the place of the next one.
LEMMA MoveOnRuns ==
    ASSUME TasksTypeOK, NEW i \in Bucket, NEW c \in Int,
           store' = After(store, read(filter(i)) \o write(relocation_count, c) \o write(index1, i) \o read(filter(i))
                               \o write(fingerprint, store[filter(i)]) \o write(filter(i), store[fingerprint]))
    PROVE  /\ store' \in [Vars -> Int] /\ Filled(i, store[fingerprint])
           /\ store'[index1] = i /\ store'[fingerprint] = store[filter(i)] /\ store'[relocation_count] = c
           /\ Kept({index1, fingerprint, relocation_count})
<1> DEFINE old == store[filter(i)]
           s1 == read(filter(i))
           s2 == s1 \o write(relocation_count, c)
           m2 == Store(store, relocation_count, c)
           s3 == s2 \o write(index1, i)
           m3 == Store(m2, index1, i)
           s4 == s3 \o read(filter(i))
           s5 == s4 \o write(fingerprint, old)
           m5 == Store(m3, fingerprint, old)
           s6 == s5 \o write(filter(i), store[fingerprint])
           m6 == Store(m5, filter(i), store[fingerprint])
<1>0. store' = After(store, s6)
  OBVIOUS
<1>1. /\ store \in [Vars -> Int] /\ i \in Bucket /\ i \in Int
      /\ store[fingerprint] \in Int /\ old \in Int /\ c \in Int /\ 0 \in Int
  BY Memory, VarsAre, WordsAre
<1> HIDE DEF old
<1>2. s1 \in Seq(Accesses) /\ After(store, s1) = store /\ store \in [Vars -> Int]
  BY <1>1, FirstRead
<1> HIDE DEF s1
<1>3. /\ s2 \in Seq(Accesses) /\ After(store, s2) = m2 /\ m2 \in [Vars -> Int] /\ m2[relocation_count] = c
      /\ (\A u \in Scalars : u # relocation_count => m2[u] = store[u])
      /\ \A j \in Bucket : m2[filter(j)] = store[filter(j)]
  <2>1. relocation_count \in Scalars /\ relocation_count \in Vars /\ c \in Int
    BY <1>1, ScalarsAre, VarsAre
  <2>2. /\ s1 \o write(relocation_count, c) \in Seq(Accesses)
        /\ After(store, s1 \o write(relocation_count, c)) = Store(After(store, s1), relocation_count, c)
    BY <1>1, <1>2, <2>1, Appended
  <2>3. /\ Store(store, relocation_count, c) \in [Vars -> Int] /\ Store(store, relocation_count, c)[relocation_count] = c
        /\ \A u \in Scalars : u # relocation_count => Store(store, relocation_count, c)[u] = store[u]
        /\ \A j \in Bucket : Store(store, relocation_count, c)[filter(j)] = store[filter(j)]
    BY <1>1, <1>2, <2>1, StoreScalar
  <2> QED
    BY <1>2, <2>2, <2>3
<1> HIDE DEF s2, m2
<1>4. /\ s3 \in Seq(Accesses) /\ After(store, s3) = m3 /\ m3 \in [Vars -> Int] /\ m3[index1] = i
      /\ (\A u \in Scalars : u # index1 => m3[u] = m2[u])
      /\ \A j \in Bucket : m3[filter(j)] = m2[filter(j)]
  <2>1. index1 \in Scalars /\ index1 \in Vars /\ i \in Int
    BY <1>1, ScalarsAre, VarsAre
  <2>2. /\ s2 \o write(index1, i) \in Seq(Accesses)
        /\ After(store, s2 \o write(index1, i)) = Store(After(store, s2), index1, i)
    BY <1>1, <1>3, <2>1, Appended
  <2>3. /\ Store(m2, index1, i) \in [Vars -> Int] /\ Store(m2, index1, i)[index1] = i
        /\ \A u \in Scalars : u # index1 => Store(m2, index1, i)[u] = m2[u]
        /\ \A j \in Bucket : Store(m2, index1, i)[filter(j)] = m2[filter(j)]
    BY <1>1, <1>3, <2>1, StoreScalar
  <2> QED
    BY <1>3, <2>2, <2>3
<1> HIDE DEF s3, m3
<1>5. s4 \in Seq(Accesses) /\ After(store, s4) = m3 /\ m3 \in [Vars -> Int]
  BY <1>1, <1>4, ThenRead
<1> HIDE DEF s4
<1>6. /\ s5 \in Seq(Accesses) /\ After(store, s5) = m5 /\ m5 \in [Vars -> Int] /\ m5[fingerprint] = old
      /\ (\A u \in Scalars : u # fingerprint => m5[u] = m3[u])
      /\ \A j \in Bucket : m5[filter(j)] = m3[filter(j)]
  <2>1. fingerprint \in Scalars /\ fingerprint \in Vars /\ old \in Int
    BY <1>1, ScalarsAre, VarsAre
  <2>2. /\ s4 \o write(fingerprint, old) \in Seq(Accesses)
        /\ After(store, s4 \o write(fingerprint, old)) = Store(After(store, s4), fingerprint, old)
    BY <1>1, <1>5, <2>1, Appended
  <2>3. /\ Store(m3, fingerprint, old) \in [Vars -> Int] /\ Store(m3, fingerprint, old)[fingerprint] = old
        /\ \A u \in Scalars : u # fingerprint => Store(m3, fingerprint, old)[u] = m3[u]
        /\ \A j \in Bucket : Store(m3, fingerprint, old)[filter(j)] = m3[filter(j)]
    BY <1>1, <1>5, <2>1, StoreScalar
  <2> QED
    BY <1>5, <2>2, <2>3
<1> HIDE DEF s5, m5
<1>7. /\ s6 \in Seq(Accesses) /\ After(store, s6) = m6 /\ m6 \in [Vars -> Int] /\ m6[filter(i)] = store[fingerprint]
      /\ (\A u \in Scalars : m6[u] = m5[u])
      /\ \A j \in Bucket : j # i => m6[filter(j)] = m5[filter(j)]
  <2>1. i \in Bucket /\ filter(i) \in Vars /\ store[fingerprint] \in Int
    BY <1>1, VarsAre
  <2>2. /\ s5 \o write(filter(i), store[fingerprint]) \in Seq(Accesses)
        /\ After(store, s5 \o write(filter(i), store[fingerprint])) = Store(After(store, s5), filter(i), store[fingerprint])
    BY <1>1, <1>6, <2>1, Appended
  <2>3. /\ Store(m5, filter(i), store[fingerprint]) \in [Vars -> Int] /\ Store(m5, filter(i), store[fingerprint])[filter(i)] = store[fingerprint]
        /\ \A u \in Scalars : Store(m5, filter(i), store[fingerprint])[u] = m5[u]
        /\ \A j \in Bucket : j # i => Store(m5, filter(i), store[fingerprint])[filter(j)] = m5[filter(j)]
    BY <1>1, <1>6, <2>1, StoreBucket
  <2> QED
    BY <1>6, <2>2, <2>3
<1> HIDE DEF s6, m6
<1>8. Filled(i, store[fingerprint])
  BY <1>0, <1>3, <1>4, <1>6, <1>7 DEF Filled
<1>9. Kept({index1, fingerprint, relocation_count})
  BY <1>0, <1>3, <1>4, <1>6, <1>7 DEF Kept
<1>10. store'[index1] = i /\ store'[fingerprint] = store[filter(i)] /\ store'[relocation_count] = c
  BY <1>0, <1>3, <1>4, <1>6, <1>7, ScalarsAre, Names DEF old
<1> QED
  BY <1>0, <1>3, <1>4, <1>6, <1>7, <1>8, <1>9, <1>10

\* task_add()
LEMMA AddRuns ==
    ASSUME TasksTypeOK, RunTask(task_add), store[index1] \in Bucket, store[index2] \in Bucket
    PROVE  /\ current = task_add /\ store' \in [Vars -> Int]
           /\ \/ /\ current' = task_insert_done
                 /\ \E i \in {store[index1], store[index2]} : store[filter(i)] = 0 /\ Filled(i, store[fingerprint])
                 /\ store'[success] = 1 /\ Kept({success})
              \/ /\ current' = task_relocate
                 /\ \E i \in {store[index1], store[index2]} :
                        /\ store[filter(i)] # 0 /\ Filled(i, store[fingerprint])
                        /\ store'[index1] = i /\ store'[fingerprint] = store[filter(i)]
                 /\ store'[relocation_count] = 0 /\ Kept({index1, fingerprint, relocation_count})
<1> DEFINE i1 == store[index1]
           i2 == store[index2]
           fp == store[fingerprint]
           at1 == read(filter(i1))
           at2 == read(filter(i2))
           filled(tests, i) == tests \o write(success, 1) \o write(filter(i), fp)
           evicted(i) == at1 \o at2 \o read(filter(i)) \o write(filter(i), fp) \o write(index1, i)
                           \o write(fingerprint, store[filter(i)]) \o write(relocation_count, 0)
<1>1. PICK coin \in {0, 1} : store' = After(store, Add(store, coin).ops) /\ current' = Add(store, coin).next
  BY Runs, Scripts
<1>2. /\ store[filter(i1)] = 0 => Add(store, coin) = script(filled(at1, i1), task_insert_done)
      /\ store[filter(i1)] # 0 /\ store[filter(i2)] = 0 => Add(store, coin) = script(filled(at1 \o at2, i2), task_insert_done)
      /\ store[filter(i1)] # 0 /\ store[filter(i2)] # 0 =>
             \E i \in {i1, i2} : Add(store, coin) = script(evicted(i), task_relocate)
  BY DEF Add
<1>3. \A ops, t : script(ops, t).ops = ops /\ script(ops, t).next = t
  BY DEF script
<1>4. store \in [Vars -> Int] /\ fp \in Int /\ i1 \in Bucket /\ i2 \in Bucket
  BY Memory, VarsAre
<1>5. at1 \in Seq(Accesses) /\ After(store, at1) = store
  BY <1>4, FirstRead
<1>6. at1 \o at2 \in Seq(Accesses) /\ After(store, at1 \o at2) = store
  <2> HIDE DEF at1, i1
  <2> QED
    BY <1>4, <1>5, ThenRead
<1> HIDE DEF at1, at2
<1>7. CASE store[filter(i1)] = 0
  <2>1. store' = After(store, filled(at1, i1)) /\ current' = task_insert_done
    <3> HIDE DEF filled, i1
    <3> QED
      BY <1>1, <1>2, <1>3, <1>7
  <2>2. store' \in [Vars -> Int] /\ Filled(i1, fp) /\ store'[success] = 1 /\ Kept({success})
    <3> HIDE DEF i1, fp
    <3> QED
      BY <1>4, <1>5, <2>1, FillRuns
  <2> QED
    BY <1>7, <2>1, <2>2, Runs
<1>8. CASE store[filter(i1)] # 0 /\ store[filter(i2)] = 0
  <2>1. store' = After(store, filled(at1 \o at2, i2)) /\ current' = task_insert_done
    <3> HIDE DEF filled, i1, i2
    <3> QED
      BY <1>1, <1>2, <1>3, <1>8
  <2>2. store' \in [Vars -> Int] /\ Filled(i2, fp) /\ store'[success] = 1 /\ Kept({success})
    <3> HIDE DEF i2, fp
    <3> QED
      BY <1>4, <1>6, <2>1, FillRuns
  <2> QED
    BY <1>8, <2>1, <2>2, Runs
<1>9. CASE store[filter(i1)] # 0 /\ store[filter(i2)] # 0
  <2>1. PICK i \in {i1, i2} : store' = After(store, evicted(i)) /\ current' = task_relocate
    <3> HIDE DEF evicted, i1, i2
    <3> QED
      BY <1>1, <1>2, <1>3, <1>9
  <2>2. i \in Bucket /\ store[filter(i)] # 0
    BY <1>4, <1>9
  <2>3. /\ store' \in [Vars -> Int] /\ Filled(i, fp)
        /\ store'[index1] = i /\ store'[fingerprint] = store[filter(i)] /\ store'[relocation_count] = 0
        /\ Kept({index1, fingerprint, relocation_count})
    <3> HIDE DEF i1, i2
    <3> QED
      BY <1>6, <2>1, <2>2, EvictRuns
  <2> QED
    BY <2>1, <2>2, <2>3, Runs
<1> QED
  BY <1>7, <1>8, <1>9

\* task_relocate()
LEMMA RelocateRuns ==
    ASSUME TasksTypeOK, RunTask(task_relocate), index2_victim(store) \in Bucket, NEW i, i = index2_victim(store)
    PROVE  /\ current = task_relocate /\ store' \in [Vars -> Int]
           /\ \/ /\ current' = task_insert_done
                 /\ store[filter(i)] = 0 /\ Filled(i, store[fingerprint])
                 /\ store'[success] = 1 /\ Kept({success})
              \/ /\ current' = task_insert_done
                 /\ KeptBuckets
                 /\ store'[success] = 0 /\ Kept({success})
              \/ /\ current' = task_relocate
                 /\ store[filter(i)] # 0 /\ Filled(i, store[fingerprint])
                 /\ store'[index1] = i /\ store'[fingerprint] = store[filter(i)]
                 /\ store[relocation_count] < MAX_RELOCATIONS
                 /\ store'[relocation_count] = store[relocation_count] + 1
                 /\ Kept({index1, fingerprint, relocation_count})
<1> DEFINE fp == store[fingerprint]
           c == store[relocation_count] + 1
           at == read(filter(i))
           filled == at \o write(success, 1) \o write(filter(i), fp)
           failed == at \o write(success, 0)
           moved == at \o write(relocation_count, c) \o write(index1, i) \o read(filter(i))
                      \o write(fingerprint, store[filter(i)]) \o write(filter(i), fp)
<1>1. current = task_relocate /\ store' = After(store, Relocate(store).ops) /\ current' = Relocate(store).next
  BY Runs, Scripts
<1>2. slot(store) = filter(i)
  BY DEF slot
<1>3. /\ store[filter(i)] = 0 => Relocate(store) = script(filled, task_insert_done)
      /\ store[filter(i)] # 0 /\ store[relocation_count] >= MAX_RELOCATIONS =>
             Relocate(store) = script(failed, task_insert_done)
      /\ store[filter(i)] # 0 /\ ~(store[relocation_count] >= MAX_RELOCATIONS) =>
             Relocate(store) = script(moved, task_relocate)
  BY <1>2 DEF Relocate, GiveUp, MoveOn
<1>4. \A ops, t : script(ops, t).ops = ops /\ script(ops, t).next = t
  BY DEF script
<1>5. store \in [Vars -> Int] /\ fp \in Int /\ i \in Bucket /\ c \in Int /\ store[relocation_count] \in Int
      /\ MAX_RELOCATIONS \in Int
  <2>1. MAX_RELOCATIONS \in Int
    BY Counts
  <2>2. store[relocation_count] \in Int /\ store[filter(i)] \in Int
    BY Memory, VarsAre
  <2> QED
    BY <2>1, <2>2, Memory, VarsAre
<1>6. at \in Seq(Accesses) /\ After(store, at) = store
  BY <1>5, FirstRead
<1>7. CASE store[filter(i)] = 0
  <2>1. store' = After(store, filled) /\ current' = task_insert_done
    <3> HIDE DEF filled
    <3> QED
      BY <1>1, <1>3, <1>4, <1>7
  <2>2. store' \in [Vars -> Int] /\ Filled(i, fp) /\ store'[success] = 1 /\ Kept({success})
    <3> HIDE DEF at, fp
    <3> QED
      BY <1>5, <1>6, <2>1, FillRuns
  <2> QED
    BY <1>1, <1>7, <2>1, <2>2
<1>8. CASE store[filter(i)] # 0 /\ store[relocation_count] >= MAX_RELOCATIONS
  <2>1. store' = After(store, failed) /\ current' = task_insert_done
    <3> HIDE DEF failed
    <3> QED
      BY <1>1, <1>3, <1>4, <1>8
  <2>2. success \in Scalars /\ success \in Vars /\ 0 \in Int
    BY VarsAre, ScalarsAre
  <2>3. After(store, at \o write(success, 0)) = Store(After(store, at), success, 0)
    <3> HIDE DEF at
    <3> QED
      BY <1>5, <1>6, <2>2, Appended
  <2>4. store' = Store(store, success, 0)
    BY <1>6, <2>1, <2>3
  <2>5. /\ Store(store, success, 0) \in [Vars -> Int] /\ Store(store, success, 0)[success] = 0
        /\ \A u \in Scalars : u # success => Store(store, success, 0)[u] = store[u]
        /\ \A j \in Bucket : Store(store, success, 0)[filter(j)] = store[filter(j)]
    BY <1>5, <2>2, StoreScalar
  <2>6. KeptBuckets /\ Kept({success})
    BY <2>4, <2>5 DEF KeptBuckets, Kept
  <2> QED
    BY <1>1, <2>1, <2>4, <2>5, <2>6
<1>9. CASE store[filter(i)] # 0 /\ ~(store[relocation_count] >= MAX_RELOCATIONS)
  <2>1. store' = After(store, moved) /\ current' = task_relocate
    <3> HIDE DEF moved
    <3> QED
      BY <1>1, <1>3, <1>4, <1>9
  <2>2. /\ store' \in [Vars -> Int] /\ Filled(i, fp)
        /\ store'[index1] = i /\ store'[fingerprint] = store[filter(i)] /\ store'[relocation_count] = c
        /\ Kept({index1, fingerprint, relocation_count})
    <3> HIDE DEF c
    <3> QED
      BY <1>5, <2>1, MoveOnRuns
  <2> QED
    BY <1>1, <1>5, <1>9, <2>1, <2>2
<1> QED
  BY <1>7, <1>8, <1>9

-----------------------------------------------------------------------------
(* What the parts of the invariant speak of.                               *)

\* The tasks have different numbers.
LEMMA Tasks ==
    /\ entry_task = 0 /\ task_init = 1 /\ task_generate_key = 2 /\ task_insert = 3
    /\ task_calc_indexes = 4 /\ task_calc_indexes_index_1 = 5 /\ task_calc_indexes_index_2 = 6
    /\ task_add = 7 /\ task_relocate = 8 /\ task_insert_done = 9 /\ task_lookup = 10
    /\ task_lookup_search = 11 /\ task_lookup_done = 12 /\ task_print_stats = 13 /\ task_done = 14
BY DEF entry_task, task_init, task_generate_key, task_insert, task_calc_indexes,
   task_calc_indexes_index_1, task_calc_indexes_index_2, task_add, task_relocate, task_insert_done,
   task_lookup, task_lookup_search, task_lookup_done, task_print_stats, task_done

\* The buckets of a key are buckets, and so is the other one of each of them,
\* where its fingerprint may be as well.
LEMMA BucketsAre ==
    ASSUME NEW k \in Word
    PROVE  /\ Buckets(k) \subseteq Bucket
           /\ \A i \in Buckets(k) : xor(i, hash_to_index(hash_to_fingerprint(k))) \in Buckets(k)
           /\ Buckets(k) = {hash_to_index(k), xor(hash_to_index(k), hash_to_index(hash_to_fingerprint(k)))}
<1> DEFINE i1 == hash_to_index(k)
           h == hash_to_index(hash_to_fingerprint(k))
<1>1. i1 \in Bucket /\ h \in Bucket
  BY HashRange
<1>2. Buckets(k) = {i1, xor(i1, h)}
  BY DEF Buckets
<1> HIDE DEF i1, h
<1>3. xor(i1, h) \in Bucket
  BY <1>1, XorRange
<1>4. xor(xor(i1, h), h) = i1
  BY <1>1, Buckets16, XorUndone
<1>5. Buckets(k) \subseteq Bucket /\ \A i \in Buckets(k) : xor(i, h) \in Buckets(k)
  BY <1>1, <1>2, <1>3, <1>4
<1> QED
  BY <1>2, <1>5 DEF i1, h

\* A fingerprint that fits somewhere is one, and fits in its other bucket, too.
LEMMA FitsIs ==
    ASSUME NEW n \in 0..NUM_INSERTS, NEW i, NEW fp, Fits(n, i, fp)
    PROVE  /\ i \in Bucket /\ fp \in Word /\ fp # 0
           /\ xor(i, hash_to_index(fp)) \in Bucket
           /\ Fits(n, xor(i, hash_to_index(fp)), fp)
<1>1. K[n] \in Word
  BY Keys
<1>2. fp = hash_to_fingerprint(K[n]) /\ i \in Buckets(K[n])
  BY DEF Fits
<1>3. fp \in Word /\ fp # 0
  BY <1>1, <1>2, HashRange, FingerprintIsNotEmpty
<1>4. Buckets(K[n]) \subseteq Bucket /\ xor(i, hash_to_index(fp)) \in Buckets(K[n])
  BY <1>1, <1>2, BucketsAre
<1> QED
  BY <1>2, <1>3, <1>4 DEF Fits

\* Types after a step.
LEMMA TypeAfter ==
    ASSUME store' \in [Vars -> Int], \A v \in Scalars : store'[v] \in Word,
           \A i \in Bucket : store'[filter(i)] \in Word, current' \in entry_task..task_done
    PROVE  TasksTypeOK'
<1>1. \A v \in Vars : store'[v] \in Word
  BY VarsAre
<1>2. store' \in [Vars -> Word]
  BY <1>1
<1> QED
  BY <1>2 DEF TasksTypeOK, Vars

\* A step that stores words in the scalars of S keeps the types.
LEMMA TypeKept ==
    ASSUME TasksTypeOK, store' \in [Vars -> Int], KeptBuckets, NEW S, Kept(S), \A v \in S : store'[v] \in Word,
           current' \in entry_task..task_done
    PROVE  TasksTypeOK'
<1>1. \A v \in Scalars : store'[v] \in Word
  BY Memory, VarsAre DEF Kept
<1>2. \A i \in Bucket : store'[filter(i)] \in Word
  BY Memory, VarsAre DEF KeptBuckets
<1> QED
  BY <1>1, <1>2, TypeAfter

\* The same for a step that fills a bucket besides.
LEMMA TypeFilled ==
    ASSUME TasksTypeOK, store' \in [Vars -> Int], NEW i \in Bucket, NEW x \in Word, Filled(i, x),
           NEW S, Kept(S), \A v \in S : store'[v] \in Word, current' \in entry_task..task_done
    PROVE  TasksTypeOK'
<1>1. \A v \in Scalars : store'[v] \in Word
  BY Memory, VarsAre DEF Kept
<1>2. \A j \in Bucket : store'[filter(j)] \in Word
  BY Memory, VarsAre DEF Filled
<1> QED
  BY <1>1, <1>2, TypeAfter

\* Only finitely many buckets are occupied.
LEMMA OccupiedFinite ==
    /\ IsFiniteSet(Filter) /\ IsFiniteSet(Occupied) /\ Cardinality(Occupied) \in Nat
    /\ \A i \in Bucket : filter(i) \in Occupied <=> store[filter(i)] # 0
<1> DEFINE f == [i \in Bucket |-> filter(i)]
<1>1. IsFiniteSet(Bucket)
  BY FS_Interval, Buckets16 DEF Bucket
<1>2. f \in Surjection(Bucket, Filter)
  BY DEF Surjection, Filter, Bucket
<1>3. IsFiniteSet(Filter)
  BY <1>1, <1>2, FS_Surjection
<1>4. IsFiniteSet(Occupied)
  BY <1>3, FS_Subset DEF Occupied
<1>5. Cardinality(Occupied) \in Nat
  BY <1>4, FS_CardinalityType
<1> QED
  BY <1>3, <1>4, <1>5, VarsAre DEF Occupied

\* Those that are occupied stay so when no bucket is written.
LEMMA OccupiedKept ==
    ASSUME KeptBuckets
    PROVE  Occupied' = Occupied
<1>1. \A v \in Filter : store'[v] = store[v]
  BY DEF KeptBuckets, Filter, Bucket
<1> QED
  BY <1>1 DEF Occupied

\* One is added when a fingerprint fills a bucket that was empty.
LEMMA OccupiedFilled ==
    ASSUME NEW i \in Bucket, NEW x, x # 0, Filled(i, x)
    PROVE  /\ Occupied' = Occupied \cup {filter(i)}
           /\ Cardinality(Occupied') =
                  IF store[filter(i)] = 0 THEN Cardinality(Occupied) + 1 ELSE Cardinality(Occupied)
<1>1. filter(i) \in Filter /\ store'[filter(i)] = x
  BY VarsAre DEF Filled
<1>2. ASSUME NEW v \in Filter, v # filter(i) PROVE store'[v] = store[v]
  <2>1. PICK j \in Bucket : v = filter(j)
    BY DEF Filter, Bucket
  <2> QED
    BY <1>2, <2>1 DEF Filled
<1>3. Occupied' = Occupied \cup {filter(i)}
  BY <1>1, <1>2 DEF Occupied
<1>4. Cardinality(Occupied \cup {filter(i)}) =
          IF filter(i) \in Occupied THEN Cardinality(Occupied) ELSE Cardinality(Occupied) + 1
  BY OccupiedFinite, FS_AddElement
<1> QED
  BY <1>3, <1>4, OccupiedFinite

\* What is found is so afterwards when no bucket is written.
LEMMA FoundKept ==
    ASSUME KeptBuckets, NEW n \in 0..NUM_INSERTS
    PROVE  Found(n)' <=> Found(n)
<1>1. Buckets(K[n]) \subseteq Bucket
  BY BucketsAre, Keys
<1> QED
  BY <1>1 DEF Found, KeptBuckets

\* The homes of the fingerprints stay the same when no bucket is written.
LEMMA HomeKept ==
    ASSUME HomeInv, KeptBuckets, Known' = Known, current' # task_relocate
    PROVE  HomeInv'
<1>1. PICK home \in [Bucket -> 0..NUM_INSERTS] : IsHome(home)
  BY DEF HomeInv
<1>2. IsHome(home)'
  BY <1>1 DEF IsHome, KeptBuckets, Fits
<1> QED
  BY <1>2 DEF HomeInv

-----------------------------------------------------------------------------
(* Steps that write no bucket.                                             *)

\* What the counts say of a task.
LEMMA Phases ==
    ASSUME TasksTypeOK, CountInv
    PROVE  /\ Inserting => ~LookingUp /\ turn = store[insert_count]
           /\ LookingUp => ~Inserting /\ turn = store[lookup_count]
           /\ current \in {task_insert, task_add, task_relocate, task_insert_done} => Inserting
           /\ current \in {task_lookup, task_lookup_search, task_lookup_done} => LookingUp
           /\ Inserting \/ LookingUp => turn \in 0..(NUM_INSERTS - 1)
<1>1. store[insert_count] \in Nat /\ store[lookup_count] \in Nat /\ NUM_INSERTS \in Nat
  <2>1. insert_count \in Vars /\ lookup_count \in Vars
    BY VarsAre
  <2>2. store[insert_count] \in Nat /\ store[lookup_count] \in Nat
    BY <2>1, Memory
  <2> QED
    BY <2>2, Counts
<1>2. Inserting => ~LookingUp
  BY <1>1 DEF CountInv
<1>3. turn = IF Inserting THEN store[insert_count] ELSE store[lookup_count]
  BY DEF turn
<1>4. Inserting => store[insert_count] < NUM_INSERTS
  BY DEF CountInv
<1>5. LookingUp => store[lookup_count] < NUM_INSERTS
  BY DEF CountInv
<1>6. /\ current \in {task_insert, task_add, task_relocate, task_insert_done} => Inserting
      /\ current \in {task_lookup, task_lookup_search, task_lookup_done} => LookingUp
  BY DEF Inserting, LookingUp
<1> QED
  BY <1>1, <1>2, <1>3, <1>4, <1>5, <1>6

\* The number of fingerprints stays the same with what has been counted.
LEMMA OccupiedSame ==
    ASSUME OccupiedIsInserted, KeptBuckets, current # task_insert_done, current' # task_insert_done,
           store'[inserted_count] = store[inserted_count]
    PROVE  OccupiedIsInserted'
BY OccupiedKept DEF OccupiedIsInserted

\* The lookups so far found what they did.
LEMMA FoundSame ==
    ASSUME KeptBuckets, NEW n \in Nat, n <= NUM_INSERTS
    PROVE  {c \in 1..n : Found(c)'} = {c \in 1..n : Found(c)}
<1>1. \A c \in 1..n : c \in 0..NUM_INSERTS
  BY Counts
<1>2. \A c \in 1..n : Found(c)' <=> Found(c)
  BY <1>1, FoundKept
<1> QED
  BY <1>2

\* So their count stays right.
LEMMA MemberSame ==
    ASSUME TasksTypeOK, MemberInv, KeptBuckets, store[lookup_count] <= NUM_INSERTS, current' # task_lookup_done,
           store'[lookup_count] = store[lookup_count], store'[member_count] = store[member_count]
    PROVE  MemberInv'
<1>1. store[lookup_count] \in Nat
  BY Memory, VarsAre
<1>2. {n \in 1..store[lookup_count] : Found(n)'} = {n \in 1..store[lookup_count] : Found(n)}
  BY <1>1, FoundSame
<1> QED
  BY <1>2 DEF MemberInv

\* No lookups, nothing found.
LEMMA MemberNone ==
    ASSUME store'[lookup_count] = 0, store'[member_count] = 0, current' # task_lookup_done
    PROVE  MemberInv'
<1>1. {n \in 1..0 : Found(n)'} = {}
  OBVIOUS
<1> QED
  BY <1>1, FS_EmptySet DEF MemberInv

\* The steps outside of task_add, task_relocate and the three that end an
\* insertion or a lookup leave the parts on the buckets alone.
LEMMA Quiet ==
    ASSUME TasksInv, KeptBuckets, current \notin {task_add, task_relocate, task_insert_done, task_lookup_search, task_lookup_done},
           current' \notin {task_relocate, task_insert_done, task_lookup_done},
           store'[insert_count] = store[insert_count], store'[inserted_count] = store[inserted_count],
           store'[lookup_count] = store[lookup_count], store'[member_count] = store[member_count]
    PROVE  HomeInv' /\ OccupiedIsInserted' /\ MemberInv'
<1>1. Known' = Known
  BY DEF Known
<1>2. store[lookup_count] <= NUM_INSERTS
  <2>1. NUM_INSERTS \in Nat /\ store[lookup_count] \in Nat
    BY Counts, Memory, VarsAre DEF TasksInv
  <2>2. current \in {entry_task, task_init} => store[lookup_count] = 0
    BY VarsAre DEF TasksInv, CountInv, Vars
  <2> QED
    BY <2>1, <2>2 DEF TasksInv, CountInv
<1>3. HomeInv'
  BY <1>1, HomeKept DEF TasksInv
<1>4. OccupiedIsInserted'
  BY OccupiedSame DEF TasksInv
<1>5. MemberInv'
  BY <1>2, MemberSame DEF TasksInv
<1> QED
  BY <1>3, <1>4, <1>5

\* At the start.
LEMMA InitIs ==
    ASSUME TasksInit
    PROVE  TasksInv
<1>1. /\ NUM_INSERTS \in Nat /\ MAX_RELOCATIONS \in Nat
      /\ 0 \in Word
  BY Counts, WordBasics
<1>2. TasksTypeOK
  BY <1>1, Tasks DEF TasksTypeOK, TasksInit
<1>3. \A v \in Vars : store[v] = 0
  BY DEF Vars, TasksInit
<1>4. current = 0 /\ ~Inserting /\ ~LookingUp
  BY Tasks DEF Inserting, LookingUp, Calculating, TasksInit
<1>5. CountInv
  <2>1. \A v \in {insert_count, inserted_count, lookup_count, member_count, relocation_count} : store[v] = 0
    BY <1>3, VarsAre
  <2> QED
    BY <1>1, <1>3, <1>4, <2>1, Tasks DEF CountInv, Vars
<1>6. KeyInv
  BY <1>4, Tasks DEF KeyInv, Calculating
<1>7. HomeInv
  <2> DEFINE home == [i \in Bucket |-> 0]
  <2>1. home \in [Bucket -> 0..NUM_INSERTS] /\ \A i \in Bucket : home[i] = 0
    BY <1>1
  <2>2. \A i \in Bucket : store[filter(i)] = 0
    BY <1>3, VarsAre
  <2> HIDE DEF home
  <2>3. IsHome(home)
    BY <2>1, <2>2 DEF IsHome
  <2> QED
    BY <1>4, <2>1, <2>3, Tasks DEF HomeInv
<1>8. OccupiedIsInserted
  <2>1. Occupied = {}
    BY <1>3, VarsAre DEF Occupied, Vars
  <2>2. store[inserted_count] = 0
    BY <1>3, VarsAre
  <2> QED
    BY <1>4, <2>1, <2>2, Tasks, FS_EmptySet DEF OccupiedIsInserted
<1>9. MemberInv
  <2>1. store[lookup_count] = 0 /\ store[member_count] = 0
    BY <1>3, VarsAre
  <2>2. {n \in 1..0 : Found(n)} = {}
    OBVIOUS
  <2> QED
    BY <1>4, <2>1, <2>2, Tasks, FS_EmptySet DEF MemberInv
<1> QED
  BY <1>2, <1>5, <1>6, <1>7, <1>8, <1>9 DEF TasksInv

-----------------------------------------------------------------------------
(* Every task preserves the invariant.                                     *)

\* The numbers of the tasks, and the flags, are words.
LEMMA SmallWords == 0..14 \subseteq Word /\ 0 \in Word /\ 1 \in Word /\ 3 \in Word /\ 7 \in Word /\ 10 \in Word /\ 11 \in Word
<1>1. \A x \in 0..14 : x \in Nat /\ x < 65536
  OBVIOUS
<1>2. 0..14 \subseteq Word
  BY <1>1, BelowIsWord
<1>3. 0 \in 0..14 /\ 1 \in 0..14 /\ 3 \in 0..14 /\ 7 \in 0..14 /\ 10 \in 0..14 /\ 11 \in 0..14
  OBVIOUS
<1> QED
  BY <1>2, <1>3, Zenon

\* And so are the numbers up to a word.
LEMMA WordIs == \A c \in Word : \A x \in Nat : x <= c => x \in Word
<1>1. \A c \in Word : \A x \in Nat : x <= c => x < 65536
  BY WordBound
<1> QED
  BY <1>1, BelowIsWord

\* The sizes are words, and so are the counts.
LEMMA CountsAreWords ==
    /\ NUM_INSERTS \in Word /\ MAX_RELOCATIONS \in Word
    /\ \A x \in Nat : x <= NUM_INSERTS \/ x <= MAX_RELOCATIONS => x \in Word
<1>1. NUM_INSERTS \in Word /\ MAX_RELOCATIONS \in Word
  BY CountsAssumption
<1> QED
  BY <1>1, WordIs

\* The scalars that a step leaves alone.
LEMMA Values ==
    ASSUME NEW S, Kept(S)
    PROVE  /\ key \notin S => store'[key] = store[key]
           /\ next_task \notin S => store'[next_task] = store[next_task]
           /\ fingerprint \notin S => store'[fingerprint] = store[fingerprint]
           /\ index1 \notin S => store'[index1] = store[index1]
           /\ index2 \notin S => store'[index2] = store[index2]
           /\ relocation_count \notin S => store'[relocation_count] = store[relocation_count]
           /\ insert_count \notin S => store'[insert_count] = store[insert_count]
           /\ inserted_count \notin S => store'[inserted_count] = store[inserted_count]
           /\ lookup_count \notin S => store'[lookup_count] = store[lookup_count]
           /\ member_count \notin S => store'[member_count] = store[member_count]
           /\ success \notin S => store'[success] = store[success]
           /\ member \notin S => store'[member] = store[member]
BY ScalarsAre DEF Kept

\* The invariant speaks of the memory and the task only.
LEMMA SameStep ==
    ASSUME TasksInv, store' = store, current' = current
    PROVE  TasksInv'
<1>1. /\ TasksTypeOK' /\ CountInv' /\ turn' = turn
  BY DEF TasksInv, TasksTypeOK, CountInv, Inserting, LookingUp, Calculating, turn
<1>2. KeyInv'
  BY <1>1 DEF TasksInv, KeyInv, Calculating
<1>3. HomeInv'
  BY DEF TasksInv, HomeInv, IsHome, Known
<1>4. OccupiedIsInserted'
  BY DEF TasksInv, OccupiedIsInserted, Occupied
<1>5. MemberInv'
  BY DEF TasksInv, MemberInv, Found
<1> QED
  BY <1>1, <1>2, <1>3, <1>4, <1>5 DEF TasksInv

\* ENTRY_TASK(task_init)
LEMMA EnterStep ==
    ASSUME TasksInv, RunTask(entry_task)
    PROVE  TasksInv'
<1>0. TasksTypeOK /\ CountInv /\ KeyInv
  BY DEF TasksInv
<1>1. current = entry_task /\ current' = task_init /\ store' = store
  BY <1>0, EnterRuns
<1>2. KeptBuckets
  BY <1>1 DEF KeptBuckets
<1>3. current = 0 /\ current' = 1
  BY <1>1, Tasks
<1>4. TasksTypeOK'
  BY <1>0, <1>1, <1>3, Tasks DEF TasksTypeOK
<1>5. ~Inserting /\ ~LookingUp /\ ~Inserting' /\ ~LookingUp'
  BY <1>3, Tasks DEF Inserting, LookingUp, Calculating
<1>6. CountInv'
  BY <1>0, <1>1, <1>3, <1>5, Tasks DEF CountInv
<1>7. KeyInv'
  BY <1>3, Tasks DEF KeyInv, Calculating
<1>8. HomeInv' /\ OccupiedIsInserted' /\ MemberInv'
  BY <1>1, <1>2, <1>3, Tasks, Quiet
<1> QED
  BY <1>4, <1>6, <1>7, <1>8 DEF TasksInv

\* task_init()
LEMMA InitializeStep ==
    ASSUME TasksInv, RunTask(task_init)
    PROVE  TasksInv'
<1>0. TasksTypeOK /\ CountInv /\ KeyInv /\ current = task_init
  BY Runs DEF TasksInv
<1>1. \A v \in Vars : store[v] = 0
  BY <1>0 DEF CountInv, Vars
<1>2. /\ current' = task_generate_key /\ store' \in [Vars -> Int] /\ Kept({key, next_task}) /\ KeptBuckets
      /\ store'[key] = 1 /\ store'[next_task] = 3
  BY <1>0, <1>1, InitializeRuns, Tasks DEF init_key
<1>3. current = 1 /\ current' = 2
  BY <1>0, <1>2, Tasks
<1>4. /\ store'[insert_count] = 0 /\ store'[inserted_count] = 0 /\ store'[lookup_count] = 0 /\ store'[member_count] = 0
      /\ store[insert_count] = 0 /\ store[inserted_count] = 0 /\ store[lookup_count] = 0 /\ store[member_count] = 0
  <2>1. store[insert_count] = 0 /\ store[inserted_count] = 0 /\ store[lookup_count] = 0 /\ store[member_count] = 0
    BY <1>1, VarsAre
  <2> QED
    BY <1>2, <2>1, Values, Names
<1>5. TasksTypeOK'
  <2>1. \A v \in {key, next_task} : store'[v] \in Word
    BY <1>2, SmallWords
  <2> QED
    BY <1>0, <1>2, <1>3, <2>1, Tasks, TypeKept
<1>6. Inserting' /\ ~LookingUp'
  BY <1>2, <1>3, Tasks DEF Inserting, LookingUp, Calculating
<1>7. CountInv'
  BY <1>3, <1>4, <1>6, Tasks, Counts DEF CountInv
<1>8. KeyInv'
  <2>1. turn' = 0
    BY <1>4, <1>6 DEF turn
  <2>2. store'[key] = K[0]
    BY <1>2, Keys DEF init_key
  <2> QED
    BY <1>3, <2>1, <2>2, Tasks DEF KeyInv, Calculating
<1>9. HomeInv' /\ OccupiedIsInserted' /\ MemberInv'
  BY <1>2, <1>3, <1>4, Tasks, Quiet
<1> QED
  BY <1>5, <1>7, <1>8, <1>9 DEF TasksInv

\* task_generate_key()
LEMMA GenerateKeyStep ==
    ASSUME TasksInv, RunTask(task_generate_key)
    PROVE  TasksInv'
<1>0. TasksTypeOK /\ CountInv /\ KeyInv
  BY DEF TasksInv
<1>1. /\ current = task_generate_key /\ current' = store[next_task] /\ store' \in [Vars -> Int] /\ Kept({key})
      /\ KeptBuckets /\ store'[key] = next_key(store[key])
  BY <1>0, GenerateKeyRuns
<1>2. current = 2
  BY <1>1, Tasks
<1>3. /\ store'[insert_count] = store[insert_count] /\ store'[inserted_count] = store[inserted_count]
      /\ store'[lookup_count] = store[lookup_count] /\ store'[member_count] = store[member_count]
  BY <1>1, Values, Names
<1>4. \/ Inserting /\ ~LookingUp /\ current' = 3
      \/ LookingUp /\ ~Inserting /\ current' = 10
  BY <1>0, <1>1, <1>2, Phases, Tasks DEF CountInv, Inserting, LookingUp, Calculating
<1>5. TasksTypeOK'
  <2>1. \A v \in {key} : store'[v] \in Word
    BY <1>0, <1>1, Memory, VarsAre, HashRange
  <2> QED
    BY <1>0, <1>1, <1>4, <2>1, Tasks, TypeKept
<1>6. /\ current' = 3 => Inserting' /\ ~LookingUp'
      /\ current' = 10 => LookingUp' /\ ~Inserting'
  BY Tasks DEF Inserting, LookingUp, Calculating
<1>7. CountInv'
  BY <1>0, <1>3, <1>4, <1>6, Tasks DEF CountInv
<1>8. KeyInv'
  <2>1. turn' = turn
    BY <1>3, <1>4, <1>6 DEF turn
  <2>2. turn \in 0..(NUM_INSERTS - 1)
    BY <1>0, <1>4, Phases
  <2>3. store'[key] = K[turn + 1]
    BY <1>0, <1>1, <2>2, Keys DEF KeyInv
  <2> QED
    BY <1>4, <2>1, <2>3, Tasks DEF KeyInv, Calculating
<1>9. HomeInv' /\ OccupiedIsInserted' /\ MemberInv'
  BY <1>1, <1>2, <1>3, <1>4, Tasks, Quiet
<1> QED
  BY <1>5, <1>7, <1>8, <1>9 DEF TasksInv

\* task_insert()
LEMMA InsertStep ==
    ASSUME TasksInv, RunTask(task_insert)
    PROVE  TasksInv'
<1>0. TasksTypeOK /\ CountInv /\ KeyInv
  BY DEF TasksInv
<1>1. /\ current = task_insert /\ current' = task_calc_indexes /\ store' \in [Vars -> Int] /\ Kept({next_task})
      /\ KeptBuckets /\ store'[next_task] = task_add
  BY <1>0, InsertRuns
<1>2. current = 3 /\ current' = 4 /\ store'[next_task] = 7
  BY <1>1, Tasks
<1>3. /\ store'[insert_count] = store[insert_count] /\ store'[inserted_count] = store[inserted_count]
      /\ store'[lookup_count] = store[lookup_count] /\ store'[member_count] = store[member_count]
      /\ store'[key] = store[key]
  BY <1>1, Values, Names
<1>4. Inserting /\ ~LookingUp /\ Inserting' /\ ~LookingUp'
  BY <1>2, Tasks DEF Inserting, LookingUp, Calculating
<1>5. TasksTypeOK'
  <2>1. \A v \in {next_task} : store'[v] \in Word
    BY <1>2, SmallWords
  <2> QED
    BY <1>0, <1>1, <1>2, <2>1, Tasks, TypeKept
<1>6. CountInv'
  BY <1>0, <1>2, <1>3, <1>4, Tasks DEF CountInv
<1>7. KeyInv'
  <2>1. turn' = turn
    BY <1>3, <1>4 DEF turn
  <2> QED
    BY <1>0, <1>2, <1>3, <2>1, Tasks DEF KeyInv, Calculating
<1>8. HomeInv' /\ OccupiedIsInserted' /\ MemberInv'
  BY <1>1, <1>2, <1>3, Tasks, Quiet
<1> QED
  BY <1>5, <1>6, <1>7, <1>8 DEF TasksInv

\* task_lookup()
LEMMA LookupStep ==
    ASSUME TasksInv, RunTask(task_lookup)
    PROVE  TasksInv'
<1>0. TasksTypeOK /\ CountInv /\ KeyInv
  BY DEF TasksInv
<1>1. /\ current = task_lookup /\ current' = task_calc_indexes /\ store' \in [Vars -> Int] /\ Kept({next_task})
      /\ KeptBuckets /\ store'[next_task] = task_lookup_search
  BY <1>0, LookupRuns
<1>2. current = 10 /\ current' = 4 /\ store'[next_task] = 11
  BY <1>1, Tasks
<1>3. /\ store'[insert_count] = store[insert_count] /\ store'[inserted_count] = store[inserted_count]
      /\ store'[lookup_count] = store[lookup_count] /\ store'[member_count] = store[member_count]
      /\ store'[key] = store[key]
  BY <1>1, Values, Names
<1>4. LookingUp /\ ~Inserting /\ LookingUp' /\ ~Inserting'
  BY <1>2, Tasks DEF Inserting, LookingUp, Calculating
<1>5. TasksTypeOK'
  <2>1. \A v \in {next_task} : store'[v] \in Word
    BY <1>2, SmallWords
  <2> QED
    BY <1>0, <1>1, <1>2, <2>1, Tasks, TypeKept
<1>6. CountInv'
  BY <1>0, <1>2, <1>3, <1>4, Tasks DEF CountInv
<1>7. KeyInv'
  <2>1. turn' = turn
    BY <1>3, <1>4 DEF turn
  <2> QED
    BY <1>0, <1>2, <1>3, <2>1, Tasks DEF KeyInv, Calculating
<1>8. HomeInv' /\ OccupiedIsInserted' /\ MemberInv'
  BY <1>1, <1>2, <1>3, Tasks, Quiet
<1> QED
  BY <1>5, <1>6, <1>7, <1>8 DEF TasksInv

\* task_calc_indexes()
LEMMA CalcIndexesStep ==
    ASSUME TasksInv, RunTask(task_calc_indexes)
    PROVE  TasksInv'
<1>0. TasksTypeOK /\ CountInv /\ KeyInv
  BY DEF TasksInv
<1>1. /\ current = task_calc_indexes /\ current' = task_calc_indexes_index_1
      /\ store' \in [Vars -> Int] /\ Kept({fingerprint}) /\ KeptBuckets
      /\ store'[fingerprint] = hash_to_fingerprint(store[key])
  BY <1>0, CalcIndexesRuns
<1>2. current = 4 /\ current' = 5
  BY <1>1, Tasks
<1>3. /\ store'[insert_count] = store[insert_count] /\ store'[inserted_count] = store[inserted_count]
      /\ store'[lookup_count] = store[lookup_count] /\ store'[member_count] = store[member_count]
      /\ store'[key] = store[key] /\ store'[next_task] = store[next_task]
  BY <1>1, Values, Names
<1>4. /\ Inserting' <=> Inserting
      /\ LookingUp' <=> LookingUp
  BY <1>2, <1>3, Tasks DEF Inserting, LookingUp, Calculating
<1>5. TasksTypeOK'
  <2>1. \A v \in {fingerprint} : store'[v] \in Word
    BY <1>0, <1>1, Memory, VarsAre, HashRange
  <2> QED
    BY <1>0, <1>1, <1>2, <2>1, Tasks, TypeKept
<1>6. CountInv'
  BY <1>0, <1>2, <1>3, <1>4, Tasks DEF CountInv
<1>7. KeyInv'
  <2>1. turn' = turn
    BY <1>3, <1>4 DEF turn
  <2> QED
    BY <1>0, <1>1, <1>2, <1>3, <2>1, Tasks DEF KeyInv, Calculating
<1>8. HomeInv' /\ OccupiedIsInserted' /\ MemberInv'
  BY <1>1, <1>2, <1>3, Tasks, Quiet
<1> QED
  BY <1>5, <1>6, <1>7, <1>8 DEF TasksInv

\* task_calc_indexes_index_1()
LEMMA CalcIndex1Step ==
    ASSUME TasksInv, RunTask(task_calc_indexes_index_1)
    PROVE  TasksInv'
<1>0. TasksTypeOK /\ CountInv /\ KeyInv
  BY DEF TasksInv
<1>1. /\ current = task_calc_indexes_index_1 /\ current' = task_calc_indexes_index_2
      /\ store' \in [Vars -> Int] /\ Kept({index1}) /\ KeptBuckets
      /\ store'[index1] = hash_to_index(store[key])
  BY <1>0, CalcIndex1Runs
<1>2. current = 5 /\ current' = 6
  BY <1>1, Tasks
<1>3. /\ store'[insert_count] = store[insert_count] /\ store'[inserted_count] = store[inserted_count]
      /\ store'[lookup_count] = store[lookup_count] /\ store'[member_count] = store[member_count]
      /\ store'[key] = store[key] /\ store'[next_task] = store[next_task] /\ store'[fingerprint] = store[fingerprint]
  BY <1>1, Values, Names
<1>4. /\ Inserting' <=> Inserting
      /\ LookingUp' <=> LookingUp
  BY <1>2, <1>3, Tasks DEF Inserting, LookingUp, Calculating
<1>5. TasksTypeOK'
  <2>1. \A v \in {index1} : store'[v] \in Word
    BY <1>0, <1>1, Memory, VarsAre, HashRange, Buckets16
  <2> QED
    BY <1>0, <1>1, <1>2, <2>1, Tasks, TypeKept
<1>6. CountInv'
  BY <1>0, <1>2, <1>3, <1>4, Tasks DEF CountInv
<1>7. KeyInv'
  <2>1. turn' = turn
    BY <1>3, <1>4 DEF turn
  <2> QED
    BY <1>0, <1>1, <1>2, <1>3, <2>1, Tasks DEF KeyInv, Calculating
<1>8. HomeInv' /\ OccupiedIsInserted' /\ MemberInv'
  BY <1>1, <1>2, <1>3, Tasks, Quiet
<1> QED
  BY <1>5, <1>6, <1>7, <1>8 DEF TasksInv

\* task_calc_indexes_index_2()
LEMMA CalcIndex2Step ==
    ASSUME TasksInv, RunTask(task_calc_indexes_index_2)
    PROVE  TasksInv'
<1>0. TasksTypeOK /\ CountInv /\ KeyInv
  BY DEF TasksInv
<1>1. /\ current = task_calc_indexes_index_2 /\ current' = store[next_task]
      /\ store' \in [Vars -> Int] /\ Kept({index2}) /\ KeptBuckets
      /\ store'[index2] = xor(store[index1], hash_to_index(store[fingerprint]))
  BY <1>0, CalcIndex2Runs
<1>2. current = 6
  BY <1>1, Tasks
<1>3. /\ store'[insert_count] = store[insert_count] /\ store'[inserted_count] = store[inserted_count]
      /\ store'[lookup_count] = store[lookup_count] /\ store'[member_count] = store[member_count]
      /\ store'[key] = store[key] /\ store'[fingerprint] = store[fingerprint] /\ store'[index1] = store[index1]
  BY <1>1, Values, Names
<1>4. \/ Inserting /\ ~LookingUp /\ current' = 7
      \/ LookingUp /\ ~Inserting /\ current' = 11
  BY <1>0, <1>1, <1>2, Phases, Tasks DEF CountInv, Inserting, LookingUp, Calculating
<1>5. TasksTypeOK'
  <2>1. store[index1] \in Word /\ hash_to_index(store[fingerprint]) \in Word
    BY <1>0, Memory, VarsAre, HashRange, Buckets16
  <2>2. \A v \in {index2} : store'[v] \in Word
    BY <1>1, <2>1, XorUndone
  <2> QED
    BY <1>0, <1>1, <1>4, <2>2, Tasks, TypeKept
<1>6. /\ current' = 7 => Inserting' /\ ~LookingUp'
      /\ current' = 11 => LookingUp' /\ ~Inserting'
  BY Tasks DEF Inserting, LookingUp, Calculating
<1>7. CountInv'
  BY <1>0, <1>3, <1>4, <1>6, Tasks DEF CountInv
<1>8. KeyInv'
  <2>1. turn' = turn
    BY <1>3, <1>4, <1>6 DEF turn
  <2> QED
    BY <1>0, <1>1, <1>2, <1>3, <1>4, <2>1, Tasks DEF KeyInv, Calculating
<1>9. HomeInv' /\ OccupiedIsInserted' /\ MemberInv'
  BY <1>1, <1>2, <1>3, <1>4, Tasks, Quiet
<1> QED
  BY <1>5, <1>7, <1>8, <1>9 DEF TasksInv

\* task_print_stats()
LEMMA PrintStep ==
    ASSUME TasksInv, RunTask(task_print_stats)
    PROVE  TasksInv'
<1>0. TasksTypeOK /\ CountInv /\ KeyInv
  BY DEF TasksInv
<1>1. current = task_print_stats /\ current' = task_done /\ store' = store
  BY <1>0, PrintRuns
<1>2. KeptBuckets
  BY <1>1 DEF KeptBuckets
<1>3. current = 13 /\ current' = 14
  BY <1>1, Tasks
<1>4. TasksTypeOK'
  BY <1>0, <1>1, <1>3, Tasks DEF TasksTypeOK
<1>5. ~Inserting /\ ~LookingUp /\ ~Inserting' /\ ~LookingUp'
  BY <1>3, Tasks DEF Inserting, LookingUp, Calculating
<1>6. CountInv'
  BY <1>0, <1>1, <1>3, <1>5, Tasks DEF CountInv
<1>7. KeyInv'
  BY <1>3, Tasks DEF KeyInv, Calculating
<1>8. HomeInv' /\ OccupiedIsInserted' /\ MemberInv'
  BY <1>1, <1>2, <1>3, Tasks, Quiet
<1> QED
  BY <1>4, <1>6, <1>7, <1>8 DEF TasksInv

\* task_lookup_search() finds the key if and only if it is in one of its buckets.
LEMMA LookupSearchStep ==
    ASSUME TasksInv, RunTask(task_lookup_search)
    PROVE  TasksInv'
<1>0. TasksTypeOK /\ CountInv /\ KeyInv /\ MemberInv
  BY DEF TasksInv
<1>1. /\ current = task_lookup_search /\ current' = task_lookup_done
      /\ store' \in [Vars -> Int] /\ Kept({member}) /\ KeptBuckets
      /\ store'[member] = flag(IsMember(store))
  BY <1>0, LookupSearchRuns
<1>2. current = 11 /\ current' = 12
  BY <1>1, Tasks
<1>3. /\ store'[insert_count] = store[insert_count] /\ store'[inserted_count] = store[inserted_count]
      /\ store'[lookup_count] = store[lookup_count] /\ store'[member_count] = store[member_count]
      /\ store'[key] = store[key]
  BY <1>1, Values, Names
<1>4. LookingUp /\ ~Inserting /\ LookingUp' /\ ~Inserting'
  BY <1>2, Tasks DEF Inserting, LookingUp, Calculating
<1>5. TasksTypeOK'
  <2>1. \A v \in {member} : store'[v] \in Word
    BY <1>1, SmallWords DEF flag
  <2> QED
    BY <1>0, <1>1, <1>2, <2>1, Tasks, TypeKept
<1>6. CountInv'
  BY <1>0, <1>2, <1>3, <1>4, Tasks DEF CountInv
<1>7. turn = store[lookup_count] /\ turn' = turn /\ turn \in 0..(NUM_INSERTS - 1)
  <2>1. turn = store[lookup_count] /\ turn' = store'[lookup_count]
    BY <1>4 DEF turn
  <2> QED
    BY <1>0, <1>3, <1>4, <2>1, Phases
<1>8. KeyInv'
  BY <1>0, <1>2, <1>3, <1>7, Tasks DEF KeyInv, Calculating
<1>9. Known' = Known
  BY <1>2, <1>3, Tasks DEF Known
<1>10. HomeInv'
  BY <1>1, <1>2, <1>9, Tasks, HomeKept DEF TasksInv
<1>11. OccupiedIsInserted'
  BY <1>1, <1>2, <1>3, Tasks, OccupiedSame DEF TasksInv
<1>12. IsMember(store) <=> Found(store[lookup_count] + 1)
  <2> DEFINE k == K[turn + 1]
  <2>1. k \in Word
    BY <1>7, Keys, Counts
  <2>2. /\ store[fingerprint] = hash_to_fingerprint(k) /\ store[index1] = hash_to_index(k)
        /\ store[index2] = xor(store[index1], hash_to_index(store[fingerprint]))
    BY <1>0, <1>2, Tasks DEF KeyInv, Calculating
  <2>3. Found(store[lookup_count] + 1) <=> \E i \in Buckets(k) : store[filter(i)] = hash_to_fingerprint(k)
    BY <1>7 DEF Found
  <2> HIDE DEF k
  <2>4. Buckets(k) = {store[index1], store[index2]}
    BY <2>1, <2>2, BucketsAre
  <2> QED
    BY <2>2, <2>3, <2>4 DEF IsMember
<1>13. MemberInv'
  <2>1. store[lookup_count] \in Nat /\ store[lookup_count] <= NUM_INSERTS /\ store[lookup_count] + 1 \in 0..NUM_INSERTS
    BY <1>7, Counts
  <2>2. {n \in 1..store[lookup_count] : Found(n)'} = {n \in 1..store[lookup_count] : Found(n)}
    BY <1>1, <2>1, FoundSame
  <2>3. Found(store[lookup_count] + 1)' <=> Found(store[lookup_count] + 1)
    <3> DEFINE n == store[lookup_count] + 1
    <3>1. \A c \in 0..NUM_INSERTS : Found(c)' <=> Found(c)
      BY <1>1, FoundKept
    <3>2. Found(store[lookup_count] + 1)' <=> \E c \in {n} : Found(c)'
      BY <1>3 DEF Found
    <3> HIDE DEF n
    <3>3. (\E c \in {n} : Found(c)') <=> Found(n)
      BY <2>1, <3>1 DEF n
    <3> QED
      BY <3>2, <3>3 DEF n
  <2>4. store'[member_count] = Cardinality({n \in 1..store'[lookup_count] : Found(n)'})
    BY <1>0, <1>3, <2>2 DEF MemberInv
  <2>5. store'[member] = flag(Found(store[lookup_count] + 1)')
    BY <1>1, <1>12, <2>3 DEF flag
  <2> QED
    BY <1>3, <2>4, <2>5 DEF MemberInv, flag
<1> QED
  BY <1>5, <1>6, <1>8, <1>10, <1>11, <1>13 DEF TasksInv

\* task_lookup_done() counts what was found.
LEMMA LookupDoneStep ==
    ASSUME TasksInv, RunTask(task_lookup_done)
    PROVE  TasksInv'
<1>0. TasksTypeOK /\ CountInv /\ KeyInv /\ MemberInv
  BY DEF TasksInv
<1>1. /\ current = task_lookup_done /\ store' \in [Vars -> Int] /\ KeptBuckets
      /\ Kept({lookup_count, member_count, next_task, key})
      /\ store'[lookup_count] = store[lookup_count] + 1
      /\ store'[member_count] = store[member_count] + store[member]
      /\ \/ /\ store[lookup_count] + 1 < NUM_INSERTS /\ current' = task_generate_key
            /\ store'[next_task] = task_lookup /\ store'[key] = store[key]
         \/ /\ ~(store[lookup_count] + 1 < NUM_INSERTS) /\ current' = task_print_stats
            /\ store'[next_task] = store[next_task] /\ store'[key] = store[key]
  BY <1>0, LookupDoneRuns
<1>2. current = 12 /\ store'[key] = store[key]
  BY <1>1, Tasks
<1>3. store'[insert_count] = store[insert_count] /\ store'[inserted_count] = store[inserted_count]
  BY <1>1, Values, Names
<1>4. LookingUp /\ ~Inserting
  BY <1>2, Tasks DEF Inserting, LookingUp, Calculating
<1>5. /\ turn = store[lookup_count] /\ store[lookup_count] \in 0..(NUM_INSERTS - 1)
      /\ store[insert_count] = NUM_INSERTS /\ store[member_count] <= store[lookup_count]
      /\ store[inserted_count] <= store[insert_count] /\ store[member_count] \in Nat
      /\ store[member] = flag(Found(store[lookup_count] + 1))
  <2>1. store[member_count] \in Nat
    BY <1>0, Memory, VarsAre
  <2>2. turn = store[lookup_count] /\ turn \in 0..(NUM_INSERTS - 1)
    BY <1>0, <1>4, Phases
  <2>3. store[insert_count] = NUM_INSERTS /\ store[member_count] <= store[lookup_count]
        /\ store[inserted_count] <= store[insert_count]
    BY <1>0, <1>4 DEF CountInv
  <2>4. store[member] = flag(Found(store[lookup_count] + 1))
    BY <1>0, <1>1 DEF MemberInv
  <2> QED
    BY <2>1, <2>2, <2>3, <2>4
<1>6. store[member] \in {0, 1}
  BY <1>5 DEF flag
<1>7. \/ store[lookup_count] + 1 < NUM_INSERTS /\ current' = 2 /\ store'[next_task] = 10
      \/ store[lookup_count] + 1 = NUM_INSERTS /\ current' = 13 /\ store'[next_task] = store[next_task]
  BY <1>1, <1>5, Counts, Tasks
<1>8. /\ current' = 2 => LookingUp' /\ ~Inserting'
      /\ current' = 13 => ~LookingUp' /\ ~Inserting'
  BY <1>7, Tasks DEF Inserting, LookingUp, Calculating
<1>9. store'[member_count] \in Nat /\ store'[member_count] <= store'[lookup_count] /\ store'[lookup_count] \in 1..NUM_INSERTS
  BY <1>1, <1>5, <1>6, Counts
<1>10. TasksTypeOK'
  <2>1. store'[lookup_count] \in Word /\ store'[member_count] \in Word
    <3>1. store'[lookup_count] \in Nat /\ store'[lookup_count] <= NUM_INSERTS /\ store'[member_count] <= NUM_INSERTS
      BY <1>9, Counts
    <3> QED
      BY <1>9, <3>1, CountsAreWords
  <2>2. store'[next_task] \in Word /\ store'[key] \in Word
    BY <1>0, <1>2, <1>7, Memory, VarsAre, SmallWords
  <2>3. \A v \in {lookup_count, member_count, next_task, key} : store'[v] \in Word
    BY <2>1, <2>2
  <2>4. current' \in entry_task..task_done
    BY <1>7, Tasks
  <2> QED
    BY <1>0, <1>1, <2>3, <2>4, TypeKept
<1>11. CountInv'
  <2>1. current' = 13 => store'[lookup_count] = NUM_INSERTS
    BY <1>1, <1>7
  <2>2. current' = 2 => store'[lookup_count] < NUM_INSERTS
    BY <1>1, <1>7
  <2> QED
    BY <1>3, <1>5, <1>7, <1>8, <1>9, <2>1, <2>2, Tasks DEF CountInv
<1>12. KeyInv'
  <2>1. current' = 2 => turn' = turn + 1
    BY <1>1, <1>5, <1>8 DEF turn
  <2>2. store[key] = K[turn + 1]
    BY <1>0, <1>2, Tasks DEF KeyInv
  <2> QED
    BY <1>2, <1>7, <2>1, <2>2, Tasks DEF KeyInv, Calculating
<1>13. Known' = Known
  BY <1>2, <1>3, <1>7, Tasks DEF Known
<1>14. HomeInv'
  BY <1>1, <1>7, <1>13, Tasks, HomeKept DEF TasksInv
<1>15. OccupiedIsInserted'
  BY <1>1, <1>2, <1>3, <1>7, Tasks, OccupiedSame DEF TasksInv
<1>16. MemberInv'
  <2> DEFINE n == store[lookup_count]
             P == {c \in 1..n : Found(c)}
             Q == {c \in 1..(n + 1) : Found(c)}
  <2>1. n \in Nat /\ n + 1 \in Nat /\ n + 1 <= NUM_INSERTS
    BY <1>5, Counts
  <2>2. IsFiniteSet(P) /\ Cardinality(P) = store[member_count]
    <3>1. IsFiniteSet(1..n)
      BY <2>1, FS_Interval
    <3> QED
      BY <1>0, <3>1, FS_Subset DEF MemberInv
  <2>3. {c \in 1..(n + 1) : Found(c)'} = Q
    BY <1>1, <2>1, FoundSame
  <2>4. n + 1 \notin P /\ Q = IF Found(n + 1) THEN P \cup {n + 1} ELSE P
    <3>1. \A c \in 1..(n + 1) : c \in 1..n \/ c = n + 1
      BY <2>1
    <3>2. n + 1 \in 1..(n + 1) /\ n + 1 \notin 1..n /\ 1..n \subseteq 1..(n + 1)
      BY <2>1
    <3> HIDE DEF n
    <3> QED
      BY <3>1, <3>2
  <2>5. Cardinality(P \cup {n + 1}) = Cardinality(P) + 1
    <3> HIDE DEF P
    <3> QED
      BY <2>2, <2>4, FS_AddElement
  <2>6. store[member] = IF Found(n + 1) THEN 1 ELSE 0
    BY <1>5 DEF flag
  <2> HIDE DEF P, Q
  <2>7. Cardinality(Q) = store[member_count] + store[member]
    <3>1. CASE Found(n + 1)
      BY <2>2, <2>4, <2>5, <2>6, <3>1
    <3>2. CASE ~Found(n + 1)
      BY <1>5, <2>2, <2>4, <2>6, <3>2
    <3> QED
      BY <3>1, <3>2
  <2>8. store'[member_count] = Cardinality({c \in 1..store'[lookup_count] : Found(c)'})
    BY <1>1, <2>3, <2>7
  <2> QED
    BY <1>7, <2>8, Tasks DEF MemberInv
<1> QED
  BY <1>10, <1>11, <1>12, <1>14, <1>15, <1>16 DEF TasksInv

\* task_insert_done() counts an insertion, and whether it succeeded.
LEMMA InsertDoneStep ==
    ASSUME TasksInv, RunTask(task_insert_done)
    PROVE  TasksInv'
<1>0. TasksTypeOK /\ CountInv /\ KeyInv
  BY DEF TasksInv
<1>1. /\ current = task_insert_done /\ store' \in [Vars -> Int] /\ KeptBuckets
      /\ Kept({insert_count, inserted_count, next_task, key})
      /\ store'[insert_count] = store[insert_count] + 1
      /\ store'[inserted_count] = store[inserted_count] + store[success]
      /\ \/ /\ store[insert_count] + 1 < NUM_INSERTS /\ current' = task_generate_key
            /\ store'[next_task] = task_insert /\ store'[key] = store[key]
         \/ /\ ~(store[insert_count] + 1 < NUM_INSERTS) /\ current' = task_generate_key
            /\ store'[next_task] = task_lookup /\ store'[key] = init_key
  BY <1>0, InsertDoneRuns
<1>2. current = 9 /\ current' = 2
  BY <1>1, Tasks
<1>3. store'[lookup_count] = store[lookup_count] /\ store'[member_count] = store[member_count]
  BY <1>1, Values, Names
<1>4. Inserting /\ ~LookingUp
  BY <1>2, Tasks DEF Inserting, LookingUp, Calculating
<1>5. /\ turn = store[insert_count] /\ store[insert_count] \in 0..(NUM_INSERTS - 1)
      /\ store[lookup_count] = 0 /\ store[member_count] = 0 /\ store[success] \in {0, 1}
      /\ store[inserted_count] <= store[insert_count] /\ store[inserted_count] \in Nat
  <2>1. store[inserted_count] \in Nat
    BY <1>0, Memory, VarsAre
  <2>2. turn = store[insert_count] /\ turn \in 0..(NUM_INSERTS - 1)
    BY <1>0, <1>4, Phases
  <2>3. store[lookup_count] = 0 /\ store[member_count] = 0 /\ store[inserted_count] <= store[insert_count]
    BY <1>0, <1>4 DEF CountInv
  <2>4. store[success] \in {0, 1}
    BY <1>0, <1>1 DEF CountInv
  <2> QED
    BY <2>1, <2>2, <2>3, <2>4
<1>6. \/ store[insert_count] + 1 < NUM_INSERTS /\ store'[next_task] = 3 /\ store'[key] = store[key]
      \/ store[insert_count] + 1 = NUM_INSERTS /\ store'[next_task] = 10 /\ store'[key] = 1
  BY <1>1, <1>5, Counts, Tasks DEF init_key
<1>7. /\ store'[next_task] = 3 => Inserting' /\ ~LookingUp'
      /\ store'[next_task] = 10 => LookingUp' /\ ~Inserting'
  BY <1>2, Tasks DEF Inserting, LookingUp, Calculating
<1>8. store'[inserted_count] \in Nat /\ store'[inserted_count] <= store'[insert_count] /\ store'[insert_count] \in 1..NUM_INSERTS
  BY <1>1, <1>5, Counts
<1>9. TasksTypeOK'
  <2>1. store'[insert_count] \in Word /\ store'[inserted_count] \in Word
    <3>1. store'[insert_count] \in Nat /\ store'[insert_count] <= NUM_INSERTS /\ store'[inserted_count] <= NUM_INSERTS
      BY <1>8, Counts
    <3> QED
      BY <1>8, <3>1, CountsAreWords
  <2>2. store'[next_task] \in Word /\ store'[key] \in Word
    BY <1>0, <1>6, Memory, VarsAre, SmallWords
  <2>3. \A v \in {insert_count, inserted_count, next_task, key} : store'[v] \in Word
    BY <2>1, <2>2
  <2>4. current' \in entry_task..task_done
    BY <1>2, Tasks
  <2> QED
    BY <1>0, <1>1, <2>3, <2>4, TypeKept
<1>10. CountInv'
  BY <1>1, <1>2, <1>3, <1>5, <1>6, <1>7, <1>8, Counts, Tasks DEF CountInv
<1>11. KeyInv'
  <2>1. /\ store'[next_task] = 3 => turn' = turn + 1
        /\ store'[next_task] = 10 => turn' = 0
    BY <1>1, <1>3, <1>5, <1>7 DEF turn
  <2>2. store[key] = K[turn + 1] /\ 1 = K[0]
    BY <1>0, <1>2, Keys, Tasks DEF KeyInv, init_key
  <2>3. store'[key] = K[turn']
    BY <1>6, <2>1, <2>2
  <2> QED
    BY <1>2, <2>3, Tasks DEF KeyInv, Calculating
<1>12. Known' = Known
  <2>1. Known = store[insert_count] + 1 /\ Known' = store'[insert_count] + 0
    BY <1>2, Tasks DEF Known
  <2> QED
    BY <1>1, <1>5, <2>1
<1>13. HomeInv'
  BY <1>1, <1>2, <1>12, Tasks, HomeKept DEF TasksInv
<1>14. OccupiedIsInserted'
  <2>1. Cardinality(Occupied) = store[inserted_count] + store[success]
    BY <1>1 DEF TasksInv, OccupiedIsInserted
  <2>2. store[inserted_count] + store[success] \in Int /\ store'[inserted_count] + 0 = store'[inserted_count]
    BY <1>5, <1>8
  <2> QED
    BY <1>1, <1>2, <2>1, <2>2, Tasks, OccupiedKept DEF OccupiedIsInserted
<1>15. MemberInv'
  BY <1>2, <1>3, <1>5, Tasks, MemberNone
<1> QED
  BY <1>9, <1>10, <1>11, <1>13, <1>14, <1>15 DEF TasksInv

-----------------------------------------------------------------------------
(* The steps that write a bucket.                                          *)

\* A bucket that gets the fingerprint of a key without a home is its home.
LEMMA HomeFilled ==
    ASSUME TasksTypeOK, NEW home \in [Bucket -> 0..NUM_INSERTS], IsHome(home), NEW j \in Bucket, NEW x, Filled(j, x),
           Known \in Int, Known' \in Int, Known <= Known', Known' <= NUM_INSERTS,
           NEW n \in 1..Known', Fits(n, j, x), \A b \in Bucket : home[b] # n
    PROVE  \E new \in [Bucket -> 0..NUM_INSERTS] :
               /\ IsHome(new)'
               /\ new[j] = n /\ \A b \in Bucket : b # j => new[b] = home[b]
<1> DEFINE new == [home EXCEPT ![j] = n]
<1>1. n \in 1..NUM_INSERTS /\ n # 0
  BY Counts
<1>2. new \in [Bucket -> 0..NUM_INSERTS] /\ new[j] = n /\ \A b \in Bucket : b # j => new[b] = home[b]
  BY <1>1
<1>3. x # 0
  <2>1. n \in 0..NUM_INSERTS
    BY <1>1, Counts
  <2> QED
    BY <2>1, FitsIs
<1> HIDE DEF new
<1>4. ASSUME NEW b \in Bucket
      PROVE  /\ new[b] = 0 <=> store'[filter(b)] = 0
             /\ new[b] # 0 => /\ new[b] \in 1..Known' /\ Fits(new[b], b, store'[filter(b)])
                              /\ \A c \in Bucket : new[c] = new[b] => c = b
  <2>1. CASE b = j
    BY <1>1, <1>2, <1>3, <2>1 DEF Filled
  <2>2. CASE b # j
    <3>1. new[b] = home[b] /\ store'[filter(b)] = store[filter(b)] /\ home[b] # n
      BY <1>2, <2>2 DEF Filled
    <3>2. /\ home[b] = 0 <=> store[filter(b)] = 0
          /\ home[b] # 0 => /\ home[b] \in 1..Known /\ Fits(home[b], b, store[filter(b)])
                            /\ \A c \in Bucket : home[c] = home[b] => c = b
      BY DEF IsHome
    <3>3. home[b] \in 1..Known => home[b] \in 1..Known'
      OBVIOUS
    <3>4. \A c \in Bucket : home[b] # 0 /\ new[c] = home[b] => c = b
      BY <1>2, <3>1, <3>2
    <3> QED
      BY <3>1, <3>2, <3>3, <3>4
  <2> QED
    BY <2>1, <2>2
<1>5. IsHome(new)'
  BY <1>4 DEF IsHome, Fits
<1> QED
  BY <1>2, <1>5

\* The key whose fingerprint was there has lost its home.
LEMMA HomeEvicted ==
    ASSUME TasksTypeOK, NEW home \in [Bucket -> 0..NUM_INSERTS], IsHome(home), NEW j \in Bucket, NEW x, Filled(j, x),
           Known \in Int, Known' \in Int, Known <= Known', Known' <= NUM_INSERTS,
           NEW n \in 1..Known', Fits(n, j, x), \A b \in Bucket : home[b] # n,
           store[filter(j)] # 0, store'[index1] = j, store'[fingerprint] = store[filter(j)]
    PROVE  HomeInv'
<1>1. PICK new \in [Bucket -> 0..NUM_INSERTS] :
          IsHome(new)' /\ new[j] = n /\ \A b \in Bucket : b # j => new[b] = home[b]
  BY HomeFilled
<1> DEFINE v == home[j]
<1>2. /\ v # 0 /\ v \in 1..Known /\ Fits(v, j, store[filter(j)])
      /\ \A b \in Bucket : home[b] = v => b = j
  BY DEF IsHome
<1>3. v \in 1..Known'
  BY <1>2
<1>4. v # n
  OBVIOUS
<1> HIDE DEF v
<1>5. \A b \in Bucket : new[b] # v
  BY <1>1, <1>2, <1>4 DEF v
<1>6. Fits(v, store'[index1], store'[fingerprint])
  BY <1>2
<1>7. Fits(v, store[index1], store[fingerprint])'
  BY <1>6 DEF Fits
<1> QED
  BY <1>1, <1>3, <1>5, <1>7 DEF HomeInv

\* With a home for its fingerprint every key has one.
LEMMA HomeFound ==
    ASSUME TasksTypeOK, NEW home \in [Bucket -> 0..NUM_INSERTS], IsHome(home), NEW j \in Bucket, NEW x, Filled(j, x),
           Known \in Int, Known' \in Int, Known <= Known', Known' <= NUM_INSERTS,
           NEW n \in 1..Known', Fits(n, j, x), \A b \in Bucket : home[b] # n,
           current' # task_relocate
    PROVE  HomeInv'
<1>1. PICK new \in [Bucket -> 0..NUM_INSERTS] : IsHome(new)'
  BY HomeFilled
<1> QED
  BY <1>1 DEF HomeInv

\* task_add() puts the fingerprint of the key into one of its buckets.
LEMMA AddStep ==
    ASSUME TasksInv, RunTask(task_add)
    PROVE  TasksInv'
<1>0. TasksTypeOK /\ CountInv /\ KeyInv /\ current = 7
  BY Runs, Tasks DEF TasksInv
<1> DEFINE k == K[store[insert_count] + 1]
<1>1. Inserting /\ ~LookingUp
  BY <1>0, Tasks DEF Inserting, LookingUp, Calculating
<1>2. /\ turn = store[insert_count] /\ store[insert_count] \in 0..(NUM_INSERTS - 1)
      /\ store[lookup_count] = 0 /\ store[member_count] = 0
      /\ store[inserted_count] <= store[insert_count] /\ store[inserted_count] \in Nat
  <2>1. turn = store[insert_count] /\ turn \in 0..(NUM_INSERTS - 1)
    BY <1>0, <1>1, Phases
  <2>2. store[lookup_count] = 0 /\ store[member_count] = 0 /\ store[inserted_count] <= store[insert_count]
    BY <1>0, <1>1 DEF CountInv
  <2>3. store[inserted_count] \in Nat
    BY <1>0, Memory, VarsAre
  <2> QED
    BY <2>1, <2>2, <2>3
<1>3. k \in Word
  BY <1>2, Keys, Counts
<1>4. /\ store[key] = k /\ store[fingerprint] = hash_to_fingerprint(k) /\ store[index1] = hash_to_index(k)
      /\ store[index2] = xor(store[index1], hash_to_index(store[fingerprint]))
  BY <1>0, <1>2, Tasks DEF KeyInv, Calculating
<1>5. Buckets(k) = {store[index1], store[index2]} /\ Buckets(k) \subseteq Bucket
  <2> HIDE DEF k
  <2> QED
    BY <1>3, <1>4, BucketsAre
<1>6. store[index1] \in Bucket /\ store[index2] \in Bucket
  BY <1>5
<1>7. \A j \in {store[index1], store[index2]} : Fits(store[insert_count] + 1, j, store[fingerprint])
  BY <1>4, <1>5 DEF Fits
<1>8. /\ store' \in [Vars -> Int]
      /\ \/ /\ current' = task_insert_done
            /\ \E i \in {store[index1], store[index2]} : store[filter(i)] = 0 /\ Filled(i, store[fingerprint])
            /\ store'[success] = 1 /\ Kept({success})
         \/ /\ current' = task_relocate
            /\ \E i \in {store[index1], store[index2]} :
                   /\ store[filter(i)] # 0 /\ Filled(i, store[fingerprint])
                   /\ store'[index1] = i /\ store'[fingerprint] = store[filter(i)]
            /\ store'[relocation_count] = 0 /\ Kept({index1, fingerprint, relocation_count})
  BY <1>0, <1>6, AddRuns
<1>9. current' = 8 \/ current' = 9
  BY <1>8, Tasks
<1>10. /\ store'[insert_count] = store[insert_count] /\ store'[inserted_count] = store[inserted_count]
       /\ store'[lookup_count] = store[lookup_count] /\ store'[member_count] = store[member_count]
       /\ store'[key] = store[key]
  <2>1. CASE Kept({success})
    BY <2>1, Values, Names
  <2>2. CASE Kept({index1, fingerprint, relocation_count})
    BY <2>2, Values, Names
  <2> QED
    BY <1>8, <2>1, <2>2
<1>11. Inserting' /\ ~LookingUp'
  BY <1>9, Tasks DEF Inserting, LookingUp, Calculating
<1>12. CountInv'
  <2>1. current' = 9 => store'[success] = 1
    BY <1>8, Tasks
  <2>2. current' = 8 => store'[relocation_count] = 0
    BY <1>8, Tasks
  <2> QED
    BY <1>2, <1>9, <1>10, <1>11, <2>1, <2>2, Counts, Tasks DEF CountInv
<1>13. KeyInv'
  <2>1. turn' = store[insert_count]
    BY <1>10, <1>11 DEF turn
  <2> QED
    BY <1>4, <1>9, <1>10, <2>1, Tasks DEF KeyInv, Calculating
<1>14. MemberInv'
  BY <1>2, <1>9, <1>10, Tasks, MemberNone
<1>15. store[fingerprint] \in Word /\ store[fingerprint] # 0 /\ store[insert_count] + 1 \in 0..NUM_INSERTS
  <2>1. store[insert_count] + 1 \in 0..NUM_INSERTS
    BY <1>2, Counts
  <2> QED
    BY <1>7, <2>1, FitsIs
<1>16. Known \in Int /\ Known' \in Int /\ Known <= Known' /\ Known' <= NUM_INSERTS
       /\ store[insert_count] + 1 \in 1..Known' /\ Known = store[insert_count]
  <2>1. Known = store[insert_count] + 0 /\ Known' = store[insert_count] + 1
    BY <1>0, <1>9, <1>10, Tasks DEF Known
  <2> QED
    BY <1>2, <2>1, Counts
<1>17. PICK home \in [Bucket -> 0..NUM_INSERTS] : IsHome(home)
  BY DEF TasksInv, HomeInv
<1>18. \A b \in Bucket : home[b] # store[insert_count] + 1
  <2>1. \A b \in Bucket : home[b] = 0 \/ home[b] \in 1..Known
    BY <1>17 DEF IsHome
  <2> QED
    BY <1>2, <1>16, <2>1
<1>19. Cardinality(Occupied) = store[inserted_count]
  <2>1. Cardinality(Occupied) = store[inserted_count] + 0
    BY <1>0, Tasks DEF TasksInv, OccupiedIsInserted
  <2> QED
    BY <1>2, <2>1
<1>20. CASE current' = 9
  <2>1. PICK i \in {store[index1], store[index2]} : store[filter(i)] = 0 /\ Filled(i, store[fingerprint])
    BY <1>8, <1>20, Tasks
  <2>2. store'[success] = 1 /\ Kept({success})
    BY <1>8, <1>20, Tasks
  <2>3. i \in Bucket
    BY <1>6
  <2>4. TasksTypeOK'
    <3>1. \A v \in {success} : store'[v] \in Word
      BY <2>2, SmallWords
    <3>2. current' \in entry_task..task_done
      BY <1>20, Tasks
    <3> QED
      BY <1>0, <1>8, <1>15, <2>1, <2>2, <2>3, <3>1, <3>2, TypeFilled
  <2>5. HomeInv'
    BY <1>0, <1>7, <1>16, <1>17, <1>18, <1>20, <2>1, <2>3, Tasks, HomeFound
  <2>6. OccupiedIsInserted'
    <3>1. Cardinality(Occupied') = store[inserted_count] + 1
      BY <1>15, <1>19, <2>1, <2>3, OccupiedFilled
    <3> QED
      BY <1>10, <1>20, <2>2, <3>1, Tasks DEF OccupiedIsInserted
  <2> QED
    BY <1>12, <1>13, <1>14, <2>4, <2>5, <2>6 DEF TasksInv
<1>21. CASE current' = 8
  <2>1. PICK i \in {store[index1], store[index2]} :
            /\ store[filter(i)] # 0 /\ Filled(i, store[fingerprint])
            /\ store'[index1] = i /\ store'[fingerprint] = store[filter(i)]
    BY <1>8, <1>21, Tasks
  <2>2. store'[relocation_count] = 0 /\ Kept({index1, fingerprint, relocation_count})
    BY <1>8, <1>21, Tasks
  <2>3. i \in Bucket /\ i \in Word /\ store[filter(i)] \in Word
    BY <1>0, <1>6, Buckets16, Memory, VarsAre
  <2>4. TasksTypeOK'
    <3>1. \A v \in {index1, fingerprint, relocation_count} : store'[v] \in Word
      BY <2>1, <2>2, <2>3, SmallWords
    <3>2. current' \in entry_task..task_done
      BY <1>21, Tasks
    <3> QED
      BY <1>0, <1>8, <1>15, <2>1, <2>2, <2>3, <3>1, <3>2, TypeFilled
  <2>5. HomeInv'
    BY <1>0, <1>7, <1>16, <1>17, <1>18, <2>1, <2>3, HomeEvicted
  <2>6. OccupiedIsInserted'
    <3>1. Cardinality(Occupied') = store[inserted_count]
      BY <1>15, <1>19, <2>1, <2>3, OccupiedFilled
    <3>2. store[inserted_count] + 0 = store[inserted_count]
      BY <1>2
    <3> QED
      BY <1>10, <1>21, <3>1, <3>2, Tasks DEF OccupiedIsInserted
  <2> QED
    BY <1>12, <1>13, <1>14, <2>4, <2>5, <2>6 DEF TasksInv
<1> QED
  BY <1>9, <1>20, <1>21

\* task_relocate() puts the victim into its other bucket, or gives it up.
LEMMA RelocateStep ==
    ASSUME TasksInv, RunTask(task_relocate)
    PROVE  TasksInv'
<1>0. TasksTypeOK /\ CountInv /\ KeyInv /\ current = 8
  BY Runs, Tasks DEF TasksInv
<1>1. Inserting /\ ~LookingUp
  BY <1>0, Tasks DEF Inserting, LookingUp, Calculating
<1>2. /\ turn = store[insert_count] /\ store[insert_count] \in 0..(NUM_INSERTS - 1)
      /\ store[lookup_count] = 0 /\ store[member_count] = 0
      /\ store[inserted_count] <= store[insert_count] /\ store[inserted_count] \in Nat
  <2>1. turn = store[insert_count] /\ turn \in 0..(NUM_INSERTS - 1)
    BY <1>0, <1>1, Phases
  <2>2. store[lookup_count] = 0 /\ store[member_count] = 0 /\ store[inserted_count] <= store[insert_count]
    BY <1>0, <1>1 DEF CountInv
  <2>3. store[inserted_count] \in Nat
    BY <1>0, Memory, VarsAre
  <2> QED
    BY <2>1, <2>2, <2>3
<1>3. PICK home \in [Bucket -> 0..NUM_INSERTS] :
          /\ IsHome(home)
          /\ \E n \in 1..Known : /\ Fits(n, store[index1], store[fingerprint])
                                 /\ \A b \in Bucket : home[b] # n
  BY <1>0, Tasks DEF TasksInv, HomeInv
<1>4. PICK n \in 1..Known : Fits(n, store[index1], store[fingerprint]) /\ \A b \in Bucket : home[b] # n
  BY <1>3
<1>5. Known = store[insert_count] + 1 /\ Known \in Int /\ Known <= NUM_INSERTS /\ n \in 0..NUM_INSERTS
  <2>1. Known = store[insert_count] + 1
    BY <1>0, Tasks DEF Known
  <2>2. Known \in Int /\ Known <= NUM_INSERTS
    BY <1>2, <2>1, Counts
  <2> QED
    BY <2>1, <2>2, Counts
<1> DEFINE i == index2_victim(store)
<1>6. /\ i \in Bucket /\ store[fingerprint] \in Word /\ store[fingerprint] # 0
      /\ Fits(n, i, store[fingerprint])
  BY <1>4, <1>5, FitsIs DEF index2_victim
<1>7. /\ store' \in [Vars -> Int]
      /\ \/ /\ current' = task_insert_done
            /\ store[filter(i)] = 0 /\ Filled(i, store[fingerprint])
            /\ store'[success] = 1 /\ Kept({success})
         \/ /\ current' = task_insert_done
            /\ KeptBuckets
            /\ store'[success] = 0 /\ Kept({success})
         \/ /\ current' = task_relocate
            /\ store[filter(i)] # 0 /\ Filled(i, store[fingerprint])
            /\ store'[index1] = i /\ store'[fingerprint] = store[filter(i)]
            /\ store[relocation_count] < MAX_RELOCATIONS
            /\ store'[relocation_count] = store[relocation_count] + 1
            /\ Kept({index1, fingerprint, relocation_count})
  BY <1>0, <1>6, RelocateRuns
<1> HIDE DEF i
<1>8. current' = 8 \/ current' = 9
  BY <1>7, Tasks
<1>9. /\ store'[insert_count] = store[insert_count] /\ store'[inserted_count] = store[inserted_count]
      /\ store'[lookup_count] = store[lookup_count] /\ store'[member_count] = store[member_count]
      /\ store'[key] = store[key]
  <2>1. CASE Kept({success})
    BY <2>1, Values, Names
  <2>2. CASE Kept({index1, fingerprint, relocation_count})
    BY <2>2, Values, Names
  <2> QED
    BY <1>7, <2>1, <2>2
<1>10. Inserting' /\ ~LookingUp'
  BY <1>8, Tasks DEF Inserting, LookingUp, Calculating
<1>11. store[relocation_count] \in Nat
  BY <1>0, Memory, VarsAre
<1>12. CountInv'
  <2>1. current' = 9 => store'[success] = 1 \/ store'[success] = 0
    BY <1>7, Tasks
  <2>2. current' = 8 => store'[relocation_count] <= MAX_RELOCATIONS
    BY <1>7, <1>11, Counts, Tasks
  <2> QED
    BY <1>2, <1>8, <1>9, <1>10, <2>1, <2>2, Counts, Tasks DEF CountInv
<1>13. KeyInv'
  <2>1. turn' = turn
    BY <1>2, <1>9, <1>10 DEF turn
  <2>2. store[key] = K[turn + 1]
    BY <1>0, Tasks DEF KeyInv
  <2> QED
    BY <1>8, <1>9, <2>1, <2>2, Tasks DEF KeyInv, Calculating
<1>14. MemberInv'
  BY <1>2, <1>8, <1>9, Tasks, MemberNone
<1>15. Known' = Known
  BY <1>0, <1>8, <1>9, Tasks DEF Known
<1>16. Known' \in Int /\ Known <= Known' /\ Known' <= NUM_INSERTS /\ n \in 1..Known'
  BY <1>5, <1>15
<1>17. Cardinality(Occupied) = store[inserted_count]
  <2>1. Cardinality(Occupied) = store[inserted_count] + 0
    BY <1>0, Tasks DEF TasksInv, OccupiedIsInserted
  <2> QED
    BY <1>2, <2>1
<1>18. ASSUME current' = task_insert_done, store[filter(i)] = 0, Filled(i, store[fingerprint]),
              store'[success] = 1, Kept({success})
       PROVE  TasksInv'
  <2>1. TasksTypeOK'
    <3>1. \A v \in {success} : store'[v] \in Word
      BY <1>18, SmallWords
    <3>2. current' \in entry_task..task_done
      BY <1>18, Tasks
    <3> QED
      BY <1>0, <1>6, <1>7, <1>18, <3>1, <3>2, TypeFilled
  <2>2. HomeInv'
    BY <1>0, <1>3, <1>4, <1>5, <1>6, <1>16, <1>18, Tasks, HomeFound
  <2>3. OccupiedIsInserted'
    <3>1. Cardinality(Occupied') = store[inserted_count] + 1
      BY <1>6, <1>17, <1>18, OccupiedFilled
    <3> QED
      BY <1>9, <1>18, <3>1, Tasks DEF OccupiedIsInserted
  <2> QED
    BY <1>12, <1>13, <1>14, <2>1, <2>2, <2>3 DEF TasksInv
<1>19. ASSUME current' = task_insert_done, KeptBuckets, store'[success] = 0, Kept({success})
       PROVE  TasksInv'
  <2>1. TasksTypeOK'
    <3>1. \A v \in {success} : store'[v] \in Word
      BY <1>19, SmallWords
    <3>2. current' \in entry_task..task_done
      BY <1>19, Tasks
    <3> QED
      BY <1>0, <1>7, <1>19, <3>1, <3>2, TypeKept
  <2>2. HomeInv'
    BY <1>15, <1>19, Tasks, HomeKept DEF TasksInv
  <2>3. OccupiedIsInserted'
    <3>1. store[inserted_count] + 0 = store[inserted_count]
      BY <1>2
    <3> QED
      BY <1>9, <1>17, <1>19, <3>1, Tasks, OccupiedKept DEF OccupiedIsInserted
  <2> QED
    BY <1>12, <1>13, <1>14, <2>1, <2>2, <2>3 DEF TasksInv
<1>20. ASSUME current' = task_relocate, store[filter(i)] # 0, Filled(i, store[fingerprint]),
              store'[index1] = i, store'[fingerprint] = store[filter(i)],
              store[relocation_count] < MAX_RELOCATIONS,
              store'[relocation_count] = store[relocation_count] + 1,
              Kept({index1, fingerprint, relocation_count})
       PROVE  TasksInv'
  <2>1. i \in Word /\ store[filter(i)] \in Word
    BY <1>0, <1>6, Buckets16, Memory, VarsAre
  <2>2. store'[relocation_count] \in Word
    <3>1. store'[relocation_count] \in Nat /\ store'[relocation_count] <= MAX_RELOCATIONS
      BY <1>11, <1>20, Counts
    <3> QED
      BY <3>1, CountsAreWords
  <2>3. TasksTypeOK'
    <3>1. \A v \in {index1, fingerprint, relocation_count} : store'[v] \in Word
      BY <1>20, <2>1, <2>2
    <3>2. current' \in entry_task..task_done
      BY <1>20, Tasks
    <3> QED
      BY <1>0, <1>6, <1>7, <1>20, <3>1, <3>2, TypeFilled
  <2>4. HomeInv'
    BY <1>0, <1>3, <1>4, <1>5, <1>6, <1>16, <1>20, HomeEvicted
  <2>5. OccupiedIsInserted'
    <3>1. Cardinality(Occupied') = store[inserted_count]
      BY <1>6, <1>17, <1>20, OccupiedFilled
    <3>2. store[inserted_count] + 0 = store[inserted_count]
      BY <1>2
    <3>3. current' # task_insert_done
      BY <1>20, Tasks
    <3> QED
      BY <1>9, <3>1, <3>2, <3>3 DEF OccupiedIsInserted
  <2> QED
    BY <1>12, <1>13, <1>14, <2>3, <2>4, <2>5 DEF TasksInv
<1> QED
  BY <1>7, <1>18, <1>19, <1>20

\* So every step preserves it.
LEMMA Inductive ==
    ASSUME TasksInv, [TasksNext]_tasksVars
    PROVE  TasksInv'
<1>1. CASE UNCHANGED tasksVars
  BY <1>1, SameStep DEF tasksVars
<1>2. CASE TasksNext
  <2>1. PICK t \in entry_task..task_print_stats : RunTask(t)
    BY <1>2 DEF TasksNext
  <2>2. t \in {0, 1, 2, 3, 4, 5, 6, 7, 8, 9, 10, 11, 12, 13}
    <3>1. entry_task..task_print_stats = 0..13
      BY Tasks
    <3> QED
      BY <3>1
  <2>3. CASE t \in {0, 1, 2, 3}
    <3>1. t \in {entry_task, task_init, task_generate_key, task_insert}
      BY <2>3, Tasks
    <3> QED
      BY <2>1, <3>1, EnterStep, InitializeStep, GenerateKeyStep, InsertStep
  <2>4. CASE t \in {4, 5, 6, 7}
    <3>1. t \in {task_calc_indexes, task_calc_indexes_index_1, task_calc_indexes_index_2, task_add}
      BY <2>4, Tasks
    <3> QED
      BY <2>1, <3>1, CalcIndexesStep, CalcIndex1Step, CalcIndex2Step, AddStep
  <2>5. CASE t \in {8, 9, 10}
    <3>1. t \in {task_relocate, task_insert_done, task_lookup}
      BY <2>5, Tasks
    <3> QED
      BY <2>1, <3>1, RelocateStep, InsertDoneStep, LookupStep
  <2>6. CASE t \in {11, 12, 13}
    <3>1. t \in {task_lookup_search, task_lookup_done, task_print_stats}
      BY <2>6, Tasks
    <3> QED
      BY <2>1, <3>1, LookupSearchStep, LookupDoneStep, PrintStep
  <2> QED
    BY <2>2, <2>3, <2>4, <2>5, <2>6
<1> QED
  BY <1>1, <1>2

-----------------------------------------------------------------------------
(* What follows from the invariant.                                        *)

\* The invariant always holds: all keys are inserted, in their order, before
\* the first is looked up; every occupied bucket is the home of a key of its
\* own; and the lookups count the keys that are there.
THEOREM InvariantHolds == TasksSpec => []TasksInv
<1>1. TasksInit => TasksInv
  BY InitIs
<1>2. TasksInv /\ [TasksNext]_tasksVars => TasksInv'
  BY Inductive
<1> QED
  BY <1>1, <1>2, PTL DEF TasksSpec

\* The variables hold 16-bit words, and the task is one of those declared:
\* the counts, the indexes and the number of relocations never overflow.
THEOREM CuckooTypeCorrect == TasksSpec => []TasksTypeOK
<1>1. TasksInv => TasksTypeOK
  BY DEF TasksInv
<1> QED
  BY <1>1, InvariantHolds, PTL

\* There are as many occupied buckets as insertions reported as successful:
\* task_add() and task_relocate() neither duplicate nor drop a fingerprint
\* along a chain of relocations, except for the one that gives up.
THEOREM OccupiedAsInserted == TasksSpec => []OccupiedIsInserted
<1>1. TasksInv => OccupiedIsInserted
  BY DEF TasksInv
<1> QED
  BY <1>1, InvariantHolds, PTL

\* Different occupied buckets are the homes of different keys.
LEMMA HomesAreIn ==
    ASSUME TasksTypeOK, Known \in Int, Known <= NUM_INSERTS,
           NEW home \in [Bucket -> 0..NUM_INSERTS], IsHome(home)
    PROVE  \E f \in [Occupied -> 1..Known] :
               /\ f \in Injection(Occupied, 1..Known)
               /\ \A v \in Occupied : \E i \in Bucket :
                      v = filter(i) /\ f[v] = home[i] /\ Fits(f[v], i, store[v])
<1> DEFINE f == [v \in Occupied |-> home[CHOOSE i \in Bucket : v = filter(i)]]
<1>1. ASSUME NEW v \in Occupied
      PROVE  \E i \in Bucket : v = filter(i) /\ f[v] = home[i] /\ f[v] \in 1..Known /\ Fits(f[v], i, store[v])
                                 /\ \A j \in Bucket : home[j] = home[i] => j = i
  <2> DEFINE i == CHOOSE i \in Bucket : v = filter(i)
  <2>1. \E j \in Bucket : v = filter(j)
    BY DEF Occupied, Filter, Bucket
  <2>2. i \in Bucket /\ v = filter(i)
    BY <2>1
  <2>3. f[v] = home[i]
    OBVIOUS
  <2> HIDE DEF f, i
  <2>4. store[filter(i)] # 0
    BY <2>2 DEF Occupied
  <2>5. /\ home[i] # 0 /\ home[i] \in 1..Known /\ Fits(home[i], i, store[filter(i)])
        /\ \A j \in Bucket : home[j] = home[i] => j = i
    BY <2>2, <2>4 DEF IsHome
  <2> QED
    BY <2>2, <2>3, <2>5
<1>2. f \in [Occupied -> 1..Known]
  <2>1. f = [v \in Occupied |-> f[v]]
    OBVIOUS
  <2> HIDE DEF f
  <2> QED
    BY <1>1, <2>1
<1> HIDE DEF f
<1>3. \A u, v \in Occupied : f[u] = f[v] => u = v
  BY <1>1
<1>4. f \in Injection(Occupied, 1..Known)
  BY <1>2, <1>3 DEF Injection, IsInjective
<1> QED
  BY <1>1, <1>2, <1>4

\* As many buckets are occupied as keys were inserted, and each is the home of
\* another key: so every key has one, or is the victim's.
LEMMA KeysHaveHomes == TasksInv => NoKeyLost
<1>1. ASSUME TasksInv, Lossless PROVE
          \A n \in 1..store[insert_count] :
              \/ \E i \in Buckets(K[n]) : store[filter(i)] = hash_to_fingerprint(K[n])
              \/ /\ current = task_relocate
                 /\ store[fingerprint] = hash_to_fingerprint(K[n])
                 /\ store[index1] \in Buckets(K[n])
  <2>1. TasksTypeOK /\ CountInv /\ HomeInv /\ OccupiedIsInserted
    BY <1>1 DEF TasksInv
  <2>2. store[insert_count] \in Nat
    BY <2>1, Memory, VarsAre
  <2>3. store[insert_count] <= NUM_INSERTS /\ (current \in {task_relocate, task_insert_done} => store[insert_count] < NUM_INSERTS)
    <3>1. current \in {entry_task, task_init} => store[insert_count] = 0
      BY <2>1, VarsAre DEF CountInv, Vars
    <3>2. current \in {task_relocate, task_insert_done} => Inserting
      BY DEF Inserting
    <3> QED
      BY <2>1, <2>2, <3>1, <3>2, Counts DEF CountInv
  <2>4. Known \in Nat /\ Known <= NUM_INSERTS /\ store[insert_count] <= Known
    BY <2>2, <2>3, Counts DEF Known
  <2>5. PICK home \in [Bucket -> 0..NUM_INSERTS] :
            /\ IsHome(home)
            /\ current = task_relocate =>
                   \E n \in 1..Known : /\ Fits(n, store[index1], store[fingerprint])
                                       /\ \A i \in Bucket : home[i] # n
    BY <2>1 DEF HomeInv
  <2>6. PICK f \in [Occupied -> 1..Known] :
            /\ f \in Injection(Occupied, 1..Known)
            /\ \A v \in Occupied : \E i \in Bucket :
                   v = filter(i) /\ f[v] = home[i] /\ Fits(f[v], i, store[v])
    BY <2>1, <2>4, <2>5, HomesAreIn
  <2>7. Cardinality(Occupied) = IF current = task_relocate THEN Known - 1 ELSE Known
    <3>1. store[inserted_count] = store[insert_count] /\ (current = task_insert_done => store[success] = 1)
      BY <1>1 DEF Lossless
    <3>2. Cardinality(Occupied) = store[insert_count] + (IF current = task_insert_done THEN 1 ELSE 0)
      BY <2>1, <3>1 DEF OccupiedIsInserted
    <3>3. Known = store[insert_count] + (IF current \in {task_relocate, task_insert_done} THEN 1 ELSE 0)
      BY DEF Known
    <3>4. task_relocate = 8 /\ task_insert_done = 9
      BY Tasks
    <3> QED
      BY <2>2, <3>2, <3>3, <3>4
  <2>8. IsFiniteSet(1..Known) /\ Cardinality(1..Known) = Known
    BY <2>4, FS_Interval
  <2>9. ASSUME NEW n \in 1..Known, NEW v \in Occupied, f[v] = n
        PROVE  \E i \in Buckets(K[n]) : store[filter(i)] = hash_to_fingerprint(K[n])
    BY <2>6, <2>9 DEF Fits
  <2>10. CASE current # task_relocate
    <3>1. Cardinality(1..Known) = Cardinality(Occupied)
      BY <2>7, <2>8, <2>10
    <3>2. f \in Surjection(Occupied, 1..Known)
      BY <2>6, <2>8, <3>1, OccupiedFinite, FS_Injection
    <3>3. \A n \in 1..Known : \E v \in Occupied : f[v] = n
      BY <3>2 DEF Surjection
    <3>4. \A n \in 1..store[insert_count] : n \in 1..Known
      BY <2>2, <2>4
    <3> QED
      BY <2>9, <3>3, <3>4
  <2>11. CASE current = task_relocate
    <3>1. PICK victim \in 1..Known : /\ Fits(victim, store[index1], store[fingerprint])
                                     /\ \A i \in Bucket : home[i] # victim
      BY <2>5, <2>11
    <3> DEFINE Housed == (1..Known) \ {victim}
    <3>2. IsFiniteSet(Housed) /\ Cardinality(Housed) = Known - 1
      BY <2>8, FS_RemoveElement
    <3>3. \A v \in Occupied : f[v] \in Housed
      BY <2>6, <3>1
    <3> HIDE DEF Housed
    <3>4. f \in Injection(Occupied, Housed)
      BY <2>6, <3>3 DEF Injection
    <3>5. f \in Surjection(Occupied, Housed)
      BY <2>7, <2>11, <3>2, <3>4, OccupiedFinite, FS_Injection
    <3>6. \A n \in Housed : \E v \in Occupied : f[v] = n
      BY <3>5 DEF Surjection
    <3>7. \A n \in 1..store[insert_count] : n \in 1..Known /\ (n = victim \/ n \in Housed)
      BY <2>2, <2>4 DEF Housed
    <3>8. store[fingerprint] = hash_to_fingerprint(K[victim]) /\ store[index1] \in Buckets(K[victim])
      BY <3>1 DEF Fits
    <3> QED
      BY <2>9, <2>11, <3>6, <3>7, <3>8
  <2> QED
    BY <2>10, <2>11
<1> QED
  BY <1>1 DEF NoKeyLost

\* While no insertion has failed, a lookup of a key inserted so far finds its
\* fingerprint in one of the two buckets it examines, unless the fingerprint
\* is the victim on its way out of one of them: there are as many occupied
\* buckets as keys, and each is the home of another one.
THEOREM NoKeyIsLost == TasksSpec => []NoKeyLost
BY KeysHaveHomes, InvariantHolds, PTL

\* The keys that have a home at the end are those the lookups count.
LEMMA HomesAreFound == TasksInv => NoFalseNegatives
<1>1. ASSUME TasksInv, current = task_done PROVE store[member_count] >= store[inserted_count]
  <2>1. TasksTypeOK /\ CountInv /\ HomeInv /\ OccupiedIsInserted /\ MemberInv
    BY <1>1 DEF TasksInv
  <2>2. store[inserted_count] \in Nat /\ store[member_count] \in Nat
    BY <2>1, Memory, VarsAre
  <2>3. store[insert_count] = NUM_INSERTS /\ store[lookup_count] = NUM_INSERTS
    BY <1>1, <2>1 DEF CountInv
  <2>4. Known = NUM_INSERTS /\ Known \in Int /\ Known <= NUM_INSERTS
    <3>1. Known = NUM_INSERTS + 0
      BY <1>1, <2>3, Tasks DEF Known
    <3> QED
      BY <3>1, Counts
  <2>5. PICK home \in [Bucket -> 0..NUM_INSERTS] : IsHome(home)
    BY <2>1 DEF HomeInv
  <2>6. PICK f \in [Occupied -> 1..Known] :
            /\ f \in Injection(Occupied, 1..Known)
            /\ \A v \in Occupied : \E i \in Bucket :
                   v = filter(i) /\ f[v] = home[i] /\ Fits(f[v], i, store[v])
    BY <2>1, <2>4, <2>5, HomesAreIn
  <2> DEFINE There == {n \in 1..NUM_INSERTS : Found(n)}
  <2>7. \A v \in Occupied : f[v] \in There
    BY <2>4, <2>6 DEF Found, Fits
  <2>8. IsFiniteSet(There) /\ Cardinality(There) = store[member_count]
    <3>1. IsFiniteSet(1..NUM_INSERTS)
      BY Counts, FS_Interval
    <3>2. IsFiniteSet(There)
      BY <3>1, FS_Subset
    <3> QED
      BY <2>1, <2>3, <3>2 DEF MemberInv
  <2> HIDE DEF There
  <2>9. f \in Injection(Occupied, There)
    BY <2>6, <2>7 DEF Injection
  <2>10. Cardinality(Occupied) <= Cardinality(There)
    BY <2>8, <2>9, OccupiedFinite, FS_Injection
  <2>11. Cardinality(Occupied) = store[inserted_count] + 0
    BY <1>1, <2>1, Tasks DEF OccupiedIsInserted
  <2> QED
    BY <2>2, <2>8, <2>10, <2>11
<1> QED
  BY <1>1 DEF NoFalseNegatives

\* At the end at least as many keys are found as were inserted with success:
\* a lookup fails only for a key whose insertion, or that of a key after it,
\* gave up.
THEOREM NoneIsMissed == TasksSpec => []NoFalseNegatives
BY HomesAreFound, InvariantHolds, PTL

=============================================================================
