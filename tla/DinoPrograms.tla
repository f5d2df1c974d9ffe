---------------------------- MODULE DinoPrograms ----------------------------
(***************************************************************************)
(* The applications on DINO under power failures.  rsa_lower is the RSA    *)
(* application with its blocks at lower addresses than qxn, the order of   *)
(* their declarations; rsa is the same program with qxn below them.        *)
(***************************************************************************)
EXTENDS Integers, Sequences

CONSTANTS
    SEED, ITER,                                 \* of the bit counts
    NUM_LETTERS, DICT_SIZE, BLOCK_SIZE,         \* of the compressed log
    MODEL_SIZE, SAMPLES_TO_COLLECT,             \* of activity recognition
    NUM_BUCKETS, NUM_KEYS, MAX_RELOCATIONS,     \* of the cuckoo filter
    Program

VARIABLES program, at, vol, nv, copies, restored, attempt, begun

Ar == INSTANCE ArDino
Bc == INSTANCE BitCounts
Blowfish == INSTANCE BlowfishDino
Cem == INSTANCE CemDino
Cuckoo == INSTANCE CuckooDino
Rsa == INSTANCE RsaDino

Start(p) == CASE p = "ar"        -> Ar!Start
              [] p = "bc"        -> Bc!Start
              [] p = "blowfish"  -> Blowfish!Start
              [] p = "cem"       -> Cem!Start
              [] p = "cuckoo"    -> Cuckoo!Start
              [] p = "rsa"       -> Rsa!Start(Rsa!plaintext, FALSE)
              [] p = "rsa_lower" -> Rsa!Start(Rsa!plaintext, TRUE)

Segment(p, b, locals, m, r) == CASE p = "ar"       -> Ar!Segment(b, locals, m)
                                 [] p = "bc"       -> Bc!Segment(b, locals, m)
                                 [] p = "blowfish" -> Blowfish!Segment(b, locals, m)
                                 [] p = "cem"      -> Cem!Segment(b, locals, m)
                                 [] p = "cuckoo"   -> Cuckoo!Segment(b, locals, m, r)
                                 [] OTHER          -> Rsa!Segment(b, locals, m, r)

Versioned(p, b, locals) == CASE p = "ar"                    -> Ar!Versioned(b)
                             [] p \in {"bc", "blowfish"}    -> {}
                             [] p = "cem"                   -> Cem!Versioned(b)
                             [] p = "cuckoo"                -> Cuckoo!Versioned(b, locals)
                             [] OTHER                       -> Rsa!Versioned(b, locals)

Unrestored(p) == IF p \in {"rsa", "rsa_lower"} THEN Rsa!Unrestored ELSE {}

\* rand() of the filter; in RSA, what is read of a number below its digits.
Random(p, b) == IF <<p, b>> \in {<<"cuckoo", "TASK_INSERT_UPDATE">>, <<"rsa", "REDUCE_NORMALIZABLE">>,
                                 <<"rsa_lower", "REDUCE_NORMALIZABLE">>} THEN {0, 1} ELSE {0}

INSTANCE Dino
-----------------------------------------------------------------------------
\* However often the code between two boundaries starts over, it has the effect
\* of one attempt: every variable it reads before it writes it has a copy at the
\* boundary.  TASK_PRINT of the equipment monitor, which zeroes the counts it has
\* printed by and has no copies of them, is left out; so a second attempt at it
\* prints an empty block.
SegmentsAreAtomic == <<program, at>> # <<"cem", "TASK_PRINT">> => SegmentIsAtomic

\* The programs print what they print without failures, src/golden_result; the
\* equipment monitor does so unless its TASK_PRINT has started over.
GoldenResult ==
    Finished =>
        CASE program = "ar"       -> nv[Ar!printed] = Ar!golden[2]
          [] program = "bc"       -> nv["out"] = Bc!golden
          [] program = "blowfish" -> attempt.vol.out = Blowfish!golden
          [] program = "cem"      -> restored \/ nv[Cem!printed] = <<Cem!golden.data, Cem!golden.sample_count>>
          [] program = "cuckoo"   -> /\ Cuckoo!IsGoldenFilter(nv[Cuckoo!printed].filter)
                                     /\ nv[Cuckoo!printed].inserted = Cuckoo!golden_inserts
                                     /\ nv[Cuckoo!printed].members = Cuckoo!golden_inserts
          [] program = "rsa"      -> Rsa!Prints(Rsa!Printed(nv), Rsa!golden)
          [] OTHER                -> TRUE

\* RSA prints the golden cyphertext wherever the linker places its numbers.
CyphertextIsGolden ==
    Finished /\ program \in {"rsa", "rsa_lower"} => Rsa!Prints(Rsa!Printed(nv), Rsa!golden)
=============================================================================
