----------------------------- MODULE MCPrograms -----------------------------
(***************************************************************************)
(* The applications: on Alpaca and on Chain, run task by task, as the      *)
(* runtimes see to; on DINO, where the power fails between any two stores  *)
(* (DinoPrograms); and the cuckoo filter on Alpaca a second time, with so  *)
(* few buckets that insertions relocate, cycle and fail.                   *)
(*                                                                         *)
(* That one and the equipment monitor on Alpaca are extended here, so that *)
(* their invariants are properties of this module under their own names;   *)
(* they keep their variables, store and current, curr, nvm and printed,    *)
(* and sizes, NUM_BUCKETS and so on.  The others are instances.            *)
(***************************************************************************)
EXTENDS CuckooTasks, Cem

CONSTANTS
    SEED, ITER,                             \* of the bit counts
    GOLDEN_BUCKETS, GOLDEN_INSERTS, GOLDEN_RELOCATIONS,  \* of the cuckoo filter
    MODEL_SIZE, SAMPLES_TO_COLLECT,         \* of activity recognition
    Uninitialized,                          \* see BlowfishChain
    Program                                 \* those on DINO

VARIABLES
    program,
    PLAINTEXT,
    task, mem, time, chan, out,                         \* on Alpaca and Chain
    at, vol, nv, copies, restored, attempt, begun       \* on DINO

taskVars == <<task, mem, time, chan, out>>
dinoVars == <<at, vol, nv, copies, restored, attempt, begun>>
extendedVars == <<tasksVars, cemVars>>
programsVars == <<program, PLAINTEXT, taskVars, dinoVars, extendedVars>>

BcOnAlpaca == INSTANCE Bitcount
BcOnChain == INSTANCE BitcountChain
CemOnChain == INSTANCE CemChain
ArOnAlpaca == INSTANCE Ar
ArOnChain == INSTANCE ArChain
RsaOnAlpaca == INSTANCE Rsa
RsaOnChain == INSTANCE RsaChain
BlowfishOnAlpaca == INSTANCE Blowfish
BlowfishOnChain == INSTANCE BlowfishChain
CuckooOnAlpaca == INSTANCE CuckooTasks
    WITH current <- task, store <- mem,
         NUM_BUCKETS <- GOLDEN_BUCKETS, NUM_INSERTS <- GOLDEN_INSERTS, MAX_RELOCATIONS <- GOLDEN_RELOCATIONS
CuckooOnChain == INSTANCE CuckooChain
    WITH NUM_BUCKETS <- GOLDEN_BUCKETS, NUM_INSERTS <- GOLDEN_INSERTS, MAX_RELOCATIONS <- GOLDEN_RELOCATIONS
OnDino == INSTANCE DinoPrograms
    WITH NUM_BUCKETS <- GOLDEN_BUCKETS, NUM_KEYS <- GOLDEN_INSERTS, MAX_RELOCATIONS <- GOLDEN_RELOCATIONS

\* The sizes are those the theorems of CemProofs are about.
ASSUME LogFits == LogFitsDictionary

\* The filter at its own size (CuckooOnAlpaca!TasksInit; TLC takes Filter to be the
\* small one everywhere).
CuckooStart ==
    /\ mem = [v \in {filter(i) : i \in 0..GOLDEN_BUCKETS-1} \cup Scalars |-> 0]
    /\ task = entry_task

NoText == PLAINTEXT = RsaOnAlpaca!plaintext
NoChannels == time = 0 /\ chan = <<>>
NoMemory == mem = <<>>
NoOutput == out = <<>>

ApplicationsInit ==
        \/ program = "bc_alpaca" /\ BcOnAlpaca!Init /\ NoChannels /\ NoText
        \/ program = "bc_chain" /\ BcOnChain!Init /\ NoMemory /\ NoText
        \/ program = "cem_chain" /\ CemOnChain!Init /\ NoMemory /\ NoText
        \/ program = "ar_alpaca" /\ ArOnAlpaca!Init /\ NoChannels /\ NoText
        \/ program = "ar_chain" /\ ArOnChain!Init /\ NoMemory /\ NoText
        \/ program = "rsa_alpaca" /\ RsaOnAlpaca!Init /\ NoChannels
        \/ program = "rsa_chain" /\ RsaOnChain!Init /\ NoMemory
        \/ program = "blowfish_alpaca" /\ BlowfishOnAlpaca!Init /\ NoChannels /\ NoText
        \/ program = "blowfish_chain" /\ BlowfishOnChain!Init /\ NoMemory /\ NoText
        \/ program = "cuckoo_alpaca" /\ CuckooStart /\ NoChannels /\ NoText /\ NoOutput
        \/ program = "cuckoo_chain" /\ CuckooOnChain!Init /\ NoMemory /\ NoText

NoTasks == task = "none" /\ NoMemory /\ NoChannels /\ NoOutput
NoSegments == /\ at = "none" /\ vol = <<>> /\ nv = <<>> /\ copies = <<>>
              /\ restored = FALSE /\ attempt = <<>> /\ begun = <<>>

ProgramsInit ==
    /\ TasksInit /\ CemInit
    /\ \/ ApplicationsInit /\ NoSegments
       \/ OnDino!Init /\ NoText /\ NoTasks
       \/ program \in {"cuckoo_crowded", "cem_alpaca"} /\ NoText /\ NoTasks /\ NoSegments

Alpaca(p, Step) == program = p /\ Step /\ UNCHANGED <<program, PLAINTEXT, time, chan, dinoVars, extendedVars>>
Chain(p, Step) == program = p /\ Step /\ UNCHANGED <<program, PLAINTEXT, mem, dinoVars, extendedVars>>

Extended == UNCHANGED <<program, PLAINTEXT, taskVars, dinoVars>>

ProgramsNext ==
        \/ Alpaca("bc_alpaca", BcOnAlpaca!Next)
        \/ Chain("bc_chain", BcOnChain!Next)
        \/ Chain("cem_chain", CemOnChain!Next)
        \/ Alpaca("ar_alpaca", ArOnAlpaca!Next)
        \/ Chain("ar_chain", ArOnChain!Next)
        \/ Alpaca("rsa_alpaca", RsaOnAlpaca!Next)
        \/ Chain("rsa_chain", RsaOnChain!Next)
        \/ Alpaca("blowfish_alpaca", BlowfishOnAlpaca!Next)
        \/ Chain("blowfish_chain", BlowfishOnChain!Next)
        \/ Alpaca("cuckoo_alpaca", CuckooOnAlpaca!TasksNext /\ UNCHANGED out)
        \/ Chain("cuckoo_chain", CuckooOnChain!Next)
        \/ program \in Program /\ OnDino!Next /\ UNCHANGED <<PLAINTEXT, taskVars, extendedVars>>
        \/ program = "cuckoo_crowded" /\ TasksNext /\ Extended /\ UNCHANGED cemVars
        \/ program = "cem_alpaca" /\ CemNext /\ Extended /\ UNCHANGED tasksVars

\* Programs on Alpaca and Chain go on until they end.  Where the Blowfish
\* application ends is not asked: its steps take TLC too long to be tried twice.
AskedToEnd == program \notin Program \cup {"blowfish_alpaca", "blowfish_chain"}

Fairness == WF_programsVars(AskedToEnd /\ ProgramsNext)

ProgramsSpec == ProgramsInit /\ [][ProgramsNext]_programsVars /\ Fairness
-----------------------------------------------------------------------------
Ended == CASE program = "cuckoo_crowded" -> current = task_done
           [] program = "cuckoo_alpaca"  -> task = task_done
           [] program = "cem_alpaca"     -> curr = "exit"
           [] OTHER                      -> task = "exit"

\* Every program prints the golden result of its application, which are those
\* of the uninterrupted C programs: src/golden_result.
GoldenResult ==
    Ended =>
        CASE program \in {"bc_alpaca", "bc_chain"}   -> out = BcOnAlpaca!golden
          [] program = "cem_alpaca"                  -> printed = golden
          [] program = "cem_chain"                   -> out = golden
          [] program \in {"ar_alpaca", "ar_chain"}   -> out = ArOnAlpaca!golden
          [] program \in {"rsa_alpaca", "rsa_chain"} ->
                 RsaOnAlpaca!Prints(out, IF PLAINTEXT = RsaOnAlpaca!adding THEN RsaOnAlpaca!golden_adding
                                         ELSE RsaOnAlpaca!golden)
          [] program \in {"blowfish_alpaca", "blowfish_chain"} -> out = BlowfishOnAlpaca!golden
          [] program = "cuckoo_alpaca" ->
                 /\ IsGoldenFilter([i \in 0..GOLDEN_BUCKETS-1 |-> mem[filter(i)]])
                 /\ mem[inserted_count] = golden_inserts
                 /\ mem[member_count] = golden_inserts
          [] program = "cuckoo_chain" ->
                 /\ IsGoldenFilter(out.filter)
                 /\ out.inserted = golden_inserts
                 /\ out.members = golden_inserts
          [] OTHER -> TRUE

\* The same of the programs on DINO, whatever the power failures, and that the
\* code between two boundaries has the effect of one attempt, see DinoPrograms.
GoldenOnDino == program \in Program => OnDino!GoldenResult
SegmentsAreAtomic == program \in Program => OnDino!SegmentsAreAtomic

\* Every other program ends: no loop over tasks waits for a count that is never
\* reached, no chain of relocations or walk through the dictionary goes in a
\* circle, and no task syncs with fields nobody has written.
ProgramsEnd == AskedToEnd => <>Ended

\* What the channels of Chain hold is what the variables are on Alpaca.  The bit
\* counts and activity recognition do, task for task, what they do on Alpaca,
\* where a variable has the value written last to any of the channels it became:
\* what a task syncs with is never one update behind.  The equipment monitor's
\* channels hold a forest that its log tells, as Cem's variables do.
ChainAsAlpaca ==
    /\ program = "bc_chain" => BcOnChain!StartsAsAlpaca
    /\ program = "ar_chain" => ArOnChain!StartsAsAlpaca
    /\ [][/\ program = "bc_chain" => BcOnChain!StepsAsAlpaca
         /\ program = "ar_chain" => ArOnChain!StepsAsAlpaca]_programsVars
    /\ [](program = "cem_chain" => CemOnChain!DictionaryIsForest /\ CemOnChain!LogTellsDictionary)

\* RSA takes a result of the modular multiplication only when it is less than
\* the modulus, and its upper digits are clear, so that the next
\* multiplication has its operands in range.
ResultIsReduced ==
    /\ program = "rsa_alpaca" => RsaOnAlpaca!ResultIsReduced
    /\ program = "rsa_chain" => RsaOnChain!ResultIsReduced

\* task_square_base multiplies base by block; the two are equal whenever it does.
SquaresBase == program = "rsa_alpaca" => RsaOnAlpaca!SquaresBase
=============================================================================
