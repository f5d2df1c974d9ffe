------------------------------ MODULE Activity ------------------------------
(***************************************************************************)
(* What the three versions of the activity recognition application have in *)
(* common: simulated readings of an accelerometer, the features of a       *)
(* window of them, and how a window is classified by the features of the   *)
(* windows it was trained with.                                            *)
(***************************************************************************)
EXTENDS Integers, Sequences, FiniteSets

CONSTANTS MODEL_SIZE, SAMPLES_TO_COLLECT     \* 16 and 128 in the code

NUM_WARMUP_SAMPLES == 3
ACCEL_WINDOW_SIZE == 3
SAMPLE_NOISE_FLOOR == 10

MODE_IDLE == 3
MODE_TRAIN_STATIONARY == 2
MODE_TRAIN_MOVING == 1
MODE_RECOGNIZE == 0

CLASS_STATIONARY == 0
CLASS_MOVING == 1

Axes == 1..3
NoReading == [a \in Axes |-> 0]
NoFeatures == [meanmag |-> 0, stddevmag |-> 0]

\* The reading, which the code simulates: axis a is seed * 17^a, in 16 bits.
ACCEL_singleSample_(seed) == [a \in Axes |-> ((seed * 17^a) % 65536) % 85]

\* The switches on the board, simulated by how often they have been read.
pin_state(count) == IF count >= 5 THEN MODE_RECOGNIZE
                    ELSE IF count >= 3 THEN MODE_TRAIN_STATIONARY ELSE MODE_TRAIN_MOVING

\* Training is not launched again when it has just finished.
Mode(pins, prev) == IF pins \in {MODE_TRAIN_STATIONARY, MODE_TRAIN_MOVING} /\ pins = prev
                    THEN MODE_IDLE ELSE pins

IsNoisy(reading) == \E a \in Axes : reading[a] < SAMPLE_NOISE_FLOOR

\* A noisy reading without its noise.
Denoised(reading) == [a \in Axes |-> IF reading[a] > SAMPLE_NOISE_FLOOR THEN reading[a] ELSE 0]

Transformed(reading) == IF IsNoisy(reading) THEN Denoised(reading) ELSE reading

\* sqrt16() of libmspmath, as it is compiled into src/bld/dino/bc.S: the
\* last middle of a bisection, 32767 for 0.
sqrt16(x) ==
    LET Bisect[lo \in Nat, hi \in Nat] ==
            LET mid == (hi + lo) \div 2
                half == IF mid * mid >= x THEN <<lo, mid>> ELSE <<mid, hi>>
            IN  IF mid * mid = x \/ half[2] - half[1] <= 1 THEN mid ELSE Bisect[half]
    IN  IF x = 0 THEN 32767 ELSE Bisect[0, 65535]

\* A third of the sum, or nearly: the axes of an accelReading have 8 bits.
Mean(sum) == (sum % 256) \div 4

Distance(x, y) == IF x > y THEN x - y ELSE y - x

Magnitude(v) == sqrt16((v[1] * v[1] + v[2] * v[2] + v[3] * v[3]) % 65536)

Featurize(window) ==
    LET mean == [a \in Axes |-> Mean(window[0][a] + window[1][a] + window[2][a])]
        stddev == [a \in Axes |-> Mean(Distance(window[0][a], mean[a]) + Distance(window[1][a], mean[a])
                                       + Distance(window[2][a], mean[a]))]
    IN  [meanmag |-> Magnitude(mean), stddevmag |-> Magnitude(stddev)]

\* Each window of one model votes against that of the other, once for each
\* feature; windows that are as far away vote for stationary.
Classify(features, moving, stationary) ==
    LET votes == {<<i, f>> \in (0..MODEL_SIZE-1) \X DOMAIN features :
                     Distance(moving[i][f], features[f]) < Distance(stationary[i][f], features[f])}
    IN  IF Cardinality(votes) > MODEL_SIZE THEN CLASS_MOVING ELSE CLASS_STATIONARY

\* The application prints src/golden_result/ar.txt: the windows classified as
\* stationary and as moving, of the two recognitions.
golden == <<<<94, 34>>, <<117, 11>>>>
=============================================================================
