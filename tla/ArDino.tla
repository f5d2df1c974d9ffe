------------------------------- MODULE ArDino -------------------------------
(***************************************************************************)
(* The activity recognition application on DINO: how often the switches    *)
(* have been read, the state of the sensor and the models are in           *)
(* non-volatile memory, and what is counted is in locals.                  *)
(***************************************************************************)
EXTENDS Activity

count == <<"count">>
seed == <<"seed">>
printed == <<"printed">>    \* the last line of output
model(m, i) == <<"model", m, i>>

Words == {count, seed, printed} \cup {model(m, i) : m \in {MODE_TRAIN_MOVING, MODE_TRAIN_STATIONARY}, i \in 0..MODEL_SIZE-1}

NoStats == [totalCount |-> 0, stationaryCount |-> 0, movingCount |-> 0]

Start == [at |-> "main",
          vol |-> [prev_pin_state |-> MODE_IDLE, mode |-> MODE_IDLE, i |-> 0, window |-> <<>>,
                   features |-> NoFeatures, class |-> CLASS_STATIONARY, stats |-> NoStats],
          nv |-> [w \in Words |-> CASE w = count -> 0 [] w = seed -> 1 [] w = printed -> <<>> [] OTHER -> NoFeatures]]

Seg(stores, vol, b) == [stores |-> stores, vol |-> vol, next |-> b]

\* The variables with a DINO_MANUAL_VERSION_VAL before a boundary.  Those of
\* record_stats() are locals, which the checkpoint covers anyway.
Versioned(at) == CASE at = "TASK_SELECT_MODE" -> {count}
                   [] at \in {"TASK_WARMUP", "TASK_SAMPLE"} -> {seed}
                   [] OTHER -> {}

\* seed++, n times.
SeedStores(nv, n) == [k \in 1..n |-> <<seed, nv[seed] + k>>]

SelectMode(vol, nv) ==
    LET n == nv[count] + 1
        mode == Mode(pin_state(n), vol.prev_pin_state)
        counted == <<<<count, n>>>>
        selected == [vol EXCEPT !.mode = mode, !.i = 0, !.prev_pin_state = IF mode = MODE_IDLE THEN @ ELSE mode]
    IN  CASE n >= 7 -> Seg(counted, vol, "exit")
          [] n < 7 /\ mode = MODE_IDLE -> Seg(counted, selected, "TASK_COUNT")
          [] n < 7 /\ mode = MODE_RECOGNIZE -> Seg(counted, [selected EXCEPT !.stats = NoStats], "TASK_SAMPLE")
          [] OTHER -> Seg(counted, selected, "TASK_WARMUP")

\* The window, which transform() then cleans.
AcquireWindow(vol, nv) ==
    Seg(SeedStores(nv, ACCEL_WINDOW_SIZE),
        [vol EXCEPT !.window = [k \in 0..ACCEL_WINDOW_SIZE-1 |-> Transformed(ACCEL_singleSample_(nv[seed] + k))]],
        "TASK_FEATURIZE")

TaskFeaturize(vol, nv) ==
    Seg(<<>>, [vol EXCEPT !.features = Featurize(vol.window)],
        IF vol.mode = MODE_RECOGNIZE THEN "TASK_CLASSIFY" ELSE "TASK_TRAIN")

\* The head of a loop of n windows.
NextWindow(stores, vol, n) == Seg(stores, [vol EXCEPT !.i = @ + 1],
                                  IF vol.i + 1 < n THEN "TASK_SAMPLE" ELSE "TASK_COUNT")

Train(vol, nv) == NextWindow(<<<<model(vol.mode, vol.i), vol.features>>>>, vol, MODEL_SIZE)

TaskClassify(vol, nv) ==
    LET features(m) == [k \in 0..MODEL_SIZE-1 |-> nv[model(m, k)]]
    IN  Seg(<<>>,
            [vol EXCEPT !.class = Classify(vol.features, features(MODE_TRAIN_MOVING), features(MODE_TRAIN_STATIONARY))],
            "TASK_RECORD_STATS")

RecordStats(vol, nv) ==
    LET moving == IF vol.class = CLASS_MOVING THEN 1 ELSE 0
        stats == [totalCount |-> vol.stats.totalCount + 1,
                  movingCount |-> vol.stats.movingCount + moving,
                  stationaryCount |-> vol.stats.stationaryCount + (1 - moving)]
    IN  NextWindow(IF vol.i + 1 < SAMPLES_TO_COLLECT THEN <<>>
                   ELSE <<<<printed, <<stats.stationaryCount, stats.movingCount>>>>>>,
                   [vol EXCEPT !.stats = stats], SAMPLES_TO_COLLECT)

Segment(at, vol, nv) ==
    CASE at = "main" -> Seg(<<>>, vol, "TASK_COUNT")
      [] at = "TASK_COUNT" -> Seg(<<>>, vol, "TASK_SELECT_MODE")
      [] at = "TASK_SELECT_MODE" -> SelectMode(vol, nv)
      [] at = "TASK_WARMUP" -> Seg(SeedStores(nv, NUM_WARMUP_SAMPLES), vol, "TASK_SAMPLE")
      [] at = "TASK_SAMPLE" -> AcquireWindow(vol, nv)
      [] at = "TASK_FEATURIZE" -> TaskFeaturize(vol, nv)
      [] at = "TASK_TRAIN" -> Train(vol, nv)
      [] at = "TASK_CLASSIFY" -> TaskClassify(vol, nv)
      [] at = "TASK_RECORD_STATS" -> RecordStats(vol, nv)
=============================================================================
