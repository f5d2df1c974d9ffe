------------------------------- MODULE ArChain -------------------------------
(***************************************************************************)
(* The activity recognition application on Chain.  What the other version  *)
(* keeps in one variable is here in as many channels as there are tasks    *)
(* that write it; the properties say that syncs bring them together.       *)
(***************************************************************************)
EXTENDS ChainProgram, Activity

VARIABLE out
vars == <<task, time, chan, out>>

window_ch == MC_CH("ch_sample_window", "task_sample")
seed_ch == CH("task_init", "task_warmup")
model_ch == CH("task_train", "task_classify")

\* task_selectMode keeps its count in the self channel of another task.
count_ch == SELF_CH("task_init")

Init == ChainInit /\ out = <<>>

Enter == /\ At("_entry_task")
         /\ TRANSITION_TO("task_init", NoOutput)
         /\ UNCHANGED out

TaskInit ==
    LET select == {CH("task_init", "task_selectMode")}
    IN  /\ At("task_init")
        /\ TRANSITION_TO("task_selectMode",
               CHAN_OUT("pin_state", MODE_IDLE, select) @@ CHAN_OUT("count", 0, select)
               @@ CHAN_OUT("seed", 1, {seed_ch}))
        /\ UNCHANGED out

\* What task_selectMode tells the tasks that train.
ToTrain(mode, class) ==
    CHAN_OUT("discardedSamplesCount", 0, {CH("task_selectMode", "task_warmup")})
    @@ CHAN_OUT("mode", mode, {CH("task_selectMode", "task_featurize")})
    @@ CHAN_OUT("class", class, {CH("task_selectMode", "task_train")})
    @@ CHAN_OUT("samplesInWindow", 0, {CH("task_selectMode", "task_sample")})

\* The seventh time the task does not end.
SelectMode ==
    LET from_init == CH("task_init", "task_selectMode")
        self == SELF_CH("task_selectMode")
    IN  /\ At("task_selectMode")
        /\ \E count \in CHAN_IN("count", <<from_init, count_ch>>),
              prev_pin_state \in CHAN_IN("pin_state", <<from_init, self>>) :
             LET mode == Mode(pin_state(count + 1), prev_pin_state)
                 counted == CHAN_OUT("count", count + 1, {count_ch})
                 selected == counted @@ CHAN_OUT("pin_state", mode, {self})
             IN  \/ /\ count + 1 >= 7
                    /\ task' = "exit"
                    /\ UNCHANGED <<time, chan>>
                 \/ /\ count + 1 < 7
                    /\ \/ /\ mode = MODE_TRAIN_STATIONARY
                          /\ TRANSITION_TO("task_warmup", selected @@ ToTrain(mode, CLASS_STATIONARY))
                       \/ /\ mode = MODE_TRAIN_MOVING
                          /\ TRANSITION_TO("task_warmup", selected @@ ToTrain(mode, CLASS_MOVING))
                       \/ /\ mode = MODE_RECOGNIZE
                          /\ TRANSITION_TO("task_resetStats",
                                 selected @@ CHAN_OUT("mode", mode, {CH("task_selectMode", "task_featurize")}))
                       \/ /\ mode = MODE_IDLE
                          /\ TRANSITION_TO("task_idle", counted)
        /\ UNCHANGED out

ResetStats ==
    LET stats == {CH("task_resetStats", "task_stats")}
    IN  /\ At("task_resetStats")
        /\ TRANSITION_TO("task_sample",
               CHAN_OUT("movingCount", 0, stats) @@ CHAN_OUT("stationaryCount", 0, stats)
               @@ CHAN_OUT("totalCount", 0, stats)
               @@ CHAN_OUT("samplesInWindow", 0, {CH("task_resetStats", "task_sample")}))
        /\ UNCHANGED out

Sample ==
    LET self == SELF_CH("task_sample")
    IN  /\ At("task_sample")
        /\ \E seed \in CHAN_IN("seed", <<CH("task_warmup", "task_sample"), self, seed_ch>>),
              samplesInWindow \in CHAN_IN("samplesInWindow", <<CH("task_resetStats", "task_sample"),
                                                               CH("task_selectMode", "task_sample"), self>>) :
             LET last == samplesInWindow + 1 = ACCEL_WINDOW_SIZE
             IN  TRANSITION_TO(IF last THEN "task_transform" ELSE "task_sample",
                     CHAN_OUT("seed", seed + 1, {self, CH("task_sample", "task_warmup")})
                     @@ CHAN_OUT_ELEM("window", samplesInWindow, ACCEL_singleSample_(seed), {window_ch})
                     @@ CHAN_OUT("samplesInWindow", IF last THEN 0 ELSE samplesInWindow + 1, {self}))
        /\ UNCHANGED out

TaskTransform ==
    /\ At("task_transform")
    /\ \E window \in CHAN_IN_ARRAY("window", 0..ACCEL_WINDOW_SIZE-1, <<window_ch>>) :
         TRANSITION_TO("task_featurize",
             CHAN_OUT_ARRAY("window",
                 [i \in {j \in DOMAIN window : IsNoisy(window[j])} |-> Denoised(window[i])],
                 {CH("task_transform", "task_featurize")}))
    /\ UNCHANGED out

\* (Bug) The readings are taken as they were before task_transform.
Window_Untransformed == CHAN_IN_ARRAY("window", 0..ACCEL_WINDOW_SIZE-1, <<window_ch>>)

\* The readings, those that task_transform changed as it left them.
Window == CHAN_IN_ARRAY("window", 0..ACCEL_WINDOW_SIZE-1,
                        <<window_ch, CH("task_transform", "task_featurize")>>)

TaskFeaturize ==
    /\ At("task_featurize")
    /\ \E window \in Window, mode \in CHAN_IN("mode", <<CH("task_selectMode", "task_featurize")>>) :
         LET next == IF mode = MODE_RECOGNIZE THEN "task_classify" ELSE "task_train"
         IN  TRANSITION_TO(next, CHAN_OUT("features", Featurize(window), {CH("task_featurize", next)}))
    /\ UNCHANGED out

TaskClassify ==
    /\ At("task_classify")
    /\ \E features \in CHAN_IN("features", <<CH("task_featurize", "task_classify")>>),
          moving \in CHAN_IN_ARRAY("model_moving", 0..MODEL_SIZE-1, <<model_ch>>),
          stationary \in CHAN_IN_ARRAY("model_stationary", 0..MODEL_SIZE-1, <<model_ch>>) :
         TRANSITION_TO("task_stats",
             CHAN_OUT("class", Classify(features, moving, stationary), {CH("task_classify", "task_stats")}))
    /\ UNCHANGED out

Stats ==
    LET self == SELF_CH("task_stats")
        counts == <<CH("task_resetStats", "task_stats"), self>>
    IN  /\ At("task_stats")
        /\ \E totalCount \in CHAN_IN("totalCount", counts),
              class \in CHAN_IN("class", <<CH("task_classify", "task_stats")>>) :
           LET counter == IF class = CLASS_MOVING THEN "movingCount" ELSE "stationaryCount"
               other == IF class = CLASS_MOVING THEN "stationaryCount" ELSE "movingCount"
           IN  \E n \in CHAN_IN(counter, counts) :
                 LET counted == CHAN_OUT("totalCount", totalCount + 1, {self}) @@ CHAN_OUT(counter, n + 1, {self})
                 IN  \/ /\ totalCount + 1 = SAMPLES_TO_COLLECT
                        /\ \E m \in CHAN_IN(other, counts) :
                             out' = Append(out, IF class = CLASS_MOVING THEN <<m, n + 1>> ELSE <<n + 1, m>>)
                        /\ TRANSITION_TO("task_idle", counted)
                     \/ /\ totalCount + 1 # SAMPLES_TO_COLLECT
                        /\ TRANSITION_TO("task_sample", counted)
                        /\ UNCHANGED out

Warmup ==
    LET self == SELF_CH("task_warmup")
    IN  /\ At("task_warmup")
        /\ \E discarded \in CHAN_IN("discardedSamplesCount", <<CH("task_selectMode", "task_warmup"), self>>) :
             \/ /\ discarded < NUM_WARMUP_SAMPLES
                /\ \E seed \in CHAN_IN("seed", <<seed_ch, self, CH("task_sample", "task_warmup")>>) :
                     TRANSITION_TO("task_warmup",
                         CHAN_OUT("seed", seed + 1, {self, CH("task_warmup", "task_sample")})
                         @@ CHAN_OUT("discardedSamplesCount", discarded + 1, {self}))
             \/ /\ discarded >= NUM_WARMUP_SAMPLES
                /\ TRANSITION_TO("task_sample",
                       CHAN_OUT("trainingSetSize", 0, {CH("task_warmup", "task_train")}))
        /\ UNCHANGED out

Train ==
    LET self == SELF_CH("task_train")
    IN  /\ At("task_train")
        /\ \E features \in CHAN_IN("features", <<CH("task_featurize", "task_train")>>),
              size \in CHAN_IN("trainingSetSize", <<CH("task_warmup", "task_train"), self>>),
              class \in CHAN_IN("class", <<CH("task_selectMode", "task_train")>>) :
             TRANSITION_TO(IF size + 1 < MODEL_SIZE THEN "task_sample" ELSE "task_idle",
                 CHAN_OUT_ELEM(IF class = CLASS_MOVING THEN "model_moving" ELSE "model_stationary",
                               size, features, {model_ch})
                 @@ CHAN_OUT("trainingSetSize", size + 1, {self}))
        /\ UNCHANGED out

Idle == /\ At("task_idle")
        /\ TRANSITION_TO("task_selectMode", NoOutput)
        /\ UNCHANGED out

Next == \/ Enter        \/ TaskInit      \/ SelectMode    \/ ResetStats \/ Sample
        \/ TaskTransform                 \/ TaskFeaturize \/ TaskClassify
        \/ Stats        \/ Warmup        \/ Train         \/ Idle

Spec == Init /\ [][Next]_vars
-----------------------------------------------------------------------------
\* The variables of the Alpaca version: field f of the channels chs, written last.
Var(f, chs, v) == Latest(chs \X {Field(f)}, v)
ArrayVar(f, n, chs, v) == [i \in 0..n-1 |-> Latest(chs \X {Elem(f, i)}, v)]

counts_chs == {CH("task_resetStats", "task_stats"), SELF_CH("task_stats")}

mem == [pinState |-> Var("pin_state", {CH("task_init", "task_selectMode"), SELF_CH("task_selectMode")}, 0),
        discardedSamplesCount |-> Var("discardedSamplesCount", {CH("task_selectMode", "task_warmup"),
                                                                SELF_CH("task_warmup")}, 0),
        class |-> Var("class", {CH("task_selectMode", "task_train"), CH("task_classify", "task_stats")}, 0),
        totalCount |-> Var("totalCount", counts_chs, 0),
        movingCount |-> Var("movingCount", counts_chs, 0),
        stationaryCount |-> Var("stationaryCount", counts_chs, 0),
        trainingSetSize |-> Var("trainingSetSize", {CH("task_warmup", "task_train"), SELF_CH("task_train")}, 0),
        samplesInWindow |-> Var("samplesInWindow", {CH("task_resetStats", "task_sample"),
                                                    CH("task_selectMode", "task_sample"), SELF_CH("task_sample")}, 0),
        mode |-> Var("mode", {CH("task_selectMode", "task_featurize")}, 0),
        seed |-> Var("seed", {seed_ch, SELF_CH("task_warmup"), SELF_CH("task_sample")}, 0),
        count |-> Var("count", {CH("task_init", "task_selectMode"), count_ch}, 0),
        window |-> ArrayVar("window", ACCEL_WINDOW_SIZE, {window_ch, CH("task_transform", "task_featurize")}, NoReading),
        features |-> Var("features", {CH("task_featurize", "task_train"), CH("task_featurize", "task_classify")}, NoFeatures),
        model_stationary |-> ArrayVar("model_stationary", MODEL_SIZE, {model_ch}, NoFeatures),
        model_moving |-> ArrayVar("model_moving", MODEL_SIZE, {model_ch}, NoFeatures)]

Alpaca == INSTANCE Ar

StartsAsAlpaca == Alpaca!Init

\* Task for task the program does what the Alpaca version does.
StepsAsAlpaca == Alpaca!Next
=============================================================================
