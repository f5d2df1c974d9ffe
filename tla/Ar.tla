--------------------------------- MODULE Ar ---------------------------------
(***************************************************************************)
(* The activity recognition application on Alpaca: it is trained with      *)
(* windows of readings of either class, and then classifies windows.       *)
(***************************************************************************)
EXTENDS Activity

VARIABLES task, mem, out

vars == <<task, mem, out>>

Init ==
    /\ task = "_entry_task"
    /\ mem = [pinState |-> 0, discardedSamplesCount |-> 0, class |-> 0, totalCount |-> 0,
              movingCount |-> 0, stationaryCount |-> 0, trainingSetSize |-> 0,
              samplesInWindow |-> 0, mode |-> 0, seed |-> 0, count |-> 0,
              window |-> [i \in 0..ACCEL_WINDOW_SIZE-1 |-> NoReading],
              features |-> NoFeatures,
              model_stationary |-> [i \in 0..MODEL_SIZE-1 |-> NoFeatures],
              model_moving |-> [i \in 0..MODEL_SIZE-1 |-> NoFeatures]]
    /\ out = <<>>

At(t) == task = t
TRANSITION_TO(t) == task' = t

Enter == /\ At("_entry_task")
         /\ TRANSITION_TO("task_init")
         /\ UNCHANGED <<mem, out>>

TaskInit ==
    /\ At("task_init")
    /\ mem' = [mem EXCEPT !.pinState = MODE_IDLE, !.count = 0, !.seed = 1]
    /\ TRANSITION_TO("task_selectMode")
    /\ UNCHANGED out

\* The seventh time the task does not end.
SelectMode ==
    LET count == mem.count + 1
        mode == Mode(pin_state(count), mem.pinState)
        selected == [mem EXCEPT !.count = count, !.pinState = IF mode = MODE_IDLE THEN @ ELSE mode]
        train(class) == [selected EXCEPT !.discardedSamplesCount = 0, !.mode = mode,
                                         !.class = class, !.samplesInWindow = 0]
    IN  /\ At("task_selectMode")
        /\ \/ /\ count >= 7
              /\ TRANSITION_TO("exit")
              /\ UNCHANGED mem
           \/ /\ count < 7
              /\ \/ /\ mode = MODE_TRAIN_STATIONARY
                    /\ mem' = train(CLASS_STATIONARY)
                    /\ TRANSITION_TO("task_warmup")
                 \/ /\ mode = MODE_TRAIN_MOVING
                    /\ mem' = train(CLASS_MOVING)
                    /\ TRANSITION_TO("task_warmup")
                 \/ /\ mode = MODE_RECOGNIZE
                    /\ mem' = [selected EXCEPT !.mode = MODE_RECOGNIZE]
                    /\ TRANSITION_TO("task_resetStats")
                 \/ /\ mode = MODE_IDLE
                    /\ mem' = selected
                    /\ TRANSITION_TO("task_idle")
        /\ UNCHANGED out

ResetStats ==
    /\ At("task_resetStats")
    /\ mem' = [mem EXCEPT !.movingCount = 0, !.stationaryCount = 0, !.totalCount = 0,
                          !.samplesInWindow = 0]
    /\ TRANSITION_TO("task_sample")
    /\ UNCHANGED out

Sample ==
    LET last == mem.samplesInWindow + 1 = ACCEL_WINDOW_SIZE
    IN  /\ At("task_sample")
        /\ mem' = [mem EXCEPT !.window[mem.samplesInWindow] = ACCEL_singleSample_(mem.seed),
                              !.seed = @ + 1,
                              !.samplesInWindow = IF last THEN 0 ELSE @ + 1]
        /\ TRANSITION_TO(IF last THEN "task_transform" ELSE "task_sample")
        /\ UNCHANGED out

TaskTransform ==
    /\ At("task_transform")
    /\ mem' = [mem EXCEPT !.window = [i \in DOMAIN @ |-> Transformed(@[i])]]
    /\ TRANSITION_TO("task_featurize")
    /\ UNCHANGED out

TaskFeaturize ==
    /\ At("task_featurize")
    /\ mem' = [mem EXCEPT !.features = Featurize(mem.window)]
    /\ TRANSITION_TO(IF mem.mode = MODE_RECOGNIZE THEN "task_classify" ELSE "task_train")
    /\ UNCHANGED out

TaskClassify ==
    /\ At("task_classify")
    /\ mem' = [mem EXCEPT !.class = Classify(mem.features, mem.model_moving, mem.model_stationary)]
    /\ TRANSITION_TO("task_stats")
    /\ UNCHANGED out

Stats ==
    LET moving == IF mem.class = CLASS_MOVING THEN 1 ELSE 0
    IN  /\ At("task_stats")
        /\ mem' = [mem EXCEPT !.totalCount = @ + 1,
                              !.movingCount = @ + moving,
                              !.stationaryCount = @ + (1 - moving)]
        /\ \/ /\ mem'.totalCount = SAMPLES_TO_COLLECT
              /\ out' = Append(out, <<mem'.stationaryCount, mem'.movingCount>>)
              /\ TRANSITION_TO("task_idle")
           \/ /\ mem'.totalCount # SAMPLES_TO_COLLECT
              /\ TRANSITION_TO("task_sample")
              /\ UNCHANGED out

Warmup ==
    /\ At("task_warmup")
    /\ \/ /\ mem.discardedSamplesCount < NUM_WARMUP_SAMPLES
          /\ mem' = [mem EXCEPT !.seed = @ + 1, !.discardedSamplesCount = @ + 1]
          /\ TRANSITION_TO("task_warmup")
       \/ /\ mem.discardedSamplesCount >= NUM_WARMUP_SAMPLES
          /\ mem' = [mem EXCEPT !.trainingSetSize = 0]
          /\ TRANSITION_TO("task_sample")
    /\ UNCHANGED out

Train ==
    LET size == mem.trainingSetSize
    IN  /\ At("task_train")
        /\ \/ /\ mem.class = CLASS_STATIONARY
              /\ mem' = [mem EXCEPT !.model_stationary[size] = mem.features, !.trainingSetSize = size + 1]
           \/ /\ mem.class = CLASS_MOVING
              /\ mem' = [mem EXCEPT !.model_moving[size] = mem.features, !.trainingSetSize = size + 1]
        /\ TRANSITION_TO(IF size + 1 < MODEL_SIZE THEN "task_sample" ELSE "task_idle")
        /\ UNCHANGED out

Idle == /\ At("task_idle")
        /\ TRANSITION_TO("task_selectMode")
        /\ UNCHANGED <<mem, out>>

Next == \/ Enter        \/ TaskInit      \/ SelectMode    \/ ResetStats \/ Sample
        \/ TaskTransform                 \/ TaskFeaturize \/ TaskClassify
        \/ Stats        \/ Warmup        \/ Train         \/ Idle

Spec == Init /\ [][Next]_vars
=============================================================================
