--------------------------- MODULE BlowfishChain ---------------------------
(***************************************************************************)
(* The Blowfish application on Chain.  The initial words of the key and of *)
(* the boxes come from one channel and those that replace them from        *)
(* another; the vector comes from three.                                   *)
(***************************************************************************)
EXTENDS ChainProgram, BlowfishCipher

CONSTANT Uninitialized      \* what the variable i of task_set_ukey may start with

VARIABLE out
vars == <<task, time, chan, out>>

ch_iv == MC_CH("ch_iv", "task_init")
ch_iv2 == MC_CH("ch_iv2", "task_start_encrypt3")
ch_iv3 == MC_CH("ch_iv3", "task_start_encrypt2")
ch_index2 == MC_CH("ch_index2", "task_init")
ch_n == MC_CH("ch_n", "task_init")
ch_return == MC_CH("ch_return", "task_encrypt")
ch_set_key2 == CH("task_set_key2", "task_encrypt")
ch_start_encrypt == CH("task_start_encrypt", "task_encrypt")

Init == ChainInit /\ out = <<>>

Enter == /\ At("_entry_task")
         /\ TRANSITION_TO("task_init", NoOutput)
         /\ UNCHANGED out

TaskInit ==
    /\ At("task_init")
    /\ TRANSITION_TO("task_set_ukey",
           CHAN_OUT("n", 0, {ch_n}) @@ CHAN_OUT("index2", 0, {ch_index2})
           @@ CHAN_OUT("index", 0, {CH("task_init", "task_init_s")})
           @@ CHAN_OUT_ARRAY("iv", [i \in 0..7 |-> 0], {ch_iv}))
    /\ UNCHANGED out

\* The loop over the digits begins where the variable, which nothing has set,
\* says; it writes the bytes that end at or after that place.
SetUkey ==
    /\ At("task_set_ukey")
    /\ \E i \in Uninitialized :
         TRANSITION_TO("task_init_key",
             CHAN_OUT_ARRAY("ukey", [b \in {b \in 0..15 : 2 * b + 1 >= i} |-> ukey_byte(b)],
                            {CH("task_set_ukey", "task_set_key")}))
    /\ UNCHANGED out

TaskInitKey ==
    /\ At("task_init_key")
    /\ TRANSITION_TO("task_init_s", CHAN_OUT_ARRAY("key", InitKey, {CH("task_init_key", "task_set_key")}))
    /\ UNCHANGED out

s_name(k) == <<"s0", "s1", "s2", "s3">>[k + 1]

InitS ==
    LET self == SELF_CH("task_init_s")
    IN  /\ At("task_init_s")
        /\ \E index \in CHAN_IN("index", <<CH("task_init", "task_init_s"), self>>) :
             LET box == CHAN_OUT_ARRAY(s_name(index), InitBox(index), {CH("task_init_s", "task_encrypt")})
             IN  \/ /\ index = 3
                    /\ TRANSITION_TO("task_set_key", box)
                 \/ /\ index # 3
                    /\ TRANSITION_TO("task_init_s", box @@ CHAN_OUT("index", index + 1, {self}))
        /\ UNCHANGED out

\* Only the first 8 bytes of the user's key are asked for.
SetKey ==
    /\ At("task_set_key")
    /\ \E ukey \in CHAN_IN_ARRAY("ukey", 0..7, <<CH("task_set_ukey", "task_set_key")>>),
          key \in CHAN_IN_ARRAY("key", 0..17, <<CH("task_init_key", "task_set_key")>>) :
         TRANSITION_TO("task_set_key2", CHAN_OUT_ARRAY("key", MixedKey(key, ukey), {CH("task_set_key", "task_encrypt")}))
    /\ UNCHANGED out

\* Function v from places to words.
Words(i, block) == [j \in {i, i + 1} |-> block[j - i + 1]]

\* A block as the cipher gets it.
Block(chs) == {<<block[0], block[1]>> : block \in CHAN_IN_ARRAY("input", {0, 1}, chs)}
SendBlock(block, chs) == CHAN_OUT_ARRAY("input", Words(0, block), chs)

SetKey2 ==
    LET self == SELF_CH("task_set_key2")
        counted(i) == CHAN_OUT("index2", i + 2, {self})
    IN  /\ At("task_set_key2")
        /\ \E i \in CHAN_IN("index2", <<ch_index2, self>>) :
             \/ /\ i = 0
                /\ TRANSITION_TO("task_encrypt", SendBlock(<<ZeroWord, ZeroWord>>, {ch_set_key2}) @@ counted(i)
                                                 @@ CHAN_OUT("next_task", "task_set_key2", {ch_set_key2}))
             \/ /\ i # 0 /\ i < KEY_WORDS
                /\ \E block \in Block(<<ch_return>>) :
                     TRANSITION_TO("task_encrypt",
                         CHAN_OUT_ARRAY("key", Words(i - 2, block), {ch_set_key2}) @@ counted(i))
             \/ /\ i \in KEY_WORDS..ALL_WORDS-1
                /\ \E block \in Block(<<ch_return>>) :
                     LET s == CHAN_OUT_ARRAY(s_name(Box(i)), Words(BoxIndex(i), block), {ch_set_key2})
                     IN  IF i + 2 < ALL_WORDS THEN TRANSITION_TO("task_encrypt", s @@ counted(i))
                         ELSE TRANSITION_TO("task_start_encrypt", s)
        /\ UNCHANGED out

\* Word i of box b and of the key.
BoxWord(b, i) == CHAN_IN_ELEM(s_name(b), i, <<CH("task_init_s", "task_encrypt"), ch_set_key2>>)
KeyWord(i) == CHAN_IN_ELEM("key", i, <<CH("task_set_key", "task_encrypt"), ch_set_key2>>)

\* All the words have been written when the task is reached.
TaskEncrypt ==
    LET k == [i \in 0..17 |-> CHOOSE w \in KeyWord(i) : TRUE]
        s == [b \in 0..3 |-> [i \in 0..255 |-> CHOOSE w \in BoxWord(b, i) : TRUE]]
    IN  /\ At("task_encrypt")
        /\ \E block \in Block(<<SELF_CH("task_encrypt"), ch_set_key2, ch_start_encrypt>>),
              next_task \in CHAN_IN("next_task", <<ch_set_key2, ch_start_encrypt>>) :
             TRANSITION_TO(next_task, SendBlock(Encrypted(block, k, s), {SELF_CH("task_encrypt"), ch_return}))
        /\ UNCHANGED out

Vector == CHAN_IN_ARRAY("iv", 0..7, <<ch_iv3, ch_iv, ch_iv2>>)

StartEncrypt ==
    /\ At("task_start_encrypt")
    /\ \E n \in CHAN_IN("n", <<ch_n, CH("task_start_encrypt3", "task_start_encrypt")>>), iv \in Vector :
         \/ /\ n = 0
            /\ TRANSITION_TO("task_encrypt", SendBlock(BlockOf(iv), {ch_start_encrypt})
                                             @@ CHAN_OUT("next_task", "task_start_encrypt2", {ch_start_encrypt}))
         \/ /\ n # 0
            /\ TRANSITION_TO("task_start_encrypt3", NoOutput)
    /\ UNCHANGED out

StartEncrypt2 ==
    /\ At("task_start_encrypt2")
    /\ \E block \in Block(<<ch_return>>) :
         TRANSITION_TO("task_start_encrypt3", CHAN_OUT_ARRAY("iv", BlockBytes(block), {ch_iv3}))
    /\ UNCHANGED out

\* The vector is taken as task_start_encrypt2 left it: a byte that the text has
\* been mixed into is not needed again before that task.
StartEncrypt3 ==
    LET self == SELF_CH("task_start_encrypt3")
    IN  /\ At("task_start_encrypt3")
        /\ \E index2 \in CHAN_IN("index2", <<ch_index2, self>>), n \in CHAN_IN("n", <<ch_n, self>>),
              iv \in CHAN_IN_ARRAY("iv", 0..7, <<ch_iv3>>) :
             LET c == indata[index2 + 1] ^^ iv[n]
                 outs == CHAN_OUT_ELEM("result", index2, c, {CH("task_start_encrypt3", "task_done")})
                         @@ CHAN_OUT_ELEM("iv", n, c, {ch_iv2})
                         @@ CHAN_OUT("n", (n + 1) % 8, {CH("task_start_encrypt3", "task_start_encrypt"), self})
             IN  /\ out' = Append(out, c)
                 /\ IF index2 + 1 = LENGTH THEN TRANSITION_TO("task_done", outs)
                    ELSE TRANSITION_TO("task_start_encrypt", outs @@ CHAN_OUT("index2", index2 + 1, {self}))

\* The task returns although nothing has called it: the program is over.
Done == /\ At("task_done")
        /\ task' = "exit"
        /\ UNCHANGED <<time, chan, out>>

Next == \/ Enter        \/ TaskInit      \/ SetUkey       \/ TaskInitKey \/ InitS \/ SetKey \/ SetKey2
        \/ TaskEncrypt  \/ StartEncrypt  \/ StartEncrypt2 \/ StartEncrypt3
        \/ Done

Spec == Init /\ [][Next]_vars
=============================================================================
