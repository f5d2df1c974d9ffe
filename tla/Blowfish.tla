------------------------------ MODULE Blowfish ------------------------------
(***************************************************************************)
(* The Blowfish application on Alpaca: it makes the key and the boxes from *)
(* the user's key, and encrypts a text with them byte by byte (CFB).  The  *)
(* cipher is a task that returns to next_task.                             *)
(***************************************************************************)
EXTENDS BlowfishCipher

VARIABLES task, mem, out

vars == <<task, mem, out>>

Init ==
    /\ task = "_entry_task"
    /\ mem = [result |-> [i \in 0..LENGTH-1 |-> 0], ukey |-> [i \in 0..15 |-> 0],
              s |-> [k \in 0..3 |-> [i \in 0..255 |-> ZeroWord]], key |-> [i \in 0..17 |-> ZeroWord],
              index |-> 0, index2 |-> 0, n |-> 0, next_task |-> "NULL",
              input |-> <<ZeroWord, ZeroWord>>, iv |-> [i \in 0..7 |-> 0]]
    /\ out = <<>>

At(t) == task = t
TRANSITION_TO(t) == task' = t

Enter == /\ At("_entry_task")
         /\ TRANSITION_TO("task_init")
         /\ UNCHANGED <<mem, out>>

TaskInit == /\ At("task_init")
            /\ mem' = [mem EXCEPT !.n = 0, !.index = 0, !.index2 = 0, !.iv = [i \in 0..7 |-> 0]]
            /\ TRANSITION_TO("task_set_ukey")
            /\ UNCHANGED out

SetUkey == /\ At("task_set_ukey")
           /\ mem' = [mem EXCEPT !.ukey = [i \in 0..15 |-> ukey_byte(i)]]
           /\ TRANSITION_TO("task_init_key")
           /\ UNCHANGED out

TaskInitKey == /\ At("task_init_key")
               /\ mem' = [mem EXCEPT !.key = InitKey]
               /\ TRANSITION_TO("task_init_s")
               /\ UNCHANGED out

InitS == /\ At("task_init_s")
         /\ \/ /\ mem.index = 3
               /\ mem' = [mem EXCEPT !.s[3] = InitBox(3)]
               /\ TRANSITION_TO("task_set_key")
            \/ /\ mem.index # 3
               /\ mem' = [mem EXCEPT !.s[mem.index] = InitBox(mem.index), !.index = @ + 1]
               /\ TRANSITION_TO("task_init_s")
         /\ UNCHANGED out

SetKey == /\ At("task_set_key")
          /\ mem' = [mem EXCEPT !.key = MixedKey(@, mem.ukey)]
          /\ TRANSITION_TO("task_set_key2")
          /\ UNCHANGED out

SetKey2 ==
    LET i == mem.index2
    IN  /\ At("task_set_key2")
        /\ \/ /\ i = 0
              /\ mem' = [mem EXCEPT !.input = <<ZeroWord, ZeroWord>>, !.index2 = 2, !.next_task = "task_set_key2"]
              /\ TRANSITION_TO("task_encrypt")
           \/ /\ i # 0 /\ i < KEY_WORDS
              /\ mem' = [mem EXCEPT !.key[i - 2] = mem.input[1], !.key[i - 1] = mem.input[2], !.index2 = i + 2]
              /\ TRANSITION_TO("task_encrypt")
           \/ /\ i \in KEY_WORDS..ALL_WORDS-1
              /\ LET more == i + 2 < ALL_WORDS
                 IN  /\ mem' = [mem EXCEPT !.s[Box(i)][BoxIndex(i)] = mem.input[1],
                                           !.s[Box(i)][BoxIndex(i) + 1] = mem.input[2],
                                           !.index2 = IF more THEN i + 2 ELSE 0]
                     /\ TRANSITION_TO(IF more THEN "task_encrypt" ELSE "task_start_encrypt")
        /\ UNCHANGED out

TaskEncrypt ==
    /\ At("task_encrypt")
    /\ mem' = [mem EXCEPT !.input = Encrypted(@, mem.key, mem.s)]
    /\ TRANSITION_TO(mem.next_task)
    /\ UNCHANGED out

\* Every 8 bytes the vector is encrypted.
StartEncrypt ==
    /\ At("task_start_encrypt")
    /\ \/ /\ mem.n = 0
          /\ mem' = [mem EXCEPT !.input = BlockOf(mem.iv), !.next_task = "task_start_encrypt2"]
          /\ TRANSITION_TO("task_encrypt")
       \/ /\ mem.n # 0
          /\ TRANSITION_TO("task_start_encrypt3")
          /\ UNCHANGED mem
    /\ UNCHANGED out

StartEncrypt2 == /\ At("task_start_encrypt2")
                 /\ mem' = [mem EXCEPT !.iv = BlockBytes(mem.input)]
                 /\ TRANSITION_TO("task_start_encrypt3")
                 /\ UNCHANGED out

StartEncrypt3 ==
    LET c == indata[mem.index2 + 1] ^^ mem.iv[mem.n]
    IN  /\ At("task_start_encrypt3")
        /\ mem' = [mem EXCEPT !.result[mem.index2] = c, !.iv[mem.n] = c, !.n = (@ + 1) % 8, !.index2 = @ + 1]
        /\ out' = Append(out, c)
        /\ TRANSITION_TO(IF mem.index2 + 1 = LENGTH THEN "task_done" ELSE "task_start_encrypt")

Done == /\ At("task_done")
        /\ TRANSITION_TO("exit")
        /\ UNCHANGED <<mem, out>>

Next == \/ Enter        \/ TaskInit      \/ SetUkey       \/ TaskInitKey \/ InitS \/ SetKey \/ SetKey2
        \/ TaskEncrypt  \/ StartEncrypt  \/ StartEncrypt2 \/ StartEncrypt3
        \/ Done

Spec == Init /\ [][Next]_vars
=============================================================================
