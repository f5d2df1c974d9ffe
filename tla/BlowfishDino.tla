---------------------------- MODULE BlowfishDino ----------------------------
(***************************************************************************)
(* The Blowfish application on DINO: only the boxes are in non-volatile    *)
(* memory; the keys, the vector and the blocks are in locals.  The power   *)
(* fails between any two stores of a set key, and after every LINE words   *)
(* of the first contents of a box.                                         *)
(***************************************************************************)
EXTENDS BlowfishCipher

\* Word i of box k is in line i \div LINE of it.
LINE == 16
s(k, i) == <<k, i \div LINE>>

\* index2 counts words while the key is set, and bytes of the text after that.
Start == [at |-> "main",
          vol |-> [ukey |-> [i \in 0..15 |-> 0], key |-> InitKey, iv |-> [i \in 0..7 |-> 0],
                   index |-> 0, setting_key |-> TRUE, index2 |-> 0, n |-> 0,
                   data |-> <<ZeroWord, ZeroWord>>, out |-> <<>>],
          nv |-> [l \in (0..3) \X (0..256 \div LINE - 1) |-> [i \in 0..LINE-1 |-> ZeroWord]]]

Seg(stores, vol, b) == [stores |-> stores, vol |-> vol, next |-> b]

SetUkey(vol) == Seg(<<>>, [vol EXCEPT !.ukey = [i \in 0..15 |-> ukey_byte(i)]], "TASK_SET_UKEY")

InitS(vol) ==
    LET box == InitBox(vol.index)
        line(l) == <<<<vol.index, l>>, [i \in 0..LINE-1 |-> box[LINE * l + i]]>>
    IN  Seg([l \in 1..256 \div LINE |-> line(l - 1)], [vol EXCEPT !.index = @ + 1],
            IF vol.index < 3 THEN "TASK_INIT_KEY" ELSE "TASK_INIT_S")

SetKey(vol) == Seg(<<>>, [vol EXCEPT !.key = MixedKey(@, vol.ukey)], "TASK_SET_KEY")

Encrypt(vol, nv) ==
    LET box == [b \in 0..3 |-> [i \in 0..255 |-> nv[s(b, i)][i % LINE]]]
    IN  Seg(<<>>, [vol EXCEPT !.data = Encrypted(@, vol.key, box)], "TASK_ENCRYPT_END")

\* BF_encrypt() returns: to the loop of BF_set_key() or, after that, to
\* BF_cfb64_encrypt().
EncryptEnd(vol, nv) ==
    LET li == vol.index2 + 2
        counted == [vol EXCEPT !.index2 = li]
        line == s(Box(li), BoxIndex(li))
        one == [nv[line] EXCEPT ![BoxIndex(li) % LINE] = vol.data[1]]
        both == [one EXCEPT ![(BoxIndex(li) % LINE) + 1] = vol.data[2]]
    IN  CASE ~vol.setting_key ->
               Seg(<<>>, [vol EXCEPT !.iv = BlockBytes(vol.data)], "TASK_START_ENCRYPT2")
          [] vol.setting_key /\ li < KEY_WORDS ->
               Seg(<<>>, [counted EXCEPT !.key[li-2] = vol.data[1], !.key[li-1] = vol.data[2]], "TASK_ENCRYPT")
          [] vol.setting_key /\ li \in KEY_WORDS..ALL_WORDS-1 ->
               Seg(<<<<line, one>>, <<line, both>>>>, counted, "TASK_ENCRYPT")
          [] OTHER -> Seg(<<>>, [vol EXCEPT !.setting_key = FALSE, !.index2 = 0, !.n = 0], "TASK_START_ENCRYPT")

StartEncrypt(vol) ==
    IF vol.n = 0 THEN Seg(<<>>, [vol EXCEPT !.data = BlockOf(vol.iv)], "TASK_ENCRYPT")
    ELSE Seg(<<>>, vol, "TASK_START_ENCRYPT2")

StartEncrypt2(vol) ==
    LET c == indata[vol.index2 + 1] ^^ vol.iv[vol.n]
    IN  Seg(<<>>, [vol EXCEPT !.out = Append(@, c), !.iv[vol.n] = c, !.n = (@ + 1) % 8, !.index2 = @ + 1],
            IF vol.index2 + 1 < LENGTH THEN "TASK_START_ENCRYPT" ELSE "exit")

Segment(at, vol, nv) ==
    CASE at = "main" -> Seg(<<>>, [vol EXCEPT !.iv = [i \in 0..7 |-> 0]], "TASK_INIT")
      [] at = "TASK_INIT" -> SetUkey(vol)
      [] at = "TASK_SET_UKEY" -> Seg(<<>>, [vol EXCEPT !.key = InitKey, !.index = 0], "TASK_INIT_KEY")
      [] at = "TASK_INIT_KEY" -> InitS(vol)
      [] at = "TASK_INIT_S" -> SetKey(vol)
      [] at = "TASK_SET_KEY" -> Seg(<<>>, [vol EXCEPT !.data = <<ZeroWord, ZeroWord>>, !.index2 = 0], "TASK_ENCRYPT")
      [] at = "TASK_ENCRYPT" -> Encrypt(vol, nv)
      [] at = "TASK_ENCRYPT_END" -> EncryptEnd(vol, nv)
      [] at = "TASK_START_ENCRYPT" -> StartEncrypt(vol)
      [] at = "TASK_START_ENCRYPT2" -> StartEncrypt2(vol)
=============================================================================
