---------------------------- MODULE MCBufferCache ----------------------------
(***************************************************************************)
(* Instances of BufferCache for TLC.                                       *)
(***************************************************************************)
EXTENDS BufferCache, Bitwise, TLC

CONSTANTS t1, t2

MCTasks == {t1, t2}

(* Two blocks of the hard disk and one of the ram disk. *)
MCWanted == {<<RAMDISK, 0>>, <<HARD, 0>>, <<HARD, 1>>}

(* _hashfn with NR_HASH = 2. *)
HashFn    == [k \in Keys |-> (k[1] ^^ k[2]) % 2]
MCHash(k) == HashFn[k]

(* One task reads ahead, the other does the rest; two of the first kind    *)
(* could take all of two buffers and wait for each other.                  *)
MCOps == (t1 :> {"ahead"}) @@ (t2 :> {"write", "whole", "sync"})

MCChanging == {<<HARD, 0>>}

(* All but the number of calls made so far. *)
Seen == <<heads, lists, queue, drive, cpu, pc, op, want, first, ahead, scan, bh, io>>
=============================================================================
