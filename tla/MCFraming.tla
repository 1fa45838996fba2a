----------------------------- MODULE MCFraming -----------------------------
(* A small instance of SummaryFraming: bytes of four values, a word of three *)
(* letters, integers of two and of three bytes.                              *)
EXTENDS SummaryFraming

MCWord == <<1, 0, 2>>

\* 18 is the word in three bytes.  Four indexes, and four actions, are one more
\* than a byte counts; three actions look like "F".
MCActions ==
  {[action |-> 0, key |-> 57, value |-> 1, flips |-> <<>>],
   [action |-> 2, key |-> 7, value |-> 0, flips |-> <<14, 5>>],
   [action |-> 3, key |-> 18, value |-> 1, flips |-> <<9>>],
   [action |-> 0, key |-> 1, value |-> 0, flips |-> <<3, 15, 0, 8>>]}

MCBatches == BoundedSeq(MCActions, 4) \ {<<>>}

\* The bytes of the filter's table need not be a multiple of an integer.
MCFulls ==
  [kind : {"full"}, mem : {<<57>>, <<60, 18>>}, e : {<<3, 1>>, <<2>>},
   othello : {[ma |-> 3, mb |-> 2, hab |-> 44, hd |-> 11]},
   vf : {[n |-> 2, m |-> 4, filled_cell |-> 7, max_kick_steps |-> 15,
          max_2_power |-> 2, big_seg |-> 0, isSmall |-> 1, len0 |-> 1, len1 |-> 1,
          len2 |-> 1, len3 |-> 3, fp_len |-> 4]},
   memory_consumption : {4, 5}, T : {<<9, 14>>, <<0, 13>>}]
=============================================================================
