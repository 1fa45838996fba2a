--------------------------- MODULE SummaryFraming ---------------------------
(***************************************************************************)
(* How an update becomes bytes and an update again: encode_full and        *)
(* encode_batch_summary in src/platform/CRIoT.h, the sending loops of      *)
(* src/TinyCR/TinyCRServer.h, the receiving loops of                       *)
(* src/TinyCR/TinyCRClient.h, decode_full and decode_batch_summary, and    *)
(* the integer codec of src/utils/helpers.cpp.                             *)
(*                                                                         *)
(* A message has no length.  It ends where a piece that recv has returned  *)
(* ends in the word "finish", and the network cuts the bytes into pieces   *)
(* as it likes, none longer than the buffer.  Nor has it a type: the byte  *)
(* "F" begins a full update, anything else is the number of actions.       *)
(*                                                                         *)
(* The model is of one exchange over one connection; a byte has Base       *)
(* values instead of 256, and the integers are as wide as the constants    *)
(* say.                                                                    *)
(***************************************************************************)
EXTENDS Naturals, Sequences, SequencesExt

CONSTANTS
  Base,      \* how many values a byte has
  Word,      \* "finish"
  Marker,    \* "F", 70
  MAXRECV,   \* the size of the receiver's buffer
  Int32,     \* bytes of a uint32_t, and of a value
  Int64,     \* bytes of a uint64_t, and of a key
  Batches,   \* the delta updates: sequences of actions
  Fulls      \* the full updates

Byte == 0 .. Base - 1

\* 1 shifted by some bytes.
Shifted[bytes \in Nat] == IF bytes = 0 THEN 1 ELSE Base * Shifted[bytes - 1]

\* The integers of some bytes.
Uint(width) == 0 .. Shifted[width] - 1

Action ==
  [action : Byte, key : Uint(Int64), value : Uint(Int32), flips : Seq(Uint(Int32))]

-----------------------------------------------------------------------------
(* The integers between the vectors of a full update, by name and width, in  *)
(* the order of the code.                                                    *)

OthelloFields == <<<<"ma", Int32>>, <<"mb", Int32>>, <<"hab", Int64>>, <<"hd", Int32>>>>

FilterFields ==
  <<<<"n", Int64>>, <<"m", Int32>>, <<"filled_cell", Int32>>,
    <<"max_kick_steps", Int32>>, <<"max_2_power", Int32>>, <<"big_seg", Int32>>,
    <<"isSmall", 1>>, <<"len0", Int32>>, <<"len1", Int32>>, <<"len2", Int32>>,
    <<"len3", Int32>>, <<"fp_len", Int32>>>>

Names(fields) == {fields[i][1] : i \in DOMAIN fields}

\* r has these fields, and they have their widths.
Filled(r, fields) ==
  /\ r = [name \in Names(fields) |-> r[name]]
  /\ \A i \in DOMAIN fields : r[fields[i][1]] \in Uint(fields[i][2])

\* The sizes of the vectors are integers, and T is what the filter takes.
Full(u) ==
  /\ u = [kind |-> "full", mem |-> u.mem, othello |-> u.othello, e |-> u.e,
          vf |-> u.vf, memory_consumption |-> u.memory_consumption, T |-> u.T]
  /\ u.mem \in Seq(Uint(Int64)) /\ Len(u.mem) \in Uint(Int32)
  /\ u.e \in Seq(Byte) /\ Len(u.e) \in Uint(Int32)
  /\ u.memory_consumption \in Uint(Int64)
  /\ u.T \in Seq(Uint(Int32)) /\ Len(u.T) = u.memory_consumption \div Int32
  /\ Filled(u.othello, OthelloFields) /\ Filled(u.vf, FilterFields)

ASSUME FramingAssumption ==
  /\ Base \in Nat /\ Marker \in Byte
  /\ Int32 \in Nat \ {0} /\ Int64 \in Nat \ {0}
  /\ Word \in Seq(Byte) /\ Word # <<>>
  /\ MAXRECV \in Nat /\ MAXRECV > Len(Word)
  /\ Batches \subseteq Seq(Action)
  /\ \A u \in Fulls : Full(u)

VARIABLES
  update,    \* what the server sends
  left,      \* the bytes that the device has not received
  msg,       \* the bytes it has collected
  decoded,   \* what it has made of them, or Nothing
  cut,       \* ghost: a piece has ended inside the last word
  greedy     \* ghost: every piece was as long as the buffer, or the last one

vars == <<update, left, msg, decoded, cut, greedy>>

Nothing == [kind |-> "nothing"]

\* What comes of reading behind the end of a vector: anything.
Garbage == [kind |-> "garbage"]

-----------------------------------------------------------------------------
(* The integer codec: the most significant byte first. *)

split_uint_t(x, width) == [i \in 1 .. width |-> (x \div Shifted[width - i]) % Base]

\* Mistake: the last byte is read a place too early.
combine_charsShort(s, at, width) ==
  LET value[i \in 0 .. width] ==
        IF i = 0 THEN 0
        ELSE value[i - 1] * Base + s[IF i = width THEN at + i - 2 ELSE at + i - 1]
  IN  value[width]

combine_chars(s, at, width) ==
  LET value[i \in 0 .. width] ==
        IF i = 0 THEN 0 ELSE value[i - 1] * Base + s[at + i - 1]
  IN  value[width]

split_uint_t_vector(xs, width) ==
  FlattenSeq([i \in DOMAIN xs |-> split_uint_t(xs[i], width)])

combine_vector(s, at, n, width) ==
  [i \in 1 .. n |-> combine_chars(s, at + (i - 1) * width, width)]

-----------------------------------------------------------------------------
(* Delta updates. *)

encode_summary(a) ==
  <<a.action>> \o split_uint_t(a.key, Int64) \o split_uint_t(a.value, Int32)
    \o <<Len(a.flips) % Base>> \o split_uint_t_vector(a.flips, Int32)

\* Mistake: the number of actions is not narrowed to a byte.
encode_batch_summaryWide(as) ==
  <<Len(as)>> \o FlattenSeq([i \in DOMAIN as |-> encode_summary(as[i])])

encode_batch_summary(as) ==
  <<Len(as) % Base>> \o FlattenSeq([i \in DOMAIN as |-> encode_summary(as[i])])

\* The bytes of an action before its indexes.
Head32 == 2 + Int64 + Int32

\* The action at offset at; the reader has checked nothing.
decode_sub_summary(s, at) ==
  [action |-> s[at],
   key    |-> combine_chars(s, at + 1, Int64),
   value  |-> combine_chars(s, at + 1 + Int64, Int32),
   flips  |-> combine_vector(s, at + Head32, s[at + Head32 - 1], Int32)]

decode_batch_summary(s) ==
  LET \* Where the action after the first i begins; 0 behind the end.
      offset[i \in 0 .. s[1]] ==
        IF i = 0 THEN 2
        ELSE LET at   == offset[i - 1]
                 next == at + Head32 + s[at + Head32 - 1] * Int32
             IN  IF at = 0 \/ at + Head32 - 1 > Len(s) THEN 0
                 ELSE IF next > Len(s) + 1 THEN 0 ELSE next
  IN  IF offset[s[1]] = 0 THEN Garbage
      ELSE [kind |-> "batch",
            actions |-> [i \in 1 .. s[1] |-> decode_sub_summary(s, offset[i - 1])]]

-----------------------------------------------------------------------------
(* Full updates: the Othello, then the filter. *)

\* The bytes of the first n fields.
Width(fields, n) ==
  LET width[i \in 0 .. n] == IF i = 0 THEN 0 ELSE width[i - 1] + fields[i][2]
  IN  width[n]

EncodeFields(r, fields) ==
  FlattenSeq([i \in DOMAIN fields |-> split_uint_t(r[fields[i][1]], fields[i][2])])

DecodeFields(s, at, fields) ==
  [name \in Names(fields) |->
     LET i == CHOOSE j \in DOMAIN fields : fields[j][1] = name
     IN  combine_chars(s, at + Width(fields, i - 1), fields[i][2])]

encode_full(u) ==
  <<Marker>>
    \o split_uint_t(Len(u.mem), Int32) \o split_uint_t_vector(u.mem, Int64)
    \o EncodeFields(u.othello, OthelloFields)
    \o split_uint_t(u.memory_consumption, Int64)
    \o split_uint_t(Len(u.e), Int32) \o u.e
    \o EncodeFields(u.vf, FilterFields)
    \o split_uint_t_vector(SubSeq(u.T, 1, u.memory_consumption \div Int32), Int32)

decode_full(s) ==
  LET Within(at, n) == at + n <= Len(s) + 1
      mem_size == combine_chars(s, 2, Int32)
      othello  == 2 + Int32 + mem_size * Int64
      memory   == othello + Width(OthelloFields, 4)
      consumed == combine_chars(s, memory, Int64)
      e        == memory + Int64 + Int32
      ess      == combine_chars(s, memory + Int64, Int32)
      T        == e + ess + Width(FilterFields, 12)
      T_len    == consumed \div Int32
  IN  IF /\ Within(2, Int32)
         /\ Within(othello, e - othello)
         /\ Within(e, ess + Width(FilterFields, 12))
         /\ Within(T, T_len * Int32)
      THEN [kind    |-> "full",
            mem     |-> combine_vector(s, 2 + Int32, mem_size, Int64),
            othello |-> DecodeFields(s, othello, OthelloFields),
            memory_consumption |-> consumed,
            e       |-> SubSeq(s, e, e + ess - 1),
            vf      |-> DecodeFields(s, e + ess, FilterFields),
            T       |-> combine_vector(s, T, T_len, Int32)]
      ELSE Garbage

-----------------------------------------------------------------------------
Encoded(u) == IF u.kind = "full" THEN encode_full(u) ELSE encode_batch_summary(u.actions)

Sent(u) == Encoded(u) \o Word

Init ==
  /\ update \in [kind : {"batch"}, actions : Batches] \cup Fulls
  /\ left = Sent(update)
  /\ msg = <<>>
  /\ decoded = Nothing
  /\ cut = FALSE
  /\ greedy = TRUE

\* Mistake: off by one, a piece that is no more than the word is not looked at.
EndsInWordLong(piece) == Len(piece) > Len(Word) /\ IsSuffix(Word, piece)

\* The six last bytes of the piece.  Before a shorter piece there is the size
\* that the allocator keeps, whose top byte is no letter.
EndsInWord(piece) == IsSuffix(Word, piece)

Dispatch(s) == IF s[1] = Marker THEN decode_full(s) ELSE decode_batch_summary(s)

\* recv returns the next n bytes.
Recv(n) ==
  LET piece == SubSeq(left, 1, n)
  IN  /\ decoded = Nothing
      /\ msg' = msg \o piece
      /\ left' = SubSeq(left, n + 1, Len(left))
      /\ decoded' = IF EndsInWord(piece) THEN Dispatch(msg') ELSE Nothing
      /\ cut' = (cut \/ Len(left) - n \in 1 .. Len(Word) - 1)
      /\ greedy' = (greedy /\ n \in {MAXRECV, Len(left)})
      /\ UNCHANGED update

Next == \E n \in 1 .. MAXRECV : n <= Len(left) /\ Recv(n)

\* What has been sent arrives.
Spec == Init /\ [][Next]_vars /\ WF_vars(Next)

-----------------------------------------------------------------------------
TypeOK ==
  /\ left \in Seq(Byte) /\ msg \in Seq(Byte)
  /\ decoded.kind \in {"nothing", "garbage", "batch", "full"}
  /\ cut \in BOOLEAN /\ greedy \in BOOLEAN

\* The counts that a byte can hold, and that do not look like a full update.
Countable(u) ==
  u.kind = "batch" =>
    /\ Len(u.actions) < Base /\ Len(u.actions) # Marker
    /\ \A i \in DOMAIN u.actions : Len(u.actions[i].flips) < Base

\* The word occurs in the update itself, or runs into the one that ends it.
Ambiguous(u) ==
  LET s == Sent(u)
  IN  \E i \in 1 .. Len(s) - Len(Word) : SubSeq(s, i, i + Len(Word) - 1) = Word

\* What the device decodes is what the server sent, however it was cut, unless
\* a count does not fit its byte, a batch has as many actions as `F' is, or the
\* word is in the data (CRIoT.h encode_batch_summary, encode_full and the
\* decoders; the reader knows no offset but those it has read).
RoundTrip ==
  decoded # Nothing /\ Countable(update) /\ ~Ambiguous(update) => decoded = update

\* The device answers every update, unless the network has cut the last word in
\* two: then it waits for bytes, and the server for the answer, with their locks
\* held (TinyCRClient.h listenForUpdates, TinyCRServer.h sendSummaryUpdate).
Answered == <>(decoded # Nothing \/ cut)

\* Also when all the bytes have arrived before the device reads, there are
\* lengths for which the word is cut: those that leave less than a word over
\* when divided by the size of the buffer.
LengthDecides ==
  greedy /\ left = <<>> =>
    (decoded # Nothing <=> Len(Sent(update)) % MAXRECV \notin 1 .. Len(Word) - 1)
=============================================================================
