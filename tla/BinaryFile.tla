------------------------------- MODULE BinaryFile -------------------------------
(****************************************************************************)
(* The compressed form of binary MIR (mir-reduce.h) between MIR_write and       *)
(* MIR_read (mir.c), or between reduce_encode and reduce_decode.                 *)
(*                                                                          *)
(* What is written is cut into buffers, each compressed by itself: bytes that    *)
(* have not been seen stand for themselves, others are references to a symbol    *)
(* seen before. A symbol is a byte that stood for itself or a whole reference,   *)
(* and encoder and decoder count them alike. The file may be cut off, when its    *)
(* writer failed or was not allowed to end. The check hash is ideal: it is the    *)
(* buffers themselves.                                                          *)
(****************************************************************************)
EXTENDS Integers, Sequences, SequencesExt, FiniteSetsExt

CONSTANTS
  Inputs,      \* what may be written, sequences of bytes
  ByteBits,    \* 8
  SymbTagLen,  \* _REDUCE_SYMB_TAG_LEN, 3
  StartLen,    \* _REDUCE_START_LEN, 4
  BufLen,      \* _REDUCE_BUF_LEN, 2^18
  TableSize,   \* _REDUCE_TABLE_SIZE, 2^16
  MaxSymbLen,  \* _REDUCE_MAX_SYMB_LEN, 2047
  Hash(_)      \* mir_hash_strict of the first StartLen bytes, in 0 .. TableSize - 1

VARIABLES
  data,    \* what the client writes
  put,     \* how many bytes of it were given to reduce_encode_put
  stage,   \* "putting", "encoding", "reading", or "ended"
  enc,     \* the reduce_data of the encoder
  file,    \* the elements of the file
  cut,     \* history: the file was cut
  client,  \* who reads, "MIR_read" or "reduce_decode"
  taken,   \* how many elements the reader has taken
  dec,     \* the reduce_data of the decoder
  given,   \* what reduce_decode_get has given
  result   \* "none", "accepted", or "refused"

vars == <<data, put, stage, enc, file, cut, client, taken, dec, given, result>>
reader == <<client, taken, dec, given, result>>

(* 1 << n *)
Pow2[n \in 0 .. 4 * ByteBits] == IF n = 0 THEN 1 ELSE 2 * Pow2[n - 1]

RefTagLen == ByteBits - SymbTagLen
SymbTagLong == Pow2[SymbTagLen] - 1
RefTagLong == Pow2[RefTagLen] - 1
Byte == 0 .. Pow2[ByteBits] - 1

(* Lengths and offsets can be written (assertion mir-reduce.h:123).             *)
ASSUME FileAssumption ==
  /\ ByteBits \in Nat \ 0 .. 3 /\ SymbTagLen \in 1 .. ByteBits - 1
  /\ StartLen \in Nat \ {0} /\ TableSize \in Nat \ {0}
  /\ BufLen \in 1 .. Pow2[4 * (ByteBits - 1)] - 1
  /\ MaxSymbLen \in 1 .. Pow2[4 * (ByteBits - 1)] - 1
  /\ \A w \in Inputs : w \in Seq(Byte)
  /\ \A start \in [1 .. StartLen -> Byte] : Hash(start) \in 0 .. TableSize - 1

(* Nobody has seen anything yet (_reduce_reset_next, start of a buffer): chains   *)
(* are the elements of the table from head along next, free how many are in none. *)
Fresh == [buf |-> <<>>, pos |-> 0, num |-> 0, symb |-> <<>>, free |-> TableSize,
          chains |-> [h \in 0 .. TableSize - 1 |-> <<>>], check |-> <<>>]

Init ==
  /\ data \in Inputs
  /\ put = 0
  /\ stage = "putting"
  /\ enc = Fresh
  /\ file = <<>>
  /\ cut = FALSE
  /\ client \in {"MIR_read", "reduce_decode"}
  /\ taken = 0
  /\ dec = [buf |-> <<>>, next |-> 0, filled |-> <<>>, ind2pos |-> <<>>,
            check |-> <<>>, eof |-> FALSE]
  /\ given = <<>>
  /\ result = "none"

------------------------------------------------------------------------------
(* Numbers take one byte or more, of which the first says how many.             *)

RefOffsetSize(u) ==
  CHOOSE n \in 1 .. 4 : /\ u < Pow2[(ByteBits - 1) * n]
                        /\ \A k \in 1 .. n - 1 : u >= Pow2[(ByteBits - 1) * k]

UintWrite(u) ==
  LET n == RefOffsetSize(u)
      byte(i) == (u \div Pow2[(n - i) * ByteBits]) % Pow2[ByteBits]
  IN [i \in 1 .. n |-> IF i = 1 THEN Pow2[ByteBits - n] + byte(1) ELSE byte(i)]

UintRead(bytes) ==
  LET n == CHOOSE n \in 1 .. 4 : bytes[1] \div Pow2[ByteBits - n] = 1
      v[i \in 1 .. n] == IF i = 1 THEN bytes[1] % Pow2[ByteBits - n]
                         ELSE v[i - 1] * Pow2[ByteBits] + bytes[i]
  IN v[n]

RefSize(len, offset) ==
  (IF len - (StartLen - 1) < RefTagLong THEN 0 ELSE RefOffsetSize(len - (StartLen - 1)))
    + RefOffsetSize(offset)

(* _reduce_symb_flush and the end of _reduce_output_ref: an element of the file,  *)
(* the collected bytes and then a reference, or none.                           *)
Tagged(n, long) == IF n < long THEN n ELSE long
Number(n, long) == IF n < long THEN <<>> ELSE UintWrite(n)

Element(symb, ref, offset) ==
  [tag |-> Tagged(Len(symb), SymbTagLong) * Pow2[RefTagLen] + Tagged(ref, RefTagLong),
   symbLen |-> Number(Len(symb), SymbTagLong), symb |-> symb,
   refLen |-> Number(ref, RefTagLong), offset |-> IF ref = 0 THEN <<>> ELSE UintWrite(offset)]

(* Mutant: bytes that no reference follows are not written. *)
FlushedWithRef(symb) == <<>>

Flushed(symb) == IF symb = <<>> THEN <<>> ELSE <<Element(symb, 0, 0)>>

------------------------------------------------------------------------------
(* _reduce_encode_buf.                                                          *)

Piece(b, pos, len) == SubSeq(b, pos + 1, pos + len)
Slot(pos) == Hash(Piece(enc.buf, pos, StartLen))

(* How much of what is at enc.pos was there at the position of el, before it.     *)
Agree(el) ==
  Max({n \in 0 .. Min({Len(enc.buf) - enc.pos, enc.pos - el.pos}) :
         Piece(enc.buf, el.pos, n) = Piece(enc.buf, enc.pos, n)})

(* _reduce_dict_find_longest: the elements of the chain that may be referred to,   *)
(* and the first of those that save most.                                        *)
Chain == enc.chains[Slot(enc.pos)]
Usable ==
  IF enc.pos + StartLen > Len(enc.buf) THEN {} ELSE {i \in DOMAIN Chain : Agree(Chain[i]) >= StartLen}

Saved(i) == Agree(Chain[i]) - RefSize(Agree(Chain[i]), enc.num - Chain[i].num)

Best(i) == \A j \in Usable : Saved(j) < Saved(i) \/ (Saved(j) = Saved(i) /\ i <= j)

(* _reduce_dict_add: with no element left the last of the chain is taken, if any.  *)
Added(len) ==
  LET h == Slot(enc.pos)
      next == [enc EXCEPT !.num = @ + 1, !.pos = @ + len]
      chain == IF enc.free = 0 THEN Front(enc.chains[h]) ELSE enc.chains[h]
  IN IF enc.pos + StartLen > Len(enc.buf) \/ (enc.free = 0 /\ enc.chains[h] = <<>>)
     THEN next
     ELSE [next EXCEPT !.free = Max({0, @ - 1}),
                       !.chains[h] = <<[pos |-> enc.pos, num |-> enc.num]>> \o chain]

Encoding == stage = "encoding" /\ enc.pos < Len(enc.buf)

(* A byte that stands for itself; too many of them are written before.           *)
OutputByte ==
  /\ Encoding
  /\ Usable = {}
  /\ LET full == Len(enc.symb) + 1 > MaxSymbLen
         symb == IF full THEN <<>> ELSE enc.symb
     IN /\ file' = file \o (IF full THEN Flushed(enc.symb) ELSE <<>>)
        /\ enc' = [Added(1) EXCEPT !.symb = Append(symb, enc.buf[enc.pos + 1])]
  /\ UNCHANGED <<data, put, stage, cut, reader>>

OutputRef ==
  /\ Encoding
  /\ \E i \in Usable : LET el == Chain[i] IN
       /\ Best(i)
       /\ file' = Append(file, Element(enc.symb, Agree(el) - (StartLen - 1), enc.num - el.num))
       /\ enc' = [Added(Agree(el)) EXCEPT !.symb = <<>>]
  /\ UNCHANGED <<data, put, stage, cut, reader>>

(* reduce_encode_put: a full buffer is encoded when there is one byte more.      *)
Put ==
  /\ stage = "putting"
  /\ put < Len(data)
  /\ IF Len(enc.buf) < BufLen
     THEN /\ put' = put + 1
          /\ enc' = [enc EXCEPT !.buf = Append(@, data[put + 1])]
          /\ UNCHANGED stage
     ELSE /\ stage' = "encoding"
          /\ enc' = [enc EXCEPT !.check = Append(@, enc.buf)]
          /\ UNCHANGED put
  /\ UNCHANGED <<data, file, cut, reader>>

(* The buffer is done, and the byte that did not fit begins the next one.         *)
NextBuffer ==
  /\ stage = "encoding"
  /\ enc.pos = Len(enc.buf)
  /\ put < Len(data)
  /\ file' = file \o Flushed(enc.symb)
  /\ put' = put + 1
  /\ enc' = [Fresh EXCEPT !.buf = <<data[put + 1]>>, !.check = enc.check]
  /\ stage' = "putting"
  /\ UNCHANGED <<data, cut, reader>>

(* reduce_encode_finish, up to the encoding of the last buffer.                  *)
Finish ==
  /\ stage = "putting"
  /\ put = Len(data)
  /\ stage' = "encoding"
  /\ enc' = IF enc.buf = <<>> THEN enc ELSE [enc EXCEPT !.check = Append(@, enc.buf)]
  /\ UNCHANGED <<data, put, file, cut, reader>>

(* Zero and the check hash end the file, and the reader opens it, or what is     *)
(* there of it. An element that is not there to its end is none for the reader.   *)
Open ==
  /\ stage = "encoding"
  /\ enc.pos = Len(enc.buf)
  /\ put = Len(data)
  /\ LET whole == file \o Flushed(enc.symb) \o <<[tag |-> 0, hash |-> enc.check]>> IN
       \E n \in 0 .. Len(whole) :
         /\ file' = SubSeq(whole, 1, n)
         /\ cut' = (n < Len(whole))
  /\ stage' = "reading"
  /\ UNCHANGED <<data, put, enc, reader>>

------------------------------------------------------------------------------
(* reduce_decode_get.                                                           *)

Wants ==
  /\ stage = "reading"
  /\ client = "MIR_read" => Len(given) < Len(data)

(* A byte that is there.                                                        *)
Give ==
  /\ Wants
  /\ dec.next < Len(dec.buf)
  /\ given' = Append(given, dec.buf[dec.next + 1])
  /\ dec' = [dec EXCEPT !.next = @ + 1]
  /\ UNCHANGED <<data, put, stage, enc, file, cut, client, taken, result>>

Decoding == Wants /\ dec.next = Len(dec.buf) /\ ~dec.eof

Refuse == stage' = "ended" /\ result' = "refused"

(* What an element of the file says: how many bytes stand for themselves, and how  *)
(* many are those of a symbol seen before.                                       *)
SymbTag(e) == e.tag \div Pow2[RefTagLen]
RefTag(e) == e.tag % Pow2[RefTagLen]
SymbLen(e) == IF SymbTag(e) = SymbTagLong THEN UintRead(e.symbLen) ELSE SymbTag(e)
RefLen(e) ==
  (IF RefTag(e) = RefTagLong THEN UintRead(e.refLen) ELSE RefTag(e)) + StartLen - 1

(* What the decoder d makes of it: the places of the symbols, the bytes, and where   *)
(* the symbol is that is referred to.                                             *)
Symbols(d, e) == d.ind2pos \o [i \in 1 .. SymbLen(e) |-> Len(d.filled) + i - 1]
Bytes(d, e) == d.filled \o SubSeq(e.symb, 1, SymbLen(e))
Place(d, e) == Symbols(d, e)[Len(Symbols(d, e)) + 1 - UintRead(e.offset)]

Legal(d, e) ==
  /\ SymbLen(e) <= MaxSymbLen /\ Len(d.filled) + SymbLen(e) <= BufLen
  /\ RefTag(e) # 0 => /\ UintRead(e.offset) <= Len(Symbols(d, e))
                      /\ Place(d, e) + RefLen(e) <= BufLen

Filled(d, e) ==
  Bytes(d, e) \o (IF RefTag(e) = 0 THEN <<>> ELSE Piece(Bytes(d, e), Place(d, e), RefLen(e)))
Numbered(d, e) == Symbols(d, e) \o (IF RefTag(e) = 0 THEN <<>> ELSE <<Len(Bytes(d, e))>>)

(* The bytes and the reference of an element; a full buffer can be given.        *)
Decode ==
  /\ Decoding
  /\ taken < Len(file)
  /\ LET e == file[taken + 1]
         filled == Filled(dec, e)
     IN /\ e.tag # 0
        /\ IF ~Legal(dec, e) THEN Refuse /\ UNCHANGED dec
           ELSE /\ dec' = IF Len(filled) < BufLen
                          THEN [dec EXCEPT !.filled = filled, !.ind2pos = Numbered(dec, e)]
                          ELSE [dec EXCEPT !.buf = filled, !.next = 0, !.filled = <<>>,
                                           !.ind2pos = <<>>, !.check = Append(@, filled)]
                /\ UNCHANGED <<stage, result>>
  /\ taken' = taken + 1
  /\ UNCHANGED <<data, put, enc, file, cut, client, given>>

(* The last buffer can be given when the hash is right.                          *)
CheckHash ==
  /\ Decoding
  /\ taken < Len(file)
  /\ file[taken + 1].tag = 0
  /\ LET check == IF dec.filled = <<>> THEN dec.check ELSE Append(dec.check, dec.filled)
     IN IF check = file[taken + 1].hash /\ taken + 1 = Len(file)
        THEN /\ dec' = [dec EXCEPT !.buf = dec.filled, !.next = 0, !.check = check, !.eof = TRUE]
             /\ UNCHANGED <<stage, result>>
        ELSE Refuse /\ UNCHANGED dec
  /\ taken' = taken + 1
  /\ UNCHANGED <<data, put, enc, file, cut, client, given>>

(* reduce_decode_get fails: MIR_read reports an unfinished binary, reduce_decode    *)
(* a corrupted one.                                                             *)
CutOff ==
  /\ Decoding
  /\ taken = Len(file)
  /\ Refuse
  /\ UNCHANGED <<data, put, enc, file, cut, client, taken, dec, given>>

(* reduce_decode has got all, MIR_read has read TAG_EOFILE, and there must be      *)
(* nothing more in the file, not even a part of what was cut.                     *)
Ended ==
  /\ stage = "reading"
  /\ IF client = "MIR_read" THEN Len(given) = Len(data)
     ELSE dec.next = Len(dec.buf) /\ dec.eof
  /\ stage' = "ended"
  /\ \/ taken = Len(file) /\ result' = "accepted"
     \/ (taken < Len(file) \/ cut) /\ result' = "refused"
  /\ UNCHANGED <<data, put, enc, file, cut, client, taken, dec, given>>

Next ==
  \/ Put \/ OutputByte \/ OutputRef \/ NextBuffer \/ Finish \/ Open
  \/ Give \/ Decode \/ CheckHash \/ CutOff \/ Ended

Spec == Init /\ [][Next]_vars

------------------------------------------------------------------------------
(* What is read is what was written, from its beginning on and, when the file is   *)
(* accepted, to its end. A file that was not cut is accepted, except that        *)
(* MIR_read refuses one whose last buffer is full: TAG_EOFILE is read from that    *)
(* buffer before the decoder has taken the hash, which is then the garbage at the  *)
(* end of the file (mir.c:5165). No buffer gets too long (assertion mir-reduce.h:412). *)
RoundTrip ==
  /\ Len(dec.buf) <= BufLen
  /\ IsPrefix(given, data)
  /\ result = "accepted" => given = data
  /\ result = "refused" => cut \/ (client = "MIR_read" /\ Len(data) % BufLen = 0)
==============================================================================
