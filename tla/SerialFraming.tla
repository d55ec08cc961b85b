---------------------------- MODULE SerialFraming ----------------------------
(***************************************************************************)
(* The ST3215 half-duplex wire: request and reply frames, and how the two  *)
(* programs that open the port find a reply in what they receive: the      *)
(* driver's SerialPort, which gives up on a malformed frame, and the limit *)
(* tool's St3215Serial, which drops a byte and waits for more.  What       *)
(* arrives is a sequence of chunks of bytes after the input was flushed.   *)
(***************************************************************************)
EXTENDS Integers, Sequences, FiniteSets, SequencesExt

Byte == 0 .. 255
Header == 255
Total(bytes) == FoldLeft(+, 0, bytes)

\* build_packet: header, then id, length, instruction or status, parameters, checksum.
Packet(id, second, params) ==
  LET body == <<id, Len(params) + 2, second>> \o params
  IN  <<Header, Header>> \o body \o <<255 - (Total(body) % 256)>>

ValidChecksum(frame) == Len(frame) >= 6 /\ Total(SubSeq(frame, 3, Len(frame))) % 256 = 255

\* Bytes are dropped until two headers, or a single byte, are at the front.
Aligned(rx) ==
  LET Found(k) == Len(rx) - k < 2 \/ (rx[k + 1] = Header /\ rx[k + 2] = Header)
      k == CHOOSE i \in 0 .. Len(rx) : Found(i) /\ \A j \in 0 .. i - 1 : ~Found(j)
  IN  SubSeq(rx, k + 1, Len(rx))

Malformed(rx) == Len(rx) >= 4 /\ 4 + rx[4] \notin 6 .. 260
Complete(rx) == Len(rx) >= 4 /\ ~Malformed(rx) /\ Len(rx) >= 4 + rx[4]

\* One turn of the read loop: a chunk arrives, one extraction is tried.  A reader is
\* [rx, result]; the result is <<"none">> until the loop returns.
Turn(reader, chunk, id, strict) ==
  LET rx == Aligned(reader.rx \o chunk)
      frame == SubSeq(rx, 1, 4 + rx[4])
      verdict == IF ~ValidChecksum(frame) THEN <<"checksum">>
                 ELSE IF frame[3] # id THEN <<"wrong_id">> ELSE <<"frame", frame>>
  IN  IF reader.result # <<"none">> THEN reader
      ELSE IF Malformed(rx) THEN [rx |-> Tail(rx),
                                  result |-> IF strict THEN <<"malformed">> ELSE <<"none">>]
      ELSE IF Complete(rx) THEN [rx |-> SubSeq(rx, 5 + rx[4], Len(rx)), result |-> verdict]
      ELSE [rx |-> rx, result |-> <<"none">>]

\* read_frame up to its deadline, which <<"none">> stands for.
ReadFrame(chunks, id, strict) ==
  FoldLeft(LAMBDA reader, chunk : Turn(reader, chunk, id, strict),
           [rx |-> <<>>, result |-> <<"none">>], chunks).result

\* read_bytes: the data of the reply to a read of n bytes, or why there is none.
ReadBytes(chunks, id, n, strict) ==
  LET r == ReadFrame(chunks, id, strict)
  IN  IF r[1] # "frame" THEN r
      ELSE IF Len(r[2]) # 6 + n THEN <<"length">>
      ELSE IF r[2][5] # 0 THEN <<"status">>
      ELSE <<"data", SubSeq(r[2], 6, 5 + n)>>

\* read_position and decodeSignedBit15: low byte first, the sign in bit 15.
Position(data) ==
  LET raw == data[1] + 256 * data[2] IN IF raw >= 32768 THEN 32768 - raw ELSE raw

-----------------------------------------------------------------------------
Split(bytes, cut) == <<SubSeq(bytes, 1, cut), SubSeq(bytes, cut + 1, Len(bytes))>>
Replies == {Packet(id, 0, <<low, high>>) : id \in {1, 4}, low \in {0, 255}, high \in {0, 2, 128}}
Noise == UNION {[1 .. n -> {0, 1, Header}] : n \in 0 .. 4}

\* Noise costs the driver the reply after it exactly when it holds two headers in a
\* row or ends with one; otherwise both readers find it, however it is cut into chunks.
NoiseIsSkipped ==
  \A noise \in Noise, reply \in Replies :
    LET bytes == noise \o reply
        clean == \A i \in 1 .. Len(noise) : noise[i] = Header => bytes[i + 1] # Header
        found == <<"data", SubSeq(reply, 6, 7)>>
    IN  /\ ReadBytes(<<bytes>>, reply[3], 2, TRUE) = found <=> clean
        /\ clean => \A cut \in 1 .. Len(bytes) - 1, strict \in BOOLEAN :
                      ReadBytes(Split(bytes, cut), reply[3], 2, strict) = found

\* No single byte that changes on the wire changes what is read.
CorruptionIsNoticed ==
  \A reply \in Replies, i \in 1 .. 8, byte \in Byte, strict \in BOOLEAN :
    byte # reply[i] => ReadBytes(<<[reply EXCEPT ![i] = byte]>>, reply[3], 2, strict)[1] # "data"

\* A reply that comes too late, after the flush for the next request, is not taken for
\* another servo's nor for a shorter register's; for the same register of the same
\* servo it is taken, and the new reply stays in the buffer for the next flush.
LateRepliesAreToldApart ==
  \A late \in Replies, reply \in Replies, strict \in BOOLEAN :
    LET r == ReadBytes(<<late \o reply>>, reply[3], 2, strict)
    IN  /\ late[3] # reply[3] => r = <<"wrong_id">>
        /\ late[3] = reply[3] => r = <<"data", SubSeq(late, 6, 7)>>
        /\ ReadBytes(<<late \o Packet(late[3], 0, <<1>>)>>, late[3], 1, strict) = <<"length">>

\* The sign survives the wire.
PositionsAreDecoded ==
  /\ {Position(SubSeq(reply, 6, 7)) : reply \in Replies} = {0, 255, 512, 767, -255}
  /\ \A x \in {-4095, -1, 1, 4095} :
       LET raw == IF x < 0 THEN 32768 - x ELSE x IN Position(<<raw % 256, raw \div 256>>) = x

FramingIsSound ==
  NoiseIsSkipped /\ CorruptionIsNoticed /\ LateRepliesAreToldApart /\ PositionsAreDecoded
=============================================================================
