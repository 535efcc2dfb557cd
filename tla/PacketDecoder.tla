--------------------------- MODULE PacketDecoder ---------------------------
(***************************************************************************)
(* protobuf::ProtobufPacketDecoder (WindowsProtobufLib/protobufLib.h,     *)
(* protobufLib.cpp): the per-connection stream decoder that both the       *)
(* collector (Client::decoder) and the agent (HandlerDispatcher::decoder)  *)
(* feed with whatever a TCP read returned.                                 *)
(*                                                                         *)
(* A frame is HeaderSize header bytes (serialSize, compressSize, digest)   *)
(* followed by compressSize body bytes.  A byte is abstracted to the pair  *)
(* <<frame, position>>, so the decoder's header fields and its digest      *)
(* check can tell an aligned frame from a misaligned one.  The peer's      *)
(* byte stream is the concatenation of the frames of the constant Frames;  *)
(* a read hands the decoder its next 1..MaxChunk bytes.                    *)
(***************************************************************************)
EXTENDS Naturals, Sequences, SequencesExt

CONSTANTS
    HeaderSize,  \* PACKAGE_HEADER_SIZE (40 in the code; a small number here)
    Frames,      \* the frames the peer encodes: [msg, serial, size]
    MaxChunk,    \* largest nread a read callback delivers
    Corrupt,     \* what parseFromArray yields for misaligned bytes
    NoByte       \* initial content of header_buffer (memset 0)

ASSUME HeaderSize \in Nat \ {0}
ASSUME \A k \in DOMAIN Frames : 1 <= Frames[k].size /\ Frames[k].size <= Frames[k].serial
ASSUME MaxChunk \in Nat \ {0}

VARIABLES
    dec,       \* the decoder object: its counters, header_buffer, _buf, _vec
    fed,       \* how many bytes of the peer's stream have been passed to read()
    consumed   \* messages taken out by GetProtobufMessage(), oldest first

vars == <<dec, fed, consumed>>

Byte(k, j) == [frame |-> k, pos |-> j]

FrameBytes(k) == [j \in 1..(HeaderSize + Frames[k].size) |-> Byte(k, j)]

\* The bytes CoreMessage::toBytes emits for the whole sequence of frames.
Wire == FlattenSeq([k \in DOMAIN Frames |-> FrameBytes(k)])

Sent == [k \in DOMAIN Frames |-> Frames[k].msg]

\* htonl(*((uint32_t*)header_buffer + i)): the size fields of the frame
\* whose header bytes fill header_buffer.  Bytes that are not one frame's
\* header stand for an arbitrary non-zero size; 1 is taken as its witness.
HeaderFrame(hb) ==
    {k \in DOMAIN Frames : \A j \in 1..HeaderSize : hb[j] = Byte(k, j)}

SizeField(hb, f) ==
    IF HeaderFrame(hb) # {} THEN Frames[CHOOSE k \in HeaderFrame(hb) : TRUE][f]
    ELSE 1

\* Digest check and parseFromArray, raw or after DeCompress: the message of
\* the frame when header and body are that frame's bytes, Corrupt otherwise
\* (the digest check is an assert, compiled out in a release build).
ParsedMessage(d, body) ==
    IF \E k \in HeaderFrame(d.header) :
           body = [j \in 1..Frames[k].size |-> Byte(k, HeaderSize + j)]
    THEN Frames[CHOOSE k \in HeaderFrame(d.header) : TRUE].msg
    ELSE Corrupt

Prefix(s, n) == SubSeq(s, 1, n)
Rest(s, n) == SubSeq(s, n + 1, Len(s))

RECURSIVE ReadBytes(_, _), ParseHeader(_, _), ReadBytesLate(_, _), ParseHeaderUnbounded(_, _)

\* Mutant of ReadBytes: a chunk that ends exactly where the body ends is
\* buffered instead of completing the frame (remainSize < size).
ReadBytesLate(d, data) ==
    IF d.compressSize # 0
    THEN IF d.remainSize < Len(data)
         THEN LET have == d.compressSize - d.remainSize
                  body == Prefix(d.buf, have) \o Prefix(data, d.remainSize)
              IN ParseHeader([d EXCEPT !.vec = Append(@, ParsedMessage(d, body)),
                                       !.buf = Rest(@, have), !.compressSize = 0,
                                       !.remainSize = 0, !.headerSize = 0],
                             Rest(data, d.remainSize))
         ELSE [d EXCEPT !.buf = @ \o data, !.remainSize = @ - Len(data)]
    ELSE ParseHeader(d, data)

\* Mutant of ParseHeader: the copy loop bounded by the chunk only, not by
\* the room left in header_buffer.
ParseHeaderUnbounded(d, data) ==
    LET n  == Len(data)
        d1 == [d EXCEPT !.header = [j \in 1..HeaderSize |->
                                      IF d.headerSize < j /\ j <= d.headerSize + n
                                      THEN data[j - d.headerSize] ELSE @[j]],
                        !.headerSize = @ + n]
    IN IF d1.headerSize >= HeaderSize /\ d1.compressSize = 0
       THEN ReadBytes([d1 EXCEPT !.compressSize = SizeField(d1.header, "size"),
                                 !.remainSize = SizeField(d1.header, "size"),
                                 !.serialSize = SizeField(d1.header, "serial")], <<>>)
       ELSE d1

\* ProtobufPacketDecoder::_read: with a header in hand, either the chunk
\* completes the body (assemble it from _buf and the chunk, parse, push to
\* _vec, reset the frame state and parse the rest of the chunk as the next
\* header) or the whole chunk is appended to _buf.
ReadBytes(d, data) ==
    IF d.compressSize # 0
    THEN IF d.remainSize <= Len(data)
         THEN LET have == d.compressSize - d.remainSize
                  body == Prefix(d.buf, have) \o Prefix(data, d.remainSize)
              IN ParseHeader([d EXCEPT !.vec = Append(@, ParsedMessage(d, body)),
                                       !.buf = Rest(@, have),
                                       !.compressSize = 0,
                                       !.remainSize = 0,
                                       !.headerSize = 0],
                             Rest(data, d.remainSize))
         ELSE [d EXCEPT !.buf = @ \o data,
                        !.remainSize = @ - Len(data)]
    ELSE ParseHeader(d, data)

\* ProtobufPacketDecoder::parseHeader: copy header bytes until the header is
\* full; stop if the chunk ran out while copying; with a full header read
\* the two sizes and hand the remaining bytes to _read.
ParseHeader(d, data) ==
    LET n  == IF d.headerSize < HeaderSize
              THEN IF HeaderSize - d.headerSize < Len(data)
                   THEN HeaderSize - d.headerSize ELSE Len(data)
              ELSE 0
        d1 == [d EXCEPT !.header = [j \in 1..HeaderSize |->
                                      IF d.headerSize < j /\ j <= d.headerSize + n
                                      THEN data[j - d.headerSize] ELSE @[j]],
                        !.headerSize = @ + n]
        rest == Rest(data, n)
    IN IF d.headerSize < HeaderSize /\ rest = <<>>
       THEN d1
       ELSE IF d1.headerSize = HeaderSize /\ d1.compressSize = 0
            THEN ReadBytes([d1 EXCEPT !.compressSize = SizeField(d1.header, "size"),
                                      !.remainSize = SizeField(d1.header, "size"),
                                      !.serialSize = SizeField(d1.header, "serial")],
                           rest)
            ELSE d1

\* The ProtobufPacketDecoder constructor.
EmptyDecoder ==
    [compressSize |-> 0, remainSize |-> 0, serialSize |-> 0, headerSize |-> 0,
     header |-> [j \in 1..HeaderSize |-> NoByte], buf |-> <<>>, vec |-> <<>>]

Init ==
    /\ dec = EmptyDecoder
    /\ fed = 0
    /\ consumed = <<>>

\* ProtobufPacketDecoder::read(data, n) under _mutex, with the next n bytes.
Read(n) ==
    /\ fed + n <= Len(Wire)
    /\ dec' = ReadBytes(dec, SubSeq(Wire, fed + 1, fed + n))
    /\ fed' = fed + n
    /\ UNCHANGED consumed

\* Mutant of GetProtobufMessage: pop_back instead of pop_front.
GetProtobufMessageBack ==
    /\ dec.vec # <<>>
    /\ consumed' = Append(consumed, Last(dec.vec))
    /\ dec' = [dec EXCEPT !.vec = Front(@)]
    /\ UNCHANGED fed

\* GetProtobufMessage(): pop the front of _vec (nullptr when empty).
GetProtobufMessage ==
    /\ dec.vec # <<>>
    /\ consumed' = Append(consumed, Head(dec.vec))
    /\ dec' = [dec EXCEPT !.vec = Tail(@)]
    /\ UNCHANGED fed

Next ==
    \/ \E n \in 1..MaxChunk : Read(n)
    \/ GetProtobufMessage

Spec == Init /\ [][Next]_vars

\* ProtobufPacketDecoder::Reset(), followed, as in test.cpp encode3, by the
\* decoder being fed a new stream from its start.  _buf.clear() clears the
\* stream's state flags only; the bytes it holds stay.
Reset ==
    /\ dec' = [dec EXCEPT !.vec = <<>>, !.compressSize = 0,
                          !.remainSize = 0, !.headerSize = 0]
    /\ fed' = 0
    /\ consumed' = <<>>

ReuseSpec == Init /\ [][Next \/ Reset]_vars

-----------------------------------------------------------------------------
(* Properties *)

TypeOK ==
    /\ dec.compressSize \in Nat /\ dec.remainSize \in Nat /\ dec.serialSize \in Nat
    /\ dec.headerSize \in 0..HeaderSize
    /\ dec.buf \in Seq([frame : DOMAIN Frames, pos : Nat])
    /\ fed \in 0..Len(Wire)

\* Where frame k ends in the stream.
FrameEnd(k) == Len(FlattenSeq([i \in 1..k |-> FrameBytes(i)]))

\* Fragmentation independence, stated on the decoder's own counters: after
\* any sequence of reads, headerSize, _buf and remainSize account exactly
\* for the bytes fed since the end of the last complete frame, and
\* header_buffer holds that frame's first bytes.  A read that drops,
\* repeats or misplaces bytes at a chunk boundary breaks it.
BytesAccounted ==
    LET done  == {k \in DOMAIN Frames : FrameEnd(k) <= fed}
        start == IF done = {} THEN 0 ELSE FrameEnd(Cardinality(done))
        k     == Cardinality(done) + 1
    IN \/ fed = Len(Wire) /\ dec.headerSize = 0 /\ dec.compressSize = 0
       \/ /\ k \in DOMAIN Frames
          /\ \A j \in 1..dec.headerSize : dec.header[j] = Byte(k, j)
          /\ dec.buf = [j \in 1..Len(dec.buf) |-> Byte(k, HeaderSize + j)]
          /\ fed - start = dec.headerSize + Len(dec.buf)
          /\ dec.compressSize # 0 => dec.remainSize + Len(dec.buf) = Frames[k].size

\* Every message the decoder hands out was parsed from one aligned frame
\* (test.cpp encode3 expects whole messages after Reset and re-feeding).
NoCorruptFrame ==
    \A i \in DOMAIN (consumed \o dec.vec) : (consumed \o dec.vec)[i] # Corrupt

\* The decoder promises (DecoderQueue) that the messages taken out plus
\* those still queued are exactly those of the frames completed by the
\* bytes fed so far, in stream order: nothing lost, repeated, reordered,
\* corrupted or held back, whatever the split points of the reads.
Abstract == INSTANCE DecoderQueue
    WITH Ends <- [k \in DOMAIN Frames |-> FrameEnd(k)], Msgs <- Sent,
         Total <- Len(Wire), received <- fed, decoded <- consumed \o dec.vec

DecoderRefinement == Abstract!Spec

=============================================================================
