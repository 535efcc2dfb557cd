-------------------------- MODULE MCPacketDecoder --------------------------
(* Six frames,  messages repeating; a 3-byte header;                     *)
(* compressed frames (size < serial) and raw ones; reads of any          *)
(* length up to the whole stream.                                         *)
EXTENDS PacketDecoder

CONSTANTS m1, m2

MCFrames ==
    << [msg |-> m1, serial |-> 3, size |-> 2],
       [msg |-> m2, serial |-> 1, size |-> 1],
       [msg |-> m1, serial |-> 2, size |-> 2],
       [msg |-> m2, serial |-> 2, size |-> 1],
       [msg |-> m1, serial |-> 3, size |-> 3],
       [msg |-> m2, serial |-> 1, size |-> 1] >>

MCMaxChunk == 28
=============================================================================
