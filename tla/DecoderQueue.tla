---------------------------- MODULE DecoderQueue ----------------------------
(***************************************************************************)
(* What a stream decoder promises (spec.md 4.3): fed the bytes of a        *)
(* sequence of frames in chunks of any size, it holds, in order, exactly   *)
(* the messages of the frames whose last byte has arrived.                 *)
(***************************************************************************)
EXTENDS Naturals, Sequences, FiniteSets

CONSTANTS
    Ends,   \* Ends[k]: offset of the last byte of frame k in the stream
    Msgs,   \* Msgs[k]: the message frame k carries
    Total   \* length of the stream

VARIABLES received, decoded

Completed(n) == SubSeq(Msgs, 1, Cardinality({k \in DOMAIN Ends : Ends[k] <= n}))

Init ==
    /\ received = 0
    /\ decoded = <<>>

Receive(n) ==
    /\ received + n <= Total
    /\ received' = received + n
    /\ decoded' = Completed(received')

Spec == Init /\ [][\E n \in 1..Total : Receive(n)]_<<received, decoded>>

=============================================================================
