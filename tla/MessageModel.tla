---------------------------- MODULE MessageModel ----------------------------
(***************************************************************************)
(* The message taxonomy of WindowsProtobufLib: CoreMessage and its         *)
(* variants, as the protocol sees them.  A message is a record with the    *)
(* envelope id and operation and the variant fields the protocol reads:    *)
(* the record ids of a LogPackage and its needAccept flag, the lastEvent   *)
(* of ReturnLastEventPackage / AcceptLastEventPackage and the refused id   *)
(* of RefusePackage, and the sender's machine ID and OS version, which    *)
(* the collector's GetClient reads.  The other strings (names,            *)
(* timestamps, descriptions, xml) are left out: no decision in the code    *)
(* depends on them.                                                        *)
(*                                                                         *)
(* Encode is what CoreMessage::toBytes puts in the coreMessage protobuf;   *)
(* BuildObj is CoreMessage::BuildObj, which the decoder applies to every   *)
(* frame it parses.                                                        *)
(***************************************************************************)
EXTENDS Naturals, Sequences

\* protobuf::Operation
Operations ==
    {"NONE_OPERATION", "CHECK_VERSION", "UPDATE_LOG", "QUERY_LAST_EVENT",
     "RETURN_LAST_EVENT", "ACCEPT_LAST_EVENT", "CONNECT", "REFUSE"}

\* The coreMessage_Operation value an operation is written as; operations
\* the switch does not list go out as the INT_MIN sentinel.
WireOp(op) ==
    IF op \in {"CONNECT", "CHECK_VERSION", "UPDATE_LOG", "QUERY_LAST_EVENT",
               "RETURN_LAST_EVENT", "ACCEPT_LAST_EVENT"}
    THEN op ELSE "INT_MIN_SENTINEL"

\* The result of BuildObj for an operation it does not build (nullptr).
NoMessage == [op |-> "nullptr"]

\* A message as constructed: the envelope's machine ID and OS version are
\* filled in by toBytes from the process's statics ("none" until then).
Msg(op, id, rids, need, last, refused) ==
    [op |-> op, id |-> id, rids |-> rids, needAccept |-> need,
     lastEvent |-> last, refuseId |-> refused, mid |-> "none", os |-> "none"]

ConnectPackage(id)              == Msg("CONNECT", id, <<>>, FALSE, 0, 0)
QueryLastEventPackage(id)       == Msg("QUERY_LAST_EVENT", id, <<>>, FALSE, 0, 0)
LogPackage(id, rids, need)      == Msg("UPDATE_LOG", id, rids, need, 0, 0)
ReturnLastEventPackage(id, lid) == Msg("RETURN_LAST_EVENT", id, <<>>, FALSE, lid, 0)
AcceptLastEventPackage(id, lid) == Msg("ACCEPT_LAST_EVENT", id, <<>>, FALSE, lid, 0)
RefusePackage(id, r)            == Msg("REFUSE", id, <<>>, FALSE, 0, r)

\* The variant's buildPBObj on the coreMessage core: LogPackage writes its
\* events (their record ids) and logNeedAccept, ReturnLastEventPackage and
\* AcceptLastEventPackage the lastEvent, RefusePackage the refused id;
\* ConnectPackage and QueryLastEventPackage write nothing.
BuildPBObj(m, core) ==
    CASE m.op = "UPDATE_LOG" -> [core EXCEPT !.rids = m.rids, !.needAccept = m.needAccept]
      [] m.op \in {"RETURN_LAST_EVENT", "ACCEPT_LAST_EVENT"} -> [core EXCEPT !.lastEvent = m.lastEvent]
      [] m.op = "REFUSE" -> [core EXCEPT !.refuseId = m.refuseId]
      [] OTHER -> core

\* CoreMessage::toBytes by a process whose statics _myMachineID and
\* _myOsVersion are mid and os: the envelope (the id, the operation mapped
\* by dispatch, the sender identity) with every other field at its
\* protobuf default, then the variant's buildPBObj.
Encode(m, mid, os) ==
    BuildPBObj(m, [Msg(WireOp(m.op), m.id, <<>>, FALSE, 0, 0) EXCEPT !.mid = mid, !.os = os])

\* CoreMessage::BuildObj: one case per variant it knows; every other
\* operation hits assert(false) (compiled out) and yields nullptr.
BuildObj(w) ==
    IF w.op \in {"UPDATE_LOG", "QUERY_LAST_EVENT", "RETURN_LAST_EVENT",
                 "ACCEPT_LAST_EVENT", "CONNECT"}
    THEN w ELSE NoMessage

\* Mutant of DecoderTake: the newest message is taken (pop_back).
DecoderTakeBack(queue) ==
    [msg |-> queue[Len(queue)], rest |-> SubSeq(queue, 1, Len(queue) - 1)]

\* ProtobufPacketDecoder::GetProtobufMessage on a non-empty _vec: the
\* oldest message is taken out (front, then pop_front).
DecoderTake(queue) == [msg |-> Head(queue), rest |-> Tail(queue)]

\* ProtobufPacketDecoder::_read: each frame the read completes is built by
\* BuildObj and pushed to the back of _vec.
DecoderPush(queue, frames) == queue \o [i \in DOMAIN frames |-> BuildObj(frames[i])]

=============================================================================
