------------------------------- MODULE Agent -------------------------------
(***************************************************************************)
(* The agent (WindowsClientService): the libuv loop thread that connects   *)
(* to the collector and runs uvNetworkReadCB, and the EventForwardHandler  *)
(* thread that reads the Windows event log subscription and sends          *)
(* LogPackages.                                                            *)
(*                                                                         *)
(* The event log holds records 1..logEnd, record i having EventRecordID    *)
(* i; the subscription hands them out in order from cursor on.  The two   *)
(* manual-reset events the thread waits on are evSub (the subscription's   *)
(* signal, initially set) and evUpload (set when an                        *)
(* AcceptLastEventPackage arrives).  Frames are whole messages on the      *)
(* toServer and toAgent channels of each connection; PacketDecoder shows   *)
(* that the decoder turns any split of their bytes into exactly the       *)
(* completed frames, in order.                                             *)
(*                                                                         *)
(* The agent process may be restarted (the service host calls start()     *)
(* again): process inc makes connection inc, and everything but the event *)
(* log is lost.  resumeFrom and sentMsgs keep each connection's history.  *)
(***************************************************************************)
EXTENDS Naturals, Sequences, SequencesExt, MessageModel, Identity

CONSTANTS
    NEvents,     \* records the event log holds by the end of a behaviour
    InitRecords, \* records already in the log when the agent starts
    BatchCap,    \* EventForwardHandler::eventsPerSend (30 in the code)
    MaxConns,    \* agent processes in a behaviour (restarts + 1)
    MaxRenderFailures, \* bound on events whose EvtRender fails
    Firmware,    \* the machine's SMBIOS UUID, one of Firmwares (see Identity)
    StackGarbage, \* the values an uninitialised UUID on the stack can hold
    OsVersions   \* the versions getOsVersion can read (the OS may be updated
                 \* between two agent processes)

ASSUME /\ InitRecords \in 0..NEvents /\ BatchCap \in Nat \ {0} /\ MaxConns \in Nat \ {0}
       /\ Firmware \in Firmwares /\ StackGarbage # {} /\ OsVersions # {}

Conns == 1..MaxConns

VARIABLES
    inc,        \* the running agent process; it makes connection inc
    conn,       \* the agent's TCP connection: "idle" before Connect(),
                \* "connecting" while uv_tcp_connect is pending, "up", or
                \* "failed" when it completed with an error
    aThread,    \* forwarding thread: "suspended", "waiting" or "resetting"
    fired,      \* the wait handle WaitForMultipleObjects returned
    evSub,      \* aWaitHandles[EVENT_SUBCRIBE_EVENT] is signalled
    evUpload,   \* aWaitHandles[EVENT_UPLOAD_LAST_ID_EVENT] is signalled
    cursor,     \* records the subscription has handed out through EvtNext
    lastUp,     \* lastEventIDUploaded
    agQueue,    \* HandlerDispatcher::decoder's queue of parsed messages
    aPartial,   \* the agent has read part of the frame at the head of toAgent
    logEnd,     \* records in the event log
    resumeFrom, \* per connection, the id the thread was resumed with (0: not resumed)
    sentMsgs,   \* per connection, every message the agent sent on it, in order
    renderFails, \* events whose rendering failed so far
    myMachineID, \* CoreMessage::_myMachineID of the running process
    myOsVersion, \* CoreMessage::_myOsVersion of the running process
    link,       \* per connection: "none", "open", closed by the agent with a
                \* FIN ("fin") or a reset ("rst")
    toServer,   \* per connection, frames in flight from agent to collector
    toAgent,    \* per connection, frames in flight from collector to agent
    proc,       \* the collector process (see Collector) and whether its
    listening   \* socket is bound to the port: the agent sees only whether
                \* a connect to the collector's port succeeds


\* HandlerDispatcher::Send after CoreMessage::toBytes, on the running
\* process's connection, with the process's identity in the envelope.
\* The message id is the position in the process's output (nextID() is
\* process-wide and starts at 1).
Send(m) ==
    /\ toServer' = [toServer EXCEPT ![inc] = Append(@, Encode(m, myMachineID, myOsVersion))]
    /\ sentMsgs' = [sentMsgs EXCEPT ![inc] = Append(@, [m EXCEPT !.mid = myMachineID,
                                                                  !.os = myOsVersion])]

\* initProtobufLibrary, the first call of start(): getOsVersion and
\* MachineID fill CoreMessage's statics os and mid.
InitProtobufLibrary(mid, os) ==
    /\ mid \in MachineIDs(Firmware, StackGarbage)
    /\ os \in OsVersions

\* The id the model gives the next message: its position in the output of
\* the connection, which the properties use to name it.  It is not the
\* wire _id: nextID() counts every CoreMessage the process constructs
\* (from 0, the ones BuildObj builds for received frames included), and
\* that id is read only into a RefusePackage, which the agent ignores.
NextId == Len(sentMsgs[inc]) + 1

\* PrintEvent: EvtRender of the event to XML, twice (to size the buffer,
\* then to fill it); nullptr when it fails.  A failure is an environment
\* event: here it hits the record bad (0: none).
PrintEvent(rid, bad) == rid # bad

\* EnumerateResults(hSubscription, ignore, sent): EvtNext hands out up to
\* BatchCap records; each is rendered and parsed, and those with rid >=
\* ignore are kept; when none is kept it calls itself again; when the
\* subscription has nothing left it returns ERROR_NO_MORE_ITEMS with
\* nothing kept.  count is dwReturned of the last EvtNext.  A render that
\* fails jumps to cleanup: the rest of the batch is closed unread, and
\* status (still ERROR_SUCCESS, 0) is returned with what was kept so far.
RECURSIVE EnumerateResults(_, _, _), EnumerateResultsOver(_, _, _)

\* Mutant of EnumerateResults: an off-by-one at the end of the log, one
\* record more than the subscription holds is taken.
EnumerateResultsOver(cur, ignore, bad) ==
    LET got  == IF logEnd - cur < BatchCap THEN logEnd - cur + 1 ELSE BatchCap
        read == Max({i \in 0..got : \A j \in 1..i : PrintEvent(cur + j, bad)})
        keep == SelectSeq([i \in 1..read |-> cur + i], LAMBDA rid : rid >= ignore)
    IN IF got = 0 THEN [batch |-> <<>>, count |-> 0, cursor |-> cur, failed |-> FALSE]
       ELSE IF read < got THEN [batch |-> keep, count |-> 0, cursor |-> cur + got, failed |-> TRUE]
       ELSE IF keep = <<>> THEN EnumerateResultsOver(cur + got, ignore, bad)
       ELSE [batch |-> keep, count |-> got, cursor |-> cur + got, failed |-> FALSE]

EnumerateResults(cur, ignore, bad) ==
    LET got  == IF logEnd - cur < BatchCap THEN logEnd - cur ELSE BatchCap
        read == Max({i \in 0..got : \A j \in 1..i : PrintEvent(cur + j, bad)})
        keep == SelectSeq([i \in 1..read |-> cur + i], LAMBDA rid : rid >= ignore)
    IN IF got = 0 THEN [batch |-> <<>>, count |-> 0, cursor |-> cur, failed |-> FALSE]
       ELSE IF read < got THEN [batch |-> keep, count |-> 0, cursor |-> cur + got, failed |-> TRUE]
       ELSE IF keep = <<>> THEN EnumerateResults(cur + got, ignore, bad)
       ELSE [batch |-> keep, count |-> got, cursor |-> cur + got, failed |-> FALSE]

\* Mutant of ThreadStartState: ServiceHandler::GetThreadStartFlag (0), the
\* thread starts running.
ThreadStartRunning == "waiting"

\* EventForwardHandler::GetThreadStartFlag: the thread is created suspended.
ThreadStartState == "suspended"

Init ==
    /\ inc = 1
    /\ InitProtobufLibrary(myMachineID, myOsVersion)
    /\ conn = "idle"
    /\ aThread = ThreadStartState
    /\ fired = "none"
    /\ evSub = TRUE
    /\ evUpload = FALSE
    /\ cursor = 0
    /\ lastUp = 0
    /\ agQueue = <<>>
    /\ aPartial = FALSE
    /\ logEnd = InitRecords
    /\ resumeFrom = [c \in Conns |-> 0]
    /\ sentMsgs = [c \in Conns |-> <<>>]
    /\ renderFails = 0
    /\ link = [c \in Conns |-> "none"]
    /\ toServer = [c \in Conns |-> <<>>]
    /\ toAgent = [c \in Conns |-> <<>>]

\* A new record is written to the System log; the subscription signals.
NewRecord ==
    /\ logEnd < NEvents
    /\ logEnd' = logEnd + 1
    /\ evSub' = TRUE
    /\ UNCHANGED <<inc, myMachineID, myOsVersion, renderFails, conn, aThread, fired, evUpload, cursor, lastUp, agQueue,
                   aPartial, resumeFrom, sentMsgs, link, toServer, toAgent>>

\* HandlerDispatcher::StartThread (from AddServiceHandler): CreateThread
\* with the handler's GetThreadStartFlag.
StartThread == aThread' = ThreadStartState

\* HandlerDispatcher::Connect, called by start() once the handler's thread
\* exists: InitTCP translates the address (start() passes a dotted
\* literal, so the DNS fallback is not taken) and uv_tcp_connect is
\* issued; its callback runs on the loop start() enters next.
Connect ==
    /\ conn = "idle"
    /\ conn' = "connecting"
    /\ UNCHANGED <<inc, myMachineID, myOsVersion, renderFails, aThread, fired, evSub, evUpload, cursor, lastUp, agQueue,
                   aPartial, logEnd, resumeFrom, sentMsgs, link, toServer, toAgent>>

\* The collector accepts connections on the agent's port.
Reachable == proc = "running" /\ listening

\* uvNetworkConnectCB with status 0: start reading, send a ConnectPackage.
ConnectCB ==
    /\ conn = "connecting"
    /\ Reachable
    /\ conn' = "up"
    /\ link' = [link EXCEPT ![inc] = "open"]
    /\ Send(ConnectPackage(NextId))
    /\ UNCHANGED <<inc, myMachineID, myOsVersion, renderFails, aThread, fired, evSub, evUpload, cursor, lastUp, agQueue,
                   aPartial, logEnd, resumeFrom, toAgent>>

\* uvNetworkConnectCB with an error status, the collector not listening on
\* the port: the failure is logged and nothing else is done; the agent
\* never tries again, and its forwarding thread stays suspended.
ConnectFailed ==
    /\ conn = "connecting"
    /\ ~Reachable
    /\ conn' = "failed"
    /\ UNCHANGED <<inc, myMachineID, myOsVersion, renderFails, aThread, fired, evSub, evUpload, cursor, lastUp, agQueue,
                   aPartial, logEnd, resumeFrom, sentMsgs, link, toServer, toAgent>>

\* EventForwardHandler::NetworkStartFinished: send a QueryLastEventPackage.
NetworkStartFinished ==
    /\ Send(QueryLastEventPackage(NextId))
    /\ UNCHANGED <<aThread, lastUp, evUpload, resumeFrom>>

\* Mutant of DispatcherNetworkStartFinished: no handler registered, so
\* nothing is sent.
DispatcherNetworkStartFinishedNone ==
    UNCHANGED <<aThread, lastUp, evUpload, resumeFrom, sentMsgs, toServer>>

\* HandlerDispatcher::NetworkStartFinished: every registered handler's
\* NetworkStartFinished; start() registers the one EventForwardHandler.
DispatcherNetworkStartFinished == NetworkStartFinished

\* EventForwardHandler::GetProtobufPackage: the first ReturnLastEventPackage
\* (lastEventIDUploaded still 0) sets lastEventIDUploaded and resumes the
\* thread; an AcceptLastEventPackage sets it and signals the upload event;
\* anything else is ignored.
GetProtobufPackage(m) ==
    CASE m.op = "RETURN_LAST_EVENT" /\ lastUp = 0 ->
            /\ lastUp' = m.lastEvent
            /\ resumeFrom' = [resumeFrom EXCEPT ![inc] = m.lastEvent]
            /\ aThread' = IF aThread = "suspended" THEN "waiting" ELSE aThread
            /\ UNCHANGED <<evUpload, sentMsgs, toServer>>
      [] m.op = "ACCEPT_LAST_EVENT" ->
            /\ lastUp' = m.lastEvent
            /\ evUpload' = TRUE
            /\ UNCHANGED <<aThread, resumeFrom, sentMsgs, toServer>>
      [] OTHER ->
            UNCHANGED <<aThread, lastUp, evUpload, resumeFrom, sentMsgs, toServer>>

\* HandlerDispatcher::SubmitProtobufPackage: the message goes to every
\* registered handler, here the one EventForwardHandler.
SubmitProtobufPackage(m) == GetProtobufPackage(m)

\* uvNetworkReadCB: the read hands the decoder the bytes of the first n
\* frames on toAgent, the last of them only in part when cut; one message,
\* if any, is then taken from the decoder's queue; a nullptr entry (what
\* BuildObj yields for a frame it cannot build) is taken and ignored.
AgentRead(n, cut) ==
    /\ conn = "up"
    /\ n \in 1..Len(toAgent[inc])
    /\ ~(cut /\ n = 1 /\ aPartial)
    /\ LET done == IF cut THEN n - 1 ELSE n
           q    == DecoderPush(agQueue, SubSeq(toAgent[inc], 1, done))
       IN /\ toAgent' = [toAgent EXCEPT ![inc] = SubSeq(@, done + 1, Len(@))]
          /\ aPartial' = cut
          /\ IF q = <<>>
             THEN /\ agQueue' = q
                  /\ UNCHANGED <<aThread, lastUp, evUpload, resumeFrom, sentMsgs, toServer>>
             ELSE LET t == DecoderTake(q)
                  IN /\ agQueue' = t.rest
                     /\ CASE t.msg = NoMessage ->
                               UNCHANGED <<aThread, lastUp, evUpload, resumeFrom, sentMsgs, toServer>>
                          [] t.msg.op = "CONNECT" -> DispatcherNetworkStartFinished
                          [] OTHER -> SubmitProtobufPackage(t.msg)
    /\ UNCHANGED <<inc, myMachineID, myOsVersion, renderFails, conn, fired, evSub, cursor, logEnd, link>>

\* One turn of the loop in EventForwardHandler::Start: the wait returns the
\* lowest signalled handle, EnumerateResults reads the subscription with
\* lastEventIDUploaded as the floor, and a non-empty result is sent as a
\* LogPackage that needs an accept when EvtNext returned a full batch.
Forward ==
    /\ aThread = "waiting"
    /\ evSub \/ evUpload
    /\ \E bad \in {0} \cup (IF renderFails < MaxRenderFailures THEN cursor + 1..logEnd ELSE {}) :
       LET r == EnumerateResults(cursor, lastUp, bad)
       IN /\ cursor' = r.cursor
          /\ renderFails' = IF r.failed THEN renderFails + 1 ELSE renderFails
          /\ IF r.batch # <<>>
             THEN Send(LogPackage(NextId, r.batch, r.count = BatchCap))
             ELSE UNCHANGED <<sentMsgs, toServer>>
    /\ fired' = IF evSub THEN "SUBSCRIBE" ELSE "UPLOAD"
    /\ aThread' = "resetting"
    /\ UNCHANGED <<inc, myMachineID, myOsVersion, conn, evSub, evUpload, lastUp, agQueue, aPartial, logEnd,
                   resumeFrom, link, toAgent>>

\* The end of the same turn: ResetEvent on the handle that fired.
ResetFired ==
    /\ aThread = "resetting"
    /\ IF fired = "SUBSCRIBE" THEN evSub' = FALSE /\ UNCHANGED evUpload
                              ELSE evUpload' = FALSE /\ UNCHANGED evSub
    /\ aThread' = "waiting"
    /\ UNCHANGED <<inc, myMachineID, myOsVersion, renderFails, conn, fired, cursor, lastUp, agQueue, aPartial, logEnd,
                   resumeFrom, sentMsgs, link, toServer, toAgent>>

\* The agent process ends and the service host runs start() again.  Its
\* socket is closed by the system: with a FIN after the data already sent
\* when nothing sent to it is left unread, otherwise with a reset that
\* discards whatever part of its sent data had not left the machine.
\* Frames sent to the dead process are lost.  The new process starts as
\* the first did (start(): the EventForwardHandler constructor, its thread
\* created suspended by AddServiceHandler, Connect() pending) and makes
\* the next connection, with its identity computed anew.
AgentRestart ==
    /\ inc < MaxConns
    /\ IF link[inc] = "open" /\ (toAgent[inc] # <<>> \/ aPartial)
       THEN /\ link' = [link EXCEPT ![inc] = "rst"]
            /\ \E k \in 0..Len(toServer[inc]) :
                  toServer' = [toServer EXCEPT ![inc] = SubSeq(@, 1, k)]
       ELSE /\ link' = [link EXCEPT ![inc] = IF @ = "open" THEN "fin" ELSE @]
            /\ UNCHANGED toServer
    /\ toAgent' = [toAgent EXCEPT ![inc] = <<>>]
    /\ inc' = inc + 1
    /\ InitProtobufLibrary(myMachineID', myOsVersion')
    /\ conn' = "idle"
    /\ StartThread
    /\ fired' = "none"
    /\ evSub' = TRUE
    /\ evUpload' = FALSE
    /\ cursor' = 0
    /\ lastUp' = 0
    /\ agQueue' = <<>>
    /\ aPartial' = FALSE
    /\ UNCHANGED <<logEnd, renderFails, resumeFrom, sentMsgs>>

Next ==
    \/ Connect
    \/ ConnectCB
    \/ ConnectFailed
    \/ NewRecord
    \/ \E n \in 1..Len(toAgent[inc]), cut \in BOOLEAN : AgentRead(n, cut)
    \/ Forward
    \/ ResetFired
    \/ AgentRestart

=============================================================================
