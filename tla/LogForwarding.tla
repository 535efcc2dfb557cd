---------------------------- MODULE LogForwarding ----------------------------
(***************************************************************************)
(* The whole forwarding protocol: the agent (Agent) and the collector     *)
(* (Collector).  Each agent process makes one TCP connection; the two      *)
(* components share only the connections: their state (link) and their   *)
(* two directions, toServer and toAgent.  Every step is a step of one of   *)
(* them, the other's state unchanged.  TCP neither loses nor reorders      *)
(* bytes on an open connection, so the channels are sequences; a reset    *)
(* (Agent!AgentRestart) may lose what had not left the agent.              *)
(***************************************************************************)
EXTENDS Naturals, Sequences, SequencesExt, Bags, MessageModel, Identity

CONSTANTS NEvents, InitRecords, BatchCap, MaxConns, MaxRenderFailures,
          Workers, StoredBefore, PastEnd, MaxInsertFailures,
          ConnectTries, MaxOutages, MayStop, Registered,
          Firmware, StackGarbage, OsVersions

VARIABLES
    inc, conn, aThread, fired, evSub, evUpload, cursor, lastUp, agQueue,
    aPartial, logEnd, resumeFrom, sentMsgs, renderFails, myMachineID, myOsVersion,
    session, clientOf, srvQueue, sPartial, lid, dbFlag, works, sendQ, stored,
    rows, known, failures, handled, acked, durable,
    proc, tries, dbConn, dbUp, confOK, outages, stopReq, listening,
    link, toServer, toAgent

Ag == INSTANCE Agent
Co == INSTANCE Collector

Conns == 1..MaxConns

agentVars == <<inc, conn, aThread, fired, evSub, evUpload, cursor, lastUp,
               agQueue, aPartial, logEnd, resumeFrom, sentMsgs, renderFails,
               myMachineID, myOsVersion>>
collectorVars == <<session, clientOf, srvQueue, sPartial, lid, dbFlag, works,
                   sendQ, stored, rows, known, failures, handled, acked, durable,
                   proc, tries, dbConn, dbUp, confOK, outages, stopReq, listening>>
vars == <<agentVars, collectorVars, link, toServer, toAgent>>

Init == Ag!Init /\ Co!Init

Next ==
    \/ Ag!Next /\ UNCHANGED collectorVars
    \/ Co!Next /\ UNCHANGED agentVars

Spec == Init /\ [][Next]_vars

\* The loop threads, the forwarding thread, the pool threads and main all
\* run whenever they have something to do, start() goes on to Connect(),
\* a pending connect completes, one way or the other, and a running work
\* callback completes, whatever its Client pointer reaches; new records,
\* agent restarts, database outages and SIGTERM come from the environment
\* and are never forced.
Fairness ==
    /\ WF_vars(Ag!Connect /\ UNCHANGED collectorVars)
    /\ WF_vars((Ag!ConnectCB \/ Ag!ConnectFailed) /\ UNCHANGED collectorVars)
    /\ WF_vars(\E n \in 1..Len(toAgent[inc]), cut \in BOOLEAN :
                  Ag!AgentRead(n, cut) /\ UNCHANGED collectorVars)
    /\ WF_vars(Ag!Forward /\ UNCHANGED collectorVars)
    /\ WF_vars(Ag!ResetFired /\ UNCHANGED collectorVars)
    /\ \A c \in Conns :
          /\ WF_vars(Co!Accept(c) /\ UNCHANGED agentVars)
          /\ WF_vars(\E n \in 1..Len(toServer[c]), cut \in BOOLEAN :
                        Co!ServerRead(c, n, cut) /\ UNCHANGED agentVars)
          /\ WF_vars(Co!ServerEOF(c) /\ UNCHANGED agentVars)
          /\ WF_vars(Co!CloseCB(c) /\ UNCHANGED agentVars)
    /\ WF_vars(Co!Pick /\ UNCHANGED agentVars)
    /\ WF_vars(\E i \in DOMAIN works :
                  \/ \E ok \in BOOLEAN : Co!Insert(i, ok) /\ UNCHANGED agentVars
                  \/ Co!WorkOnFreedClient(i) /\ UNCHANGED agentVars)
    /\ WF_vars(Co!WriteToNetwork /\ UNCHANGED agentVars)
    /\ WF_vars(\E i \in DOMAIN works : Co!WorkOnBrokenConnection(i) /\ UNCHANGED agentVars)
    /\ WF_vars(Co!ReadConfig /\ UNCHANGED agentVars)
    /\ WF_vars((Co!ConnectTry \/ Co!ConnectGiveUp) /\ UNCHANGED agentVars)
    /\ WF_vars(Co!StopWalk /\ UNCHANGED agentVars)
    /\ WF_vars(Co!LoopExit /\ UNCHANGED agentVars)

FairSpec == Spec /\ Fairness

-----------------------------------------------------------------------------
(* Properties *)

TypeOK ==
    /\ inc \in Conns
    /\ conn \in {"idle", "connecting", "up", "failed"}
    /\ aThread \in {"suspended", "waiting", "resetting"}
    /\ fired \in {"none", "SUBSCRIBE", "UPLOAD"}
    /\ evSub \in BOOLEAN /\ evUpload \in BOOLEAN
    /\ cursor \in 0..logEnd /\ logEnd \in InitRecords..NEvents
    /\ lastUp \in Nat /\ resumeFrom \in [Conns -> Nat] /\ lid \in [Conns -> Nat]
    /\ session \in [Conns -> {"none", "open", "closing", "closed"}]
    /\ link \in [Conns -> {"none", "open", "fin", "rst"}]
    /\ myMachineID \in MachineIDs(Firmware, StackGarbage) /\ myOsVersion \in OsVersions
    /\ rows \in Seq([mid : MachineIDs(Firmware, StackGarbage), os : OsVersions])
    /\ clientOf \in [Conns -> 0..Len(rows)] /\ dbFlag \in BOOLEAN
    /\ DOMAIN known \subseteq MachineIDs(Firmware, StackGarbage)
    /\ \A m \in DOMAIN known : known[m] \in DOMAIN rows
    /\ \A i \in DOMAIN works : works[i].conn \in Conns /\ works[i].stage \in {"queued", "tx"}
    /\ IsABag(stored)
    /\ failures \in 0..MaxInsertFailures /\ renderFails \in 0..MaxRenderFailures
    /\ \A a \in acked : a[2] \in DOMAIN sentMsgs[a[1]]
    /\ proc \in {"config", "connect", "running", "stopping", "exited", "crashed"}
    /\ tries \in 0..ConnectTries /\ outages \in 0..MaxOutages
    /\ dbConn \in {"null", "open", "broken"} /\ dbUp \in BOOLEAN /\ confOK \in BOOLEAN /\ stopReq \in BOOLEAN
    /\ listening \in BOOLEAN

LogIds(c) == {i \in DOMAIN sentMsgs[c] : sentMsgs[c][i].op = "UPDATE_LOG"}

\* The records of the machine in the WindowsEvents table, under any ClientID.
StoredRids == {p[2] : p \in BagToSet(stored)}

\* Resume protocol (GetProtobufPackage, EnumerateResults): on every
\* connection, the forwarding thread sends no LogPackage before it was
\* resumed by the collector's ReturnLastEventPackage, and never one
\* carrying a record below the id it was resumed with, i.e. a record the
\* collector reported as stored.  Holds whatever later accepts do to
\* lastEventIDUploaded.
ResumeRespectsStore ==
    \A c \in Conns : \A i \in LogIds(c) :
        /\ resumeFrom[c] > 0
        /\ \A r \in Range(sentMsgs[c][i].rids) : r >= resumeFrom[c]

\* No record of the machine reaches the WindowsEvents table twice, under
\* one ClientID or several: across the resume, concurrent pool threads,
\* later accepts and agent restarts, each rid is inserted at most once.
AtMostOnceStored ==
    /\ \A p \in BagToSet(stored) : CopiesIn(p, stored) = 1
    /\ \A p, q \in BagToSet(stored) : p[2] = q[2] => p = q

\* On every connection the collector takes the agent's messages out of its
\* decoder exactly in the order the agent sent them, however the reads
\* split the stream.
HandledInOrder ==
    \A c \in Conns : handled[c] = SubSeq(sentMsgs[c], 1, Len(handled[c]))

\* The agent advances lastEventIDUploaded only on an accept, which the
\* collector promises to send only after the batch is in the database:
\* every LogPackage that got an AcceptLastEventPackage is stored.
AcceptImpliesStored ==
    \A a \in acked : Range(sentMsgs[a[1]][a[2]].rids) \subseteq StoredRids

\* "Refuse Package: database disconnected" (readFromNetwork) is sent only
\* when the database is disconnected; it stays connected here, so no frame
\* the collector writes is a refusal.
NoRefuseWhileConnected ==
    /\ \A i \in DOMAIN sendQ : sendQ[i].frame.op # WireOp("REFUSE")
    /\ \A c \in Conns : \A f \in Range(toAgent[c]) : f.op # WireOp("REFUSE")

\* No record is lost between the event log and the database: every record
\* the running agent's subscription has handed out is below its resume
\* point (stored before) or was sent in a LogPackage.
NoRecordSkipped ==
    \A r \in 1..cursor :
        r < resumeFrom[inc] \/ \E i \in LogIds(inc) : r \in Range(sentMsgs[inc][i].rids)

\* The resume point a restarted agent gets (GetLastEventRecordID + 1, the
\* largest stored rid) skips only records that are stored under the
\* connection's ClientID or still in a pending InsertWindowsEvents work of
\* that ClientID: works of the previous connection may finish in any
\* order, so the largest rid can be stored while a smaller one is not.
ResumeSkipsOnlyStored ==
    \A c \in Conns : \A r \in 1..(resumeFrom[c] - 1) :
        \/ <<clientOf[c], r>> \in BagToSet(stored)
        \/ \E i \in DOMAIN works : /\ clientOf[works[i].conn] = clientOf[c]
                                  /\ r \in Range(works[i].pkg.rids)

\* Resume protocol idempotence (the spec, 4.5 and 8): a reconnecting agent
\* re-derives its resume point from the collector's durable state, so no
\* record that was in the WindowsEvents table when the collector answered
\* a connection's QUERY_LAST_EVENT is sent again on that connection.
\* Rests on GetClient giving the machine the ClientID its records are
\* stored under on every connection, which in turn rests on MachineID
\* giving every agent process the same identity.
ResumeIdempotent ==
    \A c \in Conns : \A i \in LogIds(c) : Range(sentMsgs[c][i].rids) \cap durable[c] = {}

\* No work and no queued frame refers to a Client that uvCloseCB has
\* deleted: the work callback dereferences wo->c (_client, lid,
\* clientSocket) and _WriteToNetwork writes to the Client's socket.
NoUseAfterFree ==
    /\ \A i \in DOMAIN works : session[works[i].conn] # "closed"
    /\ \A i \in DOMAIN sendQ : session[sendQ[i].to] # "closed"

\* The collector never dies abnormally: a database outage degrades it to
\* refusing messages and a SIGTERM stops its loop cleanly (the spec, 4.7
\* and 4.6).  Covers the broken_connection nobody catches, the startup
\* null dereference in Database::Connect and the stop walk's uv_close of
\* freed handles.
NoCrash == proc # "crashed"

\* A SIGTERM ends the process: the stop walk closes every handle, the loop
\* drains the pool and returns, and main returns (or the process dies on
\* the way, which NoCrash is about).
StopTerminates == stopReq ~> (proc \in {"exited", "crashed"})

\* The handshake of 4.5 completes: once the agent's connect succeeded, its
\* ConnectPackage, the collector's reply, the QueryLastEventPackage that
\* the reply triggers (HandlerDispatcher::NetworkStartFinished) and the
\* ReturnLastEventPackage eventually resume the forwarding thread, unless
\* the collector stops or dies first, in behaviours where dbConnected
\* stays clear (so that the refusal path does not stop the protocol).
HandshakeCompletes ==
    []~dbFlag => (conn = "up" ~> (resumeFrom[inc] > 0 \/ proc \in {"stopping", "exited", "crashed"}))

\* Every message either side sends is eventually taken out of the peer's
\* decoder and handled: by readFromNetwork on the collector, and by the
\* dispatcher (uvNetworkReadCB) on the agent, in behaviours where
\* dbConnected stays clear and the collector never dies (so that neither
\* the refusal path nor a crash stops the protocol).  Both read callbacks
\* take one message per read.
EveryMessageHandled ==
    [](~dbFlag /\ proc # "crashed") =>
        /\ \A c \in Conns : \A k \in 1..NEvents + 2 :
              (Len(sentMsgs[c]) >= k) ~> (Len(handled[c]) >= k)
        /\ agQueue # <<>> ~> agQueue = <<>>

\* Every record written to the event log is eventually handed out by the
\* subscription to the forwarding thread (the subscription event wakes it),
\* in behaviours where dbConnected stays clear, the collector never dies
\* and the agent's connect succeeded (a failed one leaves the thread
\* suspended for good, which AgentConnects is about).
EveryRecordRead ==
    [](~dbFlag /\ proc # "crashed" /\ conn # "failed") => \A k \in 1..NEvents : (logEnd >= k) ~> (cursor >= k)

\* One persistent TCP connection per agent, re-established on loss (the
\* spec, 3 and 4.5): in a behaviour where the collector ends up running for
\* good, the agent ends up connected for good.  uvNetworkConnectCB only
\* logs a failed connect and nothing calls Connect() again, so an agent
\* whose connect reaches the collector before it listens (the service
\* host starts independently of the collector) stays disconnected.
AgentConnects ==
    <>[](proc = "running") => <>[](conn = "up")

=============================================================================
