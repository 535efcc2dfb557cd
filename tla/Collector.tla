----------------------------- MODULE Collector -----------------------------
(***************************************************************************)
(* The collector (ClientServiceServer): the libuv loop thread running      *)
(* uvConnectCB, uvReadCB -> Client::readFromNetwork, uvCloseCB and the     *)
(* writeAsync callback _WriteToNetwork; the libuv worker pool running the  *)
(* InsertWindowsEvents work; and the SIGPIPE handler.                      *)
(*                                                                         *)
(* One machine runs the agent; each agent process makes one connection,   *)
(* and connection c gets its own Client object.  The database holds the   *)
(* Client table, a sequence of rows (ClientID i is row i, with the       *)
(* machine ID and OS version it was registered with; Connect loads them   *)
(* into Database::_clients, keyed by machine ID, at startup) and the      *)
(* WindowsEvents table as a bag of <<ClientID, EventRecordID>> (rows are   *)
(* never deduplicated).  works is the uv_queue_work queue in submission    *)
(* order; a work is "queued" until a pool thread picks it up and opens its *)
(* pqxx::work ("tx").  The one pqxx::connection is shared by the loop      *)
(* thread and every pool thread, and stays open here.                      *)
(***************************************************************************)
EXTENDS Naturals, Sequences, SequencesExt, Bags, MessageModel, Identity

CONSTANTS
    Workers,           \* threads in the libuv pool (UV_THREADPOOL_SIZE, 4)
    StoredBefore,      \* records 1..StoredBefore were stored by earlier sessions
    PastEnd,           \* values *evts.cend() can yield (read past the vector)
    MaxInsertFailures, \* bound on inserts that hit a pqxx::sql_error
    MaxConns,          \* connections the agent makes in a behaviour
    ConnectTries,      \* passes of the retry loop in Database::Connect (5)
    MaxOutages,        \* bound on database outages in a behaviour
    MayStop,           \* whether a SIGTERM may arrive
    Registered,        \* the machine had its Client row when the collector started
    Firmware, StackGarbage, OsVersions  \* the agent machine's identity (see Agent)

ASSUME /\ Workers \in Nat \ {0} /\ StoredBefore \in Nat /\ PastEnd \subseteq Nat
       /\ StoredBefore > 0 => Registered

Conns == 1..MaxConns

VARIABLES
    session,   \* per connection: "none" before uvConnectCB, "open", "closing"
               \* after uv_close, "closed" once uvCloseCB deleted the Client
    clientOf,  \* per connection, Client::_client as a ClientID (0: not yet set)
    srvQueue,  \* per connection, Client::decoder's queue of parsed messages
    sPartial,  \* per connection, part of the head frame of toServer was read
    lid,       \* per connection, Client::lid (1 at construction)
    dbFlag,    \* UvHandler::dbConnected (never initialised)
    works,     \* InsertWindowsEvents works: [conn, pkg, stage]
    sendQ,     \* UvHandler::_sending_queue: [to, frame] awaiting uv_write
    stored,    \* the WindowsEvents rows, a bag of <<ClientID, rid>>
    rows,      \* the Client table: row i is [mid, os] of ClientID i
    known,     \* Database::_clients: machine ID -> the ClientID of its cached row
    failures,  \* inserts that failed so far
    handled,   \* per connection, messages readFromNetwork took, in order
    acked,     \* <<connection, id>> of LogPackages an accept was sent for
    durable,   \* per connection, the rids in WindowsEvents when its
               \* QUERY_LAST_EVENT was answered (a history variable)
    link,      \* per connection: "none", "open", "fin" or "rst" (see Agent)
    toServer,  \* per connection, frames in flight from agent to collector
    toAgent,   \* per connection, frames in flight from collector to agent
    proc,      \* the process: "config" (main in ReadConfig), "connect" (main in
               \* Database::Connect), "running"
               \* (uv_run), "stopping" (the stop walk ran, uv_run drains),
               \* "exited" (main returned) or "crashed"
    tries,     \* the loop variable of Database::Connect
    dbConn,    \* Database::conn: "null", "open", or "broken" once the server
               \* went away under it (libpq never reconnects a connection)
    dbUp,      \* the database server accepts connections
    confOK,    \* Config::connectionString names the database server, with
               \* credentials it accepts
    outages,   \* database outages so far
    stopReq,   \* StopLoop sent stopAsync and its callback has not run yet
    listening  \* the listening socket is bound to DEFAULT_LISTEN_PORT


\* Mutant of GetLastEventRecordID: an off-by-one, the id after the largest
\* stored one (the caller adds one again).
GetLastEventRecordIDNext(cid) ==
    LET rids == {p[2] : p \in {q \in BagToSet(stored) : q[1] = cid}}
    IN IF rids = {} THEN 0 ELSE Max(rids) + 1

\* Database::GetLastEventRecordID: the largest rid stored under the
\* ClientID, 0 when none.
GetLastEventRecordID(cid) ==
    LET rids == {p[2] : p \in {q \in BagToSet(stored) : q[1] = cid}}
    IN IF rids = {} THEN 0 ELSE Max(rids)

\* Client::writeSomething -> UvHandler::WriteToNetwork: toBytes, then push
\* the frame and the Client's socket to the sending queue under _mutex
\* (uv_async_send wakes the loop).
WriteSomething(c, m) ==
    sendQ' = Append(sendQ, [to |-> c, frame |-> Encode(m, "collector", "collector")])

\* Transactions open on the shared connection.
InTx == {i \in DOMAIN works : works[i].stage = "tx"}

\* A thread opens a pqxx::work on the shared connection while another
\* transaction is open on it.  transaction_base's constructor registers
\* the new transaction with the connection, and libpqxx throws usage_error
\* (which nobody catches) when one is registered already.  The check reads
\* what another thread wrote without synchronisation, a data race, so it
\* may also miss the open transaction and let both run.
TxClash == InTx # {}

\* The process's own state, left alone by the handlers of the running loop.
dbVars == <<proc, tries, dbConn, dbUp, confOK, outages, stopReq, listening>>

\* Database::_clients when empty.
NoClients == [m \in {} |-> 0]

Init ==
    /\ session = [c \in Conns |-> "none"]
    /\ clientOf = [c \in Conns |-> 0]
    /\ srvQueue = [c \in Conns |-> <<>>]
    /\ sPartial = [c \in Conns |-> FALSE]
    /\ lid = [c \in Conns |-> 1]
    /\ dbFlag \in BOOLEAN
    /\ works = <<>>
    /\ sendQ = <<>>
    /\ stored = SetToBag({<<1, r>> : r \in 1..StoredBefore})
    /\ rows \in IF Registered
                THEN {<<[mid |-> m, os |-> o]>> : m \in MachineIDs(Firmware, StackGarbage),
                                                 o \in OsVersions}
                ELSE {<<>>}
    /\ known = NoClients
    /\ failures = 0
    /\ handled = [c \in Conns |-> <<>>]
    /\ acked = {}
    /\ durable = [c \in Conns |-> {}]
    /\ link = [c \in Conns |-> "none"]
    /\ toServer = [c \in Conns |-> <<>>]
    /\ toAgent = [c \in Conns |-> <<>>]
    /\ proc = "config"
    /\ tries = 0
    /\ dbConn = "null"
    /\ dbUp = TRUE
    /\ confOK = FALSE
    /\ outages = 0
    /\ stopReq = FALSE
    /\ listening = FALSE

\* A pqxx call on a connection whose server went away throws
\* pqxx::broken_connection.  No caller catches it (readFromNetwork catches
\* std::bad_cast, InsertWindowsEvents and the work callback catch only
\* pqxx::sql_error), so std::terminate ends the process.
Terminate == proc' = "crashed"

\* Database::GetAllClients: SELECT every Client row and cache it in
\* _clients under its ClientUniqueID (c[4]); of two rows with one ID the
\* one the SELECT returns last stays.
GetAllClients ==
    known' \in {f \in [{rows[i].mid : i \in DOMAIN rows} -> DOMAIN rows] :
                  \A m \in DOMAIN f : rows[f[m]].mid = m}

\* UvHandler::SetupNetwork, after which main runs the loop.  The address
\* is the literal 0.0.0.0, which always translates, and the port is not
\* privileged, so uv_tcp_bind reports no error: libuv keeps EADDRINUSE
\* (the port is taken) for uv_listen, which then fails, and exit(1) ends
\* the process.  Otherwise the socket listens and the loop runs.
SetupNetwork ==
    \/ proc' = "running" /\ listening' = TRUE
    \/ proc' = "exited" /\ listening' = FALSE

\* ReadConfig(DEFAULT_CONFIG_FILE), main's first call.  A file stat cannot
\* find, a short read or text that is not JSON ends the process with
\* exit(1).  Otherwise the connection string is built from host, username,
\* password and port, each defaulted when absent or not of its type (a
\* port outside 1..65535 silently becomes 5432): whether it names the
\* database server is a fact of the file, chosen here.
ReadConfig ==
    /\ proc = "config"
    /\ \/ proc' = "exited" /\ UNCHANGED confOK
       \/ proc' = "connect" /\ confOK' \in BOOLEAN
    /\ UNCHANGED <<session, clientOf, srvQueue, sPartial, lid, dbFlag, works,
                   sendQ, stored, rows, known, failures, handled, acked, durable, link,
                   toServer, toAgent, tries, dbConn, dbUp, outages, stopReq, listening>>

\* One pass of the retry loop of Database::Connect, called by main with
\* the configuration's connection string: new pqxx::connection either
\* opens (the loop breaks, GetAllClients runs, the statements are prepared, Connect returns true
\* and main installs the signal handlers, sets up the listening socket
\* and runs the loop) or throws broken_connection: delete conn (still
\* nullptr), sleep 2^time seconds and try again.
ConnectTry ==
    /\ proc = "connect"
    /\ tries < ConnectTries
    /\ IF dbUp /\ confOK
       THEN /\ dbConn' = "open"
            /\ GetAllClients
            /\ SetupNetwork
            /\ UNCHANGED tries
       ELSE /\ tries' = tries + 1
            /\ UNCHANGED <<dbConn, proc, known, listening>>
    /\ UNCHANGED <<session, clientOf, srvQueue, sPartial, lid, dbFlag, works,
                   sendQ, stored, rows, failures, handled, acked, durable, link,
                   toServer, toAgent, dbUp, confOK, outages, stopReq>>

\* Every pass failed: conn is still nullptr and conn->is_open() dereferences
\* it, so the process dies of SIGSEGV before it can log and return false.
ConnectGiveUp ==
    /\ proc = "connect"
    /\ tries = ConnectTries
    /\ Terminate
    /\ UNCHANGED <<session, clientOf, srvQueue, sPartial, lid, dbFlag, works,
                   sendQ, stored, rows, known, failures, handled, acked, durable, link,
                   toServer, toAgent, tries, dbConn, dbUp, confOK, outages, stopReq, listening>>

\* The database server goes away; an open connection is broken for good.
DatabaseOutage ==
    /\ proc \in {"connect", "running", "stopping"}
    /\ dbUp /\ outages < MaxOutages
    /\ dbUp' = FALSE
    /\ outages' = outages + 1
    /\ dbConn' = IF dbConn = "open" THEN "broken" ELSE dbConn
    /\ UNCHANGED <<session, clientOf, srvQueue, sPartial, lid, dbFlag, works,
                   sendQ, stored, rows, known, failures, handled, acked, durable, link,
                   toServer, toAgent, proc, tries, confOK, stopReq, listening>>

\* The database server accepts connections again.
DatabaseRecover ==
    /\ proc \in {"connect", "running", "stopping"}
    /\ ~dbUp
    /\ dbUp' = TRUE
    /\ UNCHANGED <<session, clientOf, srvQueue, sPartial, lid, dbFlag, works,
                   sendQ, stored, rows, known, failures, handled, acked, durable, link,
                   toServer, toAgent, proc, tries, dbConn, confOK, outages, stopReq, listening>>

\* UvHandler::AddClient: the Client goes into _clientMap under its socket.
\* The assert before the emplace is inverted (it requires the socket to
\* be in the map already); the model takes the NDEBUG build, where it is
\* compiled out.
AddClient(c) == session' = [session EXCEPT ![c] = "open"]

\* uvConnectCB: a new Client (lid = 1) is added to _clientMap, uv_accept
\* takes the connection the agent made and reading starts.
Accept(c) ==
    /\ proc = "running"
    /\ session[c] = "none"
    /\ link[c] # "none"
    /\ AddClient(c)
    /\ UNCHANGED <<clientOf, srvQueue, sPartial, lid, dbFlag, works, sendQ,
                   stored, rows, known, failures, handled, acked, durable, link,
                   toServer, toAgent>>
    /\ UNCHANGED dbVars

\* insertClient for CONNECT m of connection c: a new row with m's machine
\* ID and OS version; RETURNING gives its ClientID.
InsertClient(c, m) ==
    /\ rows' = Append(rows, [mid |-> m.mid, os |-> m.os])
    /\ clientOf' = [clientOf EXCEPT ![c] = Len(rows) + 1]
    /\ UNCHANGED proc

\* Mutant of GetClient: _clients is not consulted, every CONNECT inserts.
GetClientNoLookup(c, m) == InsertClient(c, m)

\* Database::GetClient for CONNECT m of connection c, looked up in
\* _clients by m's machine ID.  Found with the cached OS version: an
\* UPDATE of ClientLastConnect (its WHERE reads the uninitialised
\* dc->_clientID, so it updates no row the model keeps) and the cached
\* row is returned.  Found with another OS version: the UPDATE names the
\* column "CliendID" and nests w.quote's quotes in its own, so exec throws
\* pqxx::sql_error, which readFromNetwork (catching std::bad_cast) lets
\* through and the process terminates.  Not found: InsertClient, and the
\* new row is returned without being added to _clients.
GetClient(c, m) ==
    IF m.mid \in DOMAIN known
    THEN IF m.os = rows[known[m.mid]].os
         THEN /\ clientOf' = [clientOf EXCEPT ![c] = known[m.mid]]
              /\ UNCHANGED <<rows, proc>>
         ELSE /\ Terminate
              /\ UNCHANGED <<clientOf, rows>>
    ELSE InsertClient(c, m)

\* The switch of Client::readFromNetwork on connection c for a message m
\* taken from the decoder, after the dbConnected check.  The default case
\* (break) is left out: the agent sends no other operation.  CONNECT and
\* QUERY_LAST_EVENT query the database on the loop thread, each in a
\* pqxx::work of its own.
Dispatch(c, m) ==
    \/ /\ m.op = "UPDATE_LOG"
       /\ \E v \in PastEnd : lid' = [lid EXCEPT ![c] = v]
       /\ works' = Append(works, [conn |-> c, pkg |-> m, stage |-> "queued"])
       /\ UNCHANGED <<clientOf, rows, sendQ, stored, proc, durable>>
    \/ /\ m.op \in {"CONNECT", "QUERY_LAST_EVENT"}
       /\ dbConn = "broken" \/ TxClash
       /\ Terminate
       /\ UNCHANGED <<clientOf, lid, rows, works, sendQ, stored, durable>>
    \/ /\ m.op = "CONNECT" /\ dbConn = "open"
       /\ GetClient(c, m)
       /\ IF proc' = "crashed" THEN UNCHANGED sendQ
                                ELSE WriteSomething(c, ConnectPackage(0))
       /\ UNCHANGED <<lid, works, stored, durable>>
    \/ /\ m.op = "QUERY_LAST_EVENT" /\ dbConn = "open"
       /\ lid' = [lid EXCEPT ![c] = GetLastEventRecordID(clientOf[c])]
       /\ WriteSomething(c, ReturnLastEventPackage(0, GetLastEventRecordID(clientOf[c]) + 1))
       /\ durable' = [durable EXCEPT ![c] = {p[2] : p \in BagToSet(stored)}]
       /\ UNCHANGED <<clientOf, rows, works, stored, proc>>

\* uvReadCB with nread > 0 -> Client::readFromNetwork: the read hands the
\* decoder the bytes of the first n frames on toServer[c], the last only in
\* part when cut, and takes at most one message out; a nullptr is dropped;
\* with dbConnected set the message is refused; otherwise it is dispatched.
ServerRead(c, n, cut) ==
    /\ proc = "running"
    /\ session[c] = "open"
    /\ n \in 1..Len(toServer[c])
    /\ ~(cut /\ n = 1 /\ sPartial[c])
    /\ LET done == IF cut THEN n - 1 ELSE n
           q    == DecoderPush(srvQueue[c], SubSeq(toServer[c], 1, done))
       IN /\ toServer' = [toServer EXCEPT ![c] = SubSeq(@, done + 1, Len(@))]
          /\ sPartial' = [sPartial EXCEPT ![c] = cut]
          /\ IF q = <<>>
             THEN /\ srvQueue' = [srvQueue EXCEPT ![c] = q]
                  /\ UNCHANGED <<clientOf, lid, works, sendQ, stored, rows, handled, proc, durable>>
             ELSE LET t == DecoderTake(q)
                  IN /\ srvQueue' = [srvQueue EXCEPT ![c] = t.rest]
                     /\ IF t.msg = NoMessage
                        THEN UNCHANGED <<clientOf, lid, works, sendQ, stored, rows, handled, proc, durable>>
                        ELSE /\ handled' = [handled EXCEPT ![c] = Append(@, t.msg)]
                             /\ IF dbFlag
                                THEN /\ WriteSomething(c, RefusePackage(0, t.msg.id))
                                     /\ UNCHANGED <<clientOf, lid, works, stored, rows, proc, durable>>
                                ELSE Dispatch(c, t.msg)
    /\ UNCHANGED <<session, dbFlag, known, failures, acked, link, toAgent>>
    /\ UNCHANGED <<tries, dbConn, dbUp, confOK, outages, stopReq, listening>>

\* uvReadCB with UV_EOF or UV_ECONNRESET, once everything the agent sent
\* before closing was read: uv_close on the Client's socket, then
\* delete[] buf, which frees libuv's own uv_buf_t (a local of its read
\* loop), not the buffer uvAllocCB allocated.  Freeing that address is
\* undefined: glibc aborts on the pointer, or takes it and the loop goes on.
ServerEOF(c) ==
    /\ proc = "running"
    /\ session[c] = "open"
    /\ link[c] \in {"fin", "rst"}
    /\ toServer[c] = <<>>
    /\ session' = [session EXCEPT ![c] = "closing"]
    /\ proc' \in {"running", "crashed"}
    /\ UNCHANGED <<clientOf, srvQueue, sPartial, lid, dbFlag, works, sendQ,
                   stored, rows, known, failures, handled, acked, durable, link,
                   toServer, toAgent>>
    /\ UNCHANGED <<tries, dbConn, dbUp, confOK, outages, stopReq, listening>>

\* uvReadCB begins with auto cname = c->_client->_clientName, for data and
\* for EOF alike, and _client is set only when CONNECT is handled: the
\* Client constructor leaves it uninitialised, so the read that brings the
\* ConnectPackage copies a string through an indeterminate pointer.  On a
\* fresh heap chunk it is null and the loop thread dies of SIGSEGV (this
\* action); otherwise the copy reads what the pointer reaches and the
\* callback goes on (ServerRead, ServerEOF).
ReadOfUnsetClient(c) ==
    /\ proc = "running"
    /\ session[c] = "open"
    /\ clientOf[c] = 0
    /\ toServer[c] # <<>> \/ link[c] \in {"fin", "rst"}
    /\ Terminate
    /\ UNCHANGED <<session, clientOf, srvQueue, sPartial, lid, dbFlag, works,
                   sendQ, stored, rows, known, failures, handled, acked, durable, link,
                   toServer, toAgent, tries, dbConn, dbUp, confOK, outages, stopReq, listening>>

\* UvHandler::ClientDisconnect: the Client's socket is erased from
\* _clientMap under _mutex.
ClientDisconnect(c) == session' = [session EXCEPT ![c] = "closed"]

\* UvHandler::RemoveClient, for a set of sockets: each is erased from
\* _clientMap and its Client returned (read from the erased node).
RemoveClient(S) == session' = [c \in Conns |-> IF c \in S THEN "closed" ELSE session[c]]

\* delete of the Clients of the connections in S: ~Client resets the
\* decoder (its parsed messages are dropped) and deletes the socket.
DeleteClients(S) ==
    /\ srvQueue' = [c \in Conns |-> IF c \in S THEN <<>> ELSE srvQueue[c]]
    /\ sPartial' = [c \in Conns |-> IF c \in S THEN FALSE ELSE sPartial[c]]

\* Mutant of CloseCB: the Client's queued works are cancelled with it
\* (uv_cancel), those already running still finish.
CloseCBCancel(c) ==
    /\ proc = "running"
    /\ session[c] = "closing"
    /\ session' = [session EXCEPT ![c] = "closed"]
    /\ srvQueue' = [srvQueue EXCEPT ![c] = <<>>]
    /\ sPartial' = [sPartial EXCEPT ![c] = FALSE]
    /\ works' = SelectSeq(works, LAMBDA w : w.conn # c \/ w.stage = "tx")
    /\ UNCHANGED <<clientOf, lid, dbFlag, sendQ, stored, rows, known,
                   failures, handled, acked, durable, link, toServer, toAgent>>
    /\ UNCHANGED dbVars

\* uvCloseCB: clientDisConnected, ClientDisconnect (erase from _clientMap)
\* and delete c, whose destructor resets the decoder.  Works and frames
\* queued for the Client keep its address.
CloseCB(c) ==
    /\ proc = "running"
    /\ session[c] = "closing"
    /\ ClientDisconnect(c)
    /\ DeleteClients({c})
    /\ UNCHANGED <<clientOf, lid, dbFlag, works, sendQ, stored, rows, known,
                   failures, handled, acked, durable, link, toServer, toAgent>>
    /\ UNCHANGED dbVars

\* Work i is the oldest queued one and a pool thread is free for it
\* (uv_queue_work is FIFO).
NextQueued(i) ==
    /\ Cardinality(InTx) < Workers
    /\ works[i].stage = "queued"
    /\ \A j \in 1..(i - 1) : works[j].stage # "queued"

\* A pool thread takes the oldest queued work and the work callback opens
\* its pqxx::work on the shared connection (or dies on the clash with one
\* already open).  The pool keeps running while the loop drains after a
\* stop.
Pick ==
    /\ proc \in {"running", "stopping"}
    /\ dbConn = "open"
    /\ \E i \in DOMAIN works :
          /\ NextQueued(i)
          /\ \/ /\ works' = [works EXCEPT ![i].stage = "tx"]
                /\ UNCHANGED proc
             \/ /\ TxClash
                /\ Terminate
                /\ UNCHANGED works
    /\ UNCHANGED <<session, clientOf, srvQueue, sPartial, lid, dbFlag, sendQ,
                   stored, rows, known, failures, handled, acked, durable, link,
                   toServer, toAgent>>
    /\ UNCHANGED <<tries, dbConn, dbUp, confOK, outages, stopReq, listening>>

\* The part of the work callback after the pqxx::work was opened, with the
\* work left in the queue or removed (Insert and its mutant).
\* The Client the work's pointer wo->c reaches when the callback runs: its
\* own while it lives.  uvCloseCB's delete puts the chunk in glibc's
\* tcache, which overwrites _client with its random key; the next Client
\* of that size, the one uvConnectCB makes for the next connection, gets
\* the chunk back (tcache_get clears the key, so its _client is null until
\* its CONNECT is handled).  So a work of a deleted Client acts on the
\* next connection's Client once that one is identified, and otherwise
\* dereferences a wild or null _client (WorkOnFreedClient).
WorkClient(i) ==
    LET c == works[i].conn
    IN IF session[c] # "closed" THEN {c}
       ELSE {d \in Conns : /\ d = c + 1
                           /\ session[d] \in {"open", "closing"}
                           /\ clientOf[d] # 0}

InsertStep(i, ok, worksAfter) ==
    /\ proc \in {"running", "stopping"}
    /\ dbConn = "open"
    /\ works[i].stage = "tx"
    /\ ok \/ failures < MaxInsertFailures
    /\ \E c \in WorkClient(i) :
         LET p == works[i].pkg
         IN /\ stored' = IF ok THEN stored (+) SetToBag({<<clientOf[c], r>> : r \in Range(p.rids)})
                               ELSE stored
            /\ failures' = IF ok THEN failures ELSE failures + 1
            /\ IF p.needAccept
               THEN /\ WriteSomething(c, AcceptLastEventPackage(0, lid[c] + 1))
                    /\ acked' = acked \cup {<<works[i].conn, p.id>>}
               ELSE UNCHANGED <<sendQ, acked>>
    /\ UNCHANGED durable
    /\ works' = worksAfter
    /\ UNCHANGED <<session, clientOf, srvQueue, sPartial, lid, dbFlag, rows,
                   known, handled, link, toServer, toAgent>>
    /\ UNCHANGED dbVars

\* Mutant of Insert: the work stays in the queue after it ran.
InsertNoDequeue(i, ok) == InsertStep(i, ok, works)

\* The rest of the work callback: Database::InsertWindowsEvents inserts
\* the batch under the Client's ClientID and commits, or hits an
\* sql_error, aborts and returns (it catches the error itself); then, if
\* the package needs an accept, an AcceptLastEventPackage(lid + 1) is
\* written to the Client's socket with lid read now.  The Client is the
\* one wo->c reaches (WorkClient).  The after-work callback frees the
\* package.
Insert(i, ok) == InsertStep(i, ok, RemoveAt(works, i))

\* A pool thread's pqxx call on the broken connection, the pqxx::work
\* constructor of the next queued work or an exec of a running one:
\* broken_connection escapes InsertWindowsEvents and the work callback.
WorkOnBrokenConnection(i) ==
    /\ proc \in {"running", "stopping"}
    /\ dbConn = "broken"
    /\ works[i].stage = "tx" \/ NextQueued(i)
    /\ Terminate
    /\ UNCHANGED <<session, clientOf, srvQueue, sPartial, lid, dbFlag, works,
                   sendQ, stored, rows, known, failures, handled, acked, durable, link,
                   toServer, toAgent, tries, dbConn, dbUp, confOK, outages, stopReq, listening>>

\* The work callback dereferencing the _client of a deleted Client whose
\* chunk no identified Client has taken back (the tcache key, or null):
\* the pool thread dies of SIGSEGV.
WorkOnFreedClient(i) ==
    /\ proc \in {"running", "stopping"}
    /\ works[i].stage = "tx"
    /\ session[works[i].conn] = "closed"
    /\ WorkClient(i) = {}
    /\ Terminate
    /\ UNCHANGED <<session, clientOf, srvQueue, sPartial, lid, dbFlag, works,
                   sendQ, stored, rows, known, failures, handled, acked, durable, link,
                   toServer, toAgent, tries, dbConn, dbUp, confOK, outages, stopReq, listening>>

\* SIGPIPEHandler, run on the loop thread by a write that got EPIPE:
\* dbConnected := CheckConnectStatus().  conn->is_open() is true: libpq
\* marks a connection bad only when a call on it fails, and such a call
\* has already terminated the process, so the reconnect branch is never
\* taken.
SIGPIPEHandler == dbFlag' = TRUE

\* writeAsync -> UvHandler::_WriteToNetwork: under _mutex, uv_write every
\* queued frame in order and empty the queue.  Frames for an open
\* connection reach the agent; on a connection the agent closed they are
\* lost, the first one answered by a reset, and a write to a reset
\* connection fails with EPIPE and raises SIGPIPE.
WriteToNetwork ==
    /\ proc = "running"
    /\ sendQ # <<>>
    /\ LET frames(c) == LET fs == SelectSeq(sendQ, LAMBDA f : f.to = c)
                        IN [i \in DOMAIN fs |-> fs[i].frame]
       IN /\ toAgent' = [c \in Conns |-> IF link[c] = "open"
                                          THEN toAgent[c] \o frames(c)
                                          ELSE toAgent[c]]
          /\ link' = [c \in Conns |-> IF link[c] = "fin" /\ frames(c) # <<>>
                                       THEN "rst" ELSE link[c]]
          /\ IF \E c \in Conns : link[c] = "rst" /\ frames(c) # <<>>
             THEN SIGPIPEHandler
             ELSE UNCHANGED dbFlag
    /\ sendQ' = <<>>
    /\ UNCHANGED <<session, clientOf, srvQueue, sPartial, lid, works, stored,
                   rows, known, failures, handled, acked, durable, toServer>>
    /\ UNCHANGED dbVars

\* UvHandler::StopLoop: uv_async_send(stopAsync); sends before the callback
\* ran coalesce into one call.
StopLoop == stopReq' = TRUE

\* SIGTERMHandler: StopLoop.  The handlers are installed once Connect
\* succeeded.
SIGTERMHandler ==
    /\ MayStop
    /\ proc = "running"
    /\ ~stopReq
    /\ StopLoop
    /\ UNCHANGED <<session, clientOf, srvQueue, sPartial, lid, dbFlag, works,
                   sendQ, stored, rows, known, failures, handled, acked, durable, link,
                   toServer, toAgent, proc, tries, dbConn, dbUp, confOK, outages, listening>>

\* Mutant of StopWalk: the Client handles are skipped and stay open.
StopWalkSkipClients ==
    /\ proc = "running"
    /\ stopReq
    /\ proc' = "stopping"
    /\ stopReq' = FALSE
    /\ listening' = FALSE
    /\ UNCHANGED <<session, clientOf, srvQueue, sPartial, lid, dbFlag, works,
                   sendQ, stored, rows, known, failures, handled, acked, durable, link,
                   toServer, toAgent, tries, dbConn, dbUp, confOK, outages>>

\* The stopAsync callback: uv_walk over every handle.  A Client's handle
\* is taken out of _clientMap (RemoveClient), its read stopped, uv_close'd
\* (a second time when uvCloseCB was already pending) and the Client
\* deleted with its handle; then uv_close is called on the freed handle.
\* That is undefined behaviour: libuv's assertion aborts, or the loop goes
\* on with the freed handle on its closing list.  The listening socket and
\* the async handles are closed too.
StopWalk ==
    /\ proc = "running"
    /\ stopReq
    /\ LET live == {c \in Conns : session[c] \in {"open", "closing"}}
       IN /\ RemoveClient(live)
          /\ DeleteClients(live)
          /\ proc' \in IF live = {} THEN {"stopping"} ELSE {"stopping", "crashed"}
    /\ stopReq' = FALSE
    /\ listening' = FALSE
    /\ UNCHANGED <<clientOf, lid, dbFlag, works, sendQ, stored, rows, known,
                   failures, handled, acked, durable, link, toServer, toAgent,
                   tries, dbConn, dbUp, confOK, outages>>

\* UvHandler::DestroyUvHandler -> ~UvHandler: the frames left in
\* _sending_queue are freed unsent, the loop and the handles deleted.
DestroyUvHandler == sendQ' = <<>>

\* Database::DestroyDatabase -> ~Database: delete conn (and the cached
\* DbClients).
DestroyDatabase == dbConn' = "null" /\ known' = NoClients

\* uv_run returns once no handle is open and no work is pending; main then
\* destroys the UvHandler and the Database, and returns.
LoopExit ==
    /\ proc = "stopping"
    /\ works = <<>>
    /\ \A c \in Conns : session[c] \notin {"open", "closing"}
    /\ proc' = "exited"
    /\ DestroyUvHandler
    /\ DestroyDatabase
    /\ UNCHANGED <<session, clientOf, srvQueue, sPartial, lid, dbFlag, works,
                   stored, rows, failures, handled, acked, durable, link,
                   toServer, toAgent, tries, dbUp, confOK, outages, stopReq, listening>>

Next ==
    \/ ReadConfig \/ ConnectTry \/ ConnectGiveUp \/ DatabaseOutage \/ DatabaseRecover
    \/ \E c \in Conns : Accept(c) \/ ServerEOF(c) \/ ReadOfUnsetClient(c) \/ CloseCB(c)
    \/ \E c \in Conns : \E n \in 1..Len(toServer[c]), cut \in BOOLEAN : ServerRead(c, n, cut)
    \/ Pick
    \/ \E i \in DOMAIN works, ok \in BOOLEAN : Insert(i, ok)
    \/ \E i \in DOMAIN works : WorkOnBrokenConnection(i) \/ WorkOnFreedClient(i)
    \/ WriteToNetwork
    \/ SIGTERMHandler \/ StopWalk \/ LoopExit

=============================================================================
