# TLA+ models of ClientService

ClientService forwards the Windows event log to a PostgreSQL database.

- **The agent** (`src/WindowsClientService`) runs as a Windows service with two threads:
  - a libuv loop thread that holds the TCP connection to the collector;
  - the `EventForwardHandler` thread. It waits on Windows events, reads the event-log subscription and sends `LogPackage`s.
- **The collector** (`src/ClientServiceServer`) runs a libuv loop that accepts agents. It parses their messages in `Client::readFromNetwork` and hands each `LogPackage` to the libuv worker pool, which inserts the events through the one shared `pqxx::connection`.
- **Shared library.** Both sides use `src/WindowsProtobufLib`:
  - `CoreMessage` and its variants;
  - `toBytes`, which writes a 40-byte header (serial size, compressed size, SHA-256) and then the body;
  - `ProtobufPacketDecoder`, which turns a byte stream back into messages.

## The protocol

```
agent                                 collector
 connect ---- ConnectPackage ------->  GetClient, reply ConnectPackage
 <----------- ConnectPackage --------
 QueryLastEventPackage ------------->  lid := max stored rid
 <----------- ReturnLastEvent(lid+1)
 ResumeThread; floor := lid+1
 LogPackage(batch, needAccept) ----->  lid := cend()->rid; queue insert work
                                        worker: insert; if needAccept:
 <----------- AcceptLastEvent(lid+1)      AcceptLastEvent(lid+1)
 floor := id; SetEvent(UPLOAD)
```

## Inventory

| Part | Code | State | Operations | Modelled in |
|---|---|---|---|---|
| Packet decoder | `protobufLib.h/.cpp` | counters, `header_buffer`, `_buf`, `_vec` | `read`/`_read`/`parseHeader`, `GetProtobufMessage`, `Reset` | `PacketDecoder` (refines `DecoderQueue`) |
| Codec | `protobufLib.cpp` (`toBytes`, `dispatch`, `BuildPBObj`, `BuildObj`) | none | encode, build | `MessageModel` |
| Collector process | `ClientServiceServer.cpp`, `config.cpp`, `database.cpp` `Connect` | process stage, connect tries, whether the connection string is right | `main`: `ReadConfig`, `Connect` retry loop, `SetupNetwork`, loop, teardown | `Collector` |
| Collector connections | `uv.cpp`, `client.cpp`, `clientServer.h` | `Client` (decoder, `lid`, `_client`), `dbConnected`, `_sending_queue`, listening socket | `uvConnectCB`/`AddClient`, `uvReadCB`→`readFromNetwork`, EOF/`uv_close`, `uvCloseCB`, `WriteToNetwork`, `_WriteToNetwork` | `Collector` |
| Worker pool | `client.cpp` `InsertWindowsEvents` | queue of works | pickup, insert + accept | `Collector` |
| Database | `database.cpp` | the WindowsEvents rows, the Client table, `_clients`, one connection | `GetAllClients`, `GetClient`, `InsertWindowsEvents`, `GetLastEventRecordID`, an outage and recovery | `Collector` |
| Signals and stop | `ClientServiceServer.cpp`, `uv.cpp` | `dbConnected`, stop request | `SIGPIPEHandler`, `SIGTERMHandler` → `StopLoop`, the stop walk, `DestroyUvHandler`, `DestroyDatabase` | `Collector` |
| Agent network | `network.cpp`, `service.h`, `service.cpp` | connection state, decoder | `Connect`, `uvNetworkConnectCB`, `uvNetworkReadCB`, the dispatcher's routing, `Send` | `Agent` |
| Event forwarder | `event.cpp`, `service.h` | thread state, two manual-reset events, subscription cursor, `lastEventIDUploaded` | `Start` loop, `EnumerateResults` with `PrintEvent`, `GetProtobufPackage`, `NetworkStartFinished` | `Agent` |
| Agent service host | `clientService.cpp`, `service.cpp` | — | `start()`, process restart | `Agent` (`AgentRestart`, `StartThread`) |
| Sender identity | `WindowsProtobufLib/utils.cpp` | `CoreMessage::_myMachineID`, `_myOsVersion` | `initProtobufLibrary`: `getOsVersion`, `MachineID` (`GetDMIUUID`, `dmi_system_uuid`, `GetProductID`) | `Identity`, `Agent` (`InitProtobufLibrary`) |
| Utilities, tests | `WindowsClientService/utils.cpp`, `ProtobufLibraryTest`, `ProtobufSendingTest` | — | — | not modelled (formatting, manual tools) |

The behaviours that make this code hard to test:

- TCP splits and merges frames arbitrarily.
- Every read callback takes at most one message from the decoder.
- The forwarding thread runs concurrently with the agent's loop thread.
- Pool threads run concurrently with the collector's loop thread. They share its `Client::lid`, its `Client` objects and its one database connection.
- The Windows events are manual-reset, so a signal can be cleared after it is raised.
- Undefined reads: `cend()->rid` and the uninitialised `dbConnected`.
- An insert failure is swallowed.
- A database outage throws `broken_connection`, which nobody catches.
- The read callback reads the `Client`'s `_client` on every read, before `CONNECT` has set it.
- A pool work can outlive its `Client`, and the freed memory is reused by the next connection's `Client`.
- An agent process can restart, and the collector then deletes the old `Client` while work for it may still be pending.
- SIGTERM starts a stop walk over live handles.
- Every agent process computes its machine ID and OS version anew, and the collector finds the machine's Client row by that ID in a cache it filled at startup.

## Modules

- **`DecoderQueue`** is the abstract decoder. After `received` bytes of a stream whose frames end at `Ends`, the messages decoded are exactly those of the completed frames, in order.
- **`PacketDecoder`** models the real decoder.
  - A byte is abstracted to `[frame, pos]`.
  - The code's recursion is kept as the mutually recursive operators `ReadBytes` (`_read`) and `ParseHeader` (`parseHeader`).
  - `ParsedMessage` stands for the digest check and the parse: a misaligned header or body yields `Corrupt`.
  - Its actions are `Read(n)`, `GetProtobufMessage` and `Reset`.
  - `ReuseSpec` feeds a new stream after a `Reset`, as `test.cpp` encode3 does.
  - `DecoderRefinement` instantiates `DecoderQueue` with `decoded <- consumed \o dec.vec`.
- **`Identity`** is the sender identity of `WindowsProtobufLib/utils.cpp` as pure operators.
  - `Firmwares` are the kinds of SMBIOS data that decide the bios part: 2.6 or later, before 2.6, a blank UUID, no readable table.
  - `DmiSystemUuid` and `GetDMIUUID` give the text `MachineID` parses. Before SMBIOS 2.6 the text has a `-` in front, and `UuidFromString` fails.
  - The assert on the status is compiled out, so the UUID keeps an uninitialised value. `MachineIDs(fw, Garbage)` lets that value be any member of `StackGarbage`.
  - SHA-256 is taken as injective: a machine ID is the pair of the two parsed UUIDs.
- **`MessageModel`** is the message taxonomy.
  - `Encode` is `toBytes`: `dispatch(Operation)` maps the operation, and `BuildPBObj` fills the variant's fields. Operations `dispatch` does not list, `REFUSE` among them, become the INT_MIN sentinel.
  - `BuildObj` is the `CoreMessage::BuildObj` switch. It yields nullptr (`NoMessage`) for anything else.
  - `DecoderPush` and `DecoderTake` are what `_read` and `GetProtobufMessage` do with parsed frames.
  - The envelope carries the sender's machine ID and OS version (`mid`, `os`), which `Encode` copies from the process's statics and `GetClient` reads.
  - Other strings, timestamps and XML are left out: no decision depends on them.
- **`Agent`** has one action per handler or thread step:
  - `Connect`, for `HandlerDispatcher::Connect` called by `start()`. The address is a literal, so the DNS branch is never taken.
  - `ConnectCB` and `ConnectFailed`, for `uvNetworkConnectCB`. The connect succeeds exactly when the collector is running and listening (`Reachable`). A failure is only logged, and the agent never retries.
  - `AgentRead(n, cut)`, for `uvNetworkReadCB`. The dispatcher routes a `ConnectPackage` to `NetworkStartFinished`, which sends the query, and every other message to `GetProtobufPackage`.
  - `Forward`, one turn of the `Start` loop up to the send.
    - `EnumerateResults` is a RECURSIVE operator.
    - `PrintEvent` may fail for one record of the batch (at most `MaxRenderFailures` times). The batch then ends there, and the records after it are skipped.
  - `ResetFired`, the `ResetEvent` that ends the turn.
  - `NewRecord`, the environment writing an event, which signals the subscription.
  - `AgentRestart`, the service process restarting: a FIN or a reset of the old connection, a fresh handler and a new connection. `InitProtobufLibrary` computes the new process's identity again, so the OS version may have changed and, before SMBIOS 2.6, so may the machine ID.

  Record i has EventRecordID i. `NextId` is a ghost index of the messages sent. The wire `nextID()` is read only by `RefusePackage`.
- **`Collector`** also has one action per handler:
  - `ReadConfig`, `main`'s first call. A missing file, a short read or text that is not JSON ends the process with `exit(1)`. Otherwise the connection string is built with defaults (port 5432 for a missing or out-of-range port), and `confOK` records whether it names the database server with credentials it accepts.
  - `ConnectTry` and `ConnectGiveUp`, for `Database::Connect`'s retry loop in `main`.
    - A pass succeeds when the database is up and `confOK` holds. A success leads to `SetupNetwork`. The address is the literal 0.0.0.0 and the port is not privileged, so `uv_tcp_bind` reports nothing; libuv reports a taken port from `uv_listen`, and `exit(1)` ends the process. Otherwise the socket listens and the loop runs.
    - Giving up after `ConnectTries` passes is the null dereference of `conn->is_open()`, modelled as a crash.
  - `Accept(c)`, for `uvConnectCB` with `AddClient`.
  - `ServerRead(c, n, cut)`, for `uvReadCB` → `readFromNetwork`, with the dbConnected check and the switch (`Dispatch`).
    - `CONNECT` runs `GetClient`, which looks the machine ID up in `_clients` (`known`).
      - Found with the cached OS version, it returns the cached ClientID.
      - Found with another OS version, the `UPDATE` names the column `CliendID`, `exec` throws `sql_error`, and the process terminates.
      - Not found, `InsertClient` adds a row, and the new ClientID is not cached.
    - `QUERY_LAST_EVENT` runs `GetLastEventRecordID`.
    - Both open a transaction on the shared connection: a broken connection, or a transaction already open (`TxClash`), kills the process.
  - `ReadOfUnsetClient(c)`: `uvReadCB` reads `c->_client->_clientName` (uv.cpp:40) before it looks at the result. Until `CONNECT` has set `_client` (`clientOf[c] = 0`), the constructor left it uninitialised. The model takes the null pointer of a fresh heap chunk: SIGSEGV. Otherwise the read goes on as `ServerRead`.
  - `ServerEOF(c)` and `CloseCB(c)`: the `uv_close`, then `uvCloseCB` with `ClientDisconnect` and `DeleteClients`, which delete the `Client`. `ServerEOF` also does `delete[] buf` on libuv's `uv_buf_t`, an invalid free: glibc may abort the process there, or go on.
  - `Pick`, a pool thread taking the oldest queued work and opening its `pqxx::work`. This can also hit `TxClash`.
  - `Insert(i, ok)`, the rest of the work callback: the insert or a caught failure, then the accept, with `lid` read at that moment.
    - `WorkClient(i)` is the `Client` that `wo->c` reaches. While the connection is live, that is its own `Client`. Once it has been deleted, glibc's tcache has overwritten `_client` with its key. If the next connection's `Client` (the same size) has taken the chunk and its `CONNECT` has run, the work reads that `Client`: the records are stored under the new ClientID and the accept goes to the new connection.
    - `WorkOnFreedClient(i)`: otherwise the freed `_client` is dereferenced and the process crashes.
  - `WorkOnBrokenConnection(i)`, a work whose transaction meets the outage. The `broken_connection` escapes, and the process ends through `Terminate`.
  - `WriteToNetwork`, for `_WriteToNetwork`.
  - `DatabaseOutage` and `DatabaseRecover`: the environment, at most `MaxOutages` times.
  - `SIGPIPEHandler`.
  - `SIGTERMHandler` (`StopLoop`), `StopWalk` and `LoopExit`.
    - `StopWalk` is `uv_walk` with `RemoveClient`/`DeleteClients`. It calls `uv_close` on handles already freed: undefined behaviour, so it crashes or goes on.
    - `LoopExit` is `DestroyUvHandler`, then `DestroyDatabase`, then the return from `main`.

  `stored` is a bag, because the table does not deduplicate. `rows` is the Client table, and `known` is `_clients`, a function from machine ID to ClientID that `GetAllClients` fills at startup. The constant `Registered` says whether the machine had its row before the collector started. `durable` is a history variable: per connection, the rids stored when its `QUERY_LAST_EVENT` was answered.
- **`LogForwarding`** composes the agent and the collector.
  - They share only:
    - the connections (`link`) and their two directions, `toServer` and `toAgent`;
    - the collector's process stage and listening socket, which the agent's connect reads.
  - Every step is a step of one component with the other's variables unchanged.
  - A read of `(n, cut)` delivers the first n frames on the channel, the last one in part when `cut`. Together with `PacketDecoder`'s result, which is that the decoder yields exactly the completed frames for any split, this covers every way TCP can split the stream.
- **`MCPacketDecoder`** and **`MCLogForwarding`** give the constants for TLC.

## Runs

| Run | Cfg | Expect | What it shows |
|---|---|---|---|
| decoder_fragmentation | `MCPacketDecoder.cfg` | pass | `TypeOK`, `BytesAccounted` (the counters and buffers account for every byte fed since the last frame boundary), and `DecoderRefinement`, for every split of a 6-frame, 28-byte stream into reads of 1..28 bytes |
| forwarding_safety | `MCLogForwarding.cfg` | pass | `ResumeRespectsStore`, `AtMostOnceStored`, `HandledInOrder`, `StopTerminates` and `HandshakeCompletes` (connect, reply, query, return: the thread is resumed unless the collector stops), over all interleavings of the two agent threads, the collector's main, loop and two pool threads, with a startup connect, one outage, one render failure and a SIGTERM |
| restart_safety | `MCLogForwardingRestart.cfg` | pass | `ResumeRespectsStore`, `ResumeSkipsOnlyStored` and `ResumeIdempotent` (no record stored when a connection was resumed is sent on it) with one agent restart, for a registered machine whose OS version may change. The collector deletes the old `Client` while the new connection resumes, and pending works may reach the new `Client` through the reused chunk. |
| accept_after_failed_insert | `MCLogForwardingAccept.cfg` | violation | `AcceptImpliesStored`: an accepted batch was rolled back |
| refuse_while_connected | `MCLogForwardingRefuse.cfg` | violation | `NoRefuseWhileConnected`: refusals with the database up |
| record_skipped | `MCLogForwardingSkip.cfg` | violation | `NoRecordSkipped`: an accept carrying the past-the-end `lid` makes the agent skip unsent records |
| message_stuck | `MCLogForwardingStuck.cfg` | violation | `EveryMessageHandled`: a message stays in a decoder queue forever (each read callback, the collector's and the agent's, takes one message) |
| lost_wakeup | `MCLogForwardingWakeup.cfg` | violation | `EveryRecordRead`: a record signalled during a send is never read |
| resume_resends_stored | `MCLogForwardingResend.cfg` | violation | `ResumeIdempotent`: a machine not cached at startup gets a new Client row on each connection, so the restarted agent resumes from record 1 and resends stored records |
| use_after_free | `MCLogForwardingFree.cfg` | violation | `NoUseAfterFree`: `uvCloseCB` deletes a `Client` while a frame for its socket is still queued |
| collector_crash | `MCLogForwardingCrash.cfg` | violation | `NoCrash`: the first read of a connection dereferences the uninitialised `Client::_client` in `uvReadCB` (uv.cpp:40) and kills the collector. The OS version is fixed so that the shortest trace is this one; the outage, `CliendID` and `TxClash` paths violate `NoCrash` too, with longer traces |
| agent_never_reconnects | `MCLogForwardingReconnect.cfg` | violation | `AgentConnects`: the collector ends up running for good, but the agent is never connected. In TLC's trace the agent connects while the collector is still starting, before it listens. A failed connect is only logged and nothing retries it. |

`MCPacketDecoderReset.cfg` checks `NoCorruptFrame` under `ReuseSpec`. TLC finds it violated: after a `Reset` mid-body, the next stream is parsed with stale `_buf` bytes. It is not one of the runs, and not a hazard of the service: the service never reuses a reset decoder (`~Client` resets it just before deleting it), only the codec test does.

Each property of a passing run has a mutant in `PROJECT.json`: a plausible bug in the definition it names, which TLC must find. The mutants are:

- the header copy not bounded by the room left;
- `<` for `<=` in `_read`;
- `pop_back` for `pop_front`;
- an off-by-one at the end of the log in `EnumerateResults`;
- the base class's `GetThreadStartFlag` (not suspended);
- a work left queued after it ran;
- the decoder queue taken from the back;
- an off-by-one in `GetLastEventRecordID`;
- `GetClient` that inserts without looking in `_clients`;
- a dispatcher with no handler registered when the collector's `ConnectPackage` arrives;
- a stop walk that skips the clients and leaves their handles to close.

`HandshakeCompletes`, `EveryMessageHandled` and `EveryRecordRead` are stated for behaviours in which `dbConnected` stays clear and the collector never crashes (`[](~dbFlag /\ proc # "crashed") => ...`). Without that condition, the refusal bug (an uninitialised flag that starts TRUE) would be the counterexample to all three. A crash (uv.cpp:40, a `TxClash`, an outage) would also stop every handler; `NoCrash` is about that. With these conditions, the counterexamples show the one-message-per-read and lost-wakeup bugs themselves. `EveryRecordRead` also assumes that the agent's connect succeeded. A failed connect leaves the forwarding thread suspended for good, because the code has no retry; `AgentConnects` is about exactly that.

Other observations from modelling, not made into runs:

- **Other crash paths.** Besides uv.cpp:40, `NoCrash` is violated by a database outage while serving (the next pqxx call throws `broken_connection`, which nobody catches), by an agent restarted with another OS version (`GetClient`'s `UPDATE` names the column `CliendID` and throws `sql_error` on the loop thread), and by `TxClash`. With `OsVersions = {"v1", "v2"}` in `MCLogForwardingCrash.cfg`, TLC may report the `CliendID` trace, which has the same length as the uv.cpp:40 one.
- **Unstable machine ID.** With `Firmware = "legacy"` and the machine registered, `ResumeIdempotent` is violated too. The restarted process computes another machine ID from the uninitialised UUID, and the collector registers the machine again. The hazard list records this under `utils.cpp:271`.
- **No backpressure.** The spec (4.5 step 5 and 8) says the agent sends no batch after a `needAccept` batch until the accept arrives. `EventForwardHandler::Start` sends whenever either event is signalled. A one-off TLC check of "every LogPackage followed by another on its connection had its accept sent" fails in 780 states. It is not a run, because a unit test of the agent alone shows it just as well.

- **Shared connection.** Pool threads and the loop thread each open a `pqxx::work` on the one `Database::conn`. A one-off check of "at most one transaction open at a time" fails with two LogPackages queued. The model makes the clash kill the process (`TxClash`: libpqxx throws `usage_error`, which nobody catches), so `NoCrash` covers it.
- **Render failure.** With `PastEnd = {0}` and one render failure, `NoRecordSkipped` is violated as well. The rest of an `EvtNext` batch after a failed `PrintEvent` is never read.
- **Dead XML insert.** In `database.cpp` 137–138, `insE.clear()` runs before `if (insE.size() == 1)`, so the XML row is never inserted. No model state depends on it.
- **Inverted assert.** The assert in `AddClient` (`clientServer.h:250`) is inverted, so a debug build would abort on every accept. The model assumes the release (NDEBUG) build.
- **Refuse branch.** The `sql_error` catch in the work callback (`client.cpp:43`) is unreachable, because `InsertWindowsEvents` catches `sql_error` itself.

## Bounds

- **`MCPacketDecoder`:**
  - six frames with header size 3 and bodies of 1–3 bytes;
  - one frame compressed (size < serial);
  - reads of any length up to the whole stream.

  This covers split headers, split bodies, several frames per read, a frame ending exactly at a read's end, and a read ending exactly after a header.
- **`MCLogForwarding` (most violation runs):**
  - 4 records, one of them already in the log and in the database, so that the resume must skip it;
  - `eventsPerSend` = 2, so full batches (needAccept) and short ones both occur;
  - 2 pool threads;
  - one failing insert;
  - the past-the-end read yields 0 or 9.

  forwarding_safety has 3 records, so the agent can send one full batch and one short one, or two short ones. It adds:

  - `ConnectTries` = 5, as in the code;
  - one database outage;
  - SIGTERM;
  - one render failure.

  It has 44,587 distinct states. With 4 records it had 324,037 and took more than three minutes, and the temporal properties then push it past five.
- **Identity:** every run uses SMBIOS 2.6 firmware, with two values for the uninitialised UUID. restart_safety lets the OS version be `v1` or `v2`, for the row and for each agent process, so an OS update between two agent processes occurs there.
- **restart_safety, resume_resends_stored and use_after_free:**
  - 2 records and batches of 1;
  - two connections, so the agent restarts once.

  restart_safety has a registered machine and 160,500 distinct states; resume_resends_stored has an unregistered one. A restart mid-batch, with the old works still pending, is the case that matters, and one restart is enough to reach it.

- **agent_never_reconnects:** one record, one connection, no outage, no SIGTERM. The collector reaches `running` in two steps, so the agent's connect racing the collector's startup is reached early.

## Fairness

`FairSpec` puts weak fairness on every thread's step:

- **Agent:**
  - `Connect`, because `start()` goes on to it;
  - a pending connect completing (`ConnectCB` or `ConnectFailed`);
  - reads, `Forward` and `ResetFired`.
- **Collector:**
  - `ReadConfig` and the `Connect` loop (`ConnectTry`/`ConnectGiveUp`);
  - `Accept`, reads, EOF and `uvCloseCB`;
  - `Pick`, `Insert` (or `WorkOnFreedClient`) and `WorkOnBrokenConnection`;
  - `WriteToNetwork`, `StopWalk` and `LoopExit`.

A running work callback completes whatever its `Client` pointer reaches, so `Insert` and `WorkOnFreedClient` share one fairness condition. Each of these is a libuv callback, a pool thread or main, and each runs whenever its input is ready. New records, agent restarts, outages, recoveries, SIGPIPE and SIGTERM come from the environment and get no fairness.

## Not modelled

- **The configuration's content.** `ReadConfig` is modelled by its outcomes: exit, or a connection string that is right or wrong. The JSON fields and the string formatting are left out.
- **Record content:** XML rendering, `ParseEventXml`, `FormatEvent` and severity mapping. They are abstracted to the record id, because no control decision of the protocol depends on them.
- **Compression and hashing,** which the byte abstraction replaces.
- **`uv_accept` failure and the DNS path of `Connect`.** The agent's address is a literal, so the DNS path is never taken.
- **The data race of `HandlerDispatcher::Send`,** which is called from the forwarding thread. The model makes each send atomic.
- **The GetDMIUUID walk past the table.** The loop counts structures against the table's byte length, so a table without a type-1 structure is read past its end. Every PC's SMBIOS has a type-1 structure, so the model leaves this out.
- **Severity mapping** (`dispatchEventSeverity`, `Event::dispatch`): it maps record data the model abstracts to the record id.
- **The sending tool** (`ProtobufSendingTest`): a manual test client, not part of the deployed system. It reads the classic event log and sends an empty `LogPackage` per record, with no `ConnectPackage` first. The collector then uses `Client::_client`, which the constructor never initialises, in `QUERY_LAST_EVENT` and `UPDATE_LOG`. This is the hazard at `client.cpp:100`; for the agent, the read at uv.cpp:40 already crashes on the first read. Other defects of the tool, found in reading, are left to the tool:
  - Console input is never read in `begin()`, so after one keypress the keyboard handle stays signalled. `WaitForMultipleObjects` returns its index first every time, and notifications starve.
  - `begin()` resets the notification event after `DumpNewRecords`, the same lost wakeup as the agent's.
  - `GetLastRecordNumber` computes `Oldest + Number - 1`, which underflows on an empty log.
  - `init()` jumps to cleanup on failure, but `main` runs `begin()` anyway.
- **Several agent machines.** One machine with restarts covers the shared `Client` table and the shared connection, and other machines' rows do not interact with it.

These are listed as hazards or components in `PROJECT.json`, with notes.
