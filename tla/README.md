# Verification of the meta-id firmware

meta-id is the firmware of an ESP8266 Wi-Fi bridge for a microcontroller (MCU): a
web server, a transparent TCP/serial bridge, an MQTT client the MCU drives over
SLIP, and two programmers that flash the MCU. This directory holds TLA+ models
of its core, the TLC runs that check them, and theorems about them checked by
TLAPS. Every definition is translated from the C code at the lines the `map` of
`PROJECT.json` names; paths below are relative to the repository's root.

## 1. The system

The SDK runs one callback at a time: a timer, a socket event, a task, a Wi-Fi
event. Callbacks never pre-empt one another, so a callback is one atomic step of
a model; interrupts only post tasks. What makes the code hard is the order in
which callbacks arrive, connections that vanish between two of them, answers
that are late, lost or cut anywhere, power that fails between two flash
operations, and state shared by components that do not know of each other.

| component | state it keeps | operations | interacts with |
|---|---|---|---|
| Configuration store, `meta-id/config.c` | two flash sectors, `flash_pri`, `flashConfig` | `configRestore` at boot, `configSave` from every settings handler | all CGI handlers edit `flashConfig` and call `configSave` |
| MQTT client, `mqtt/mqtt.c`, `mqtt/pktbuf.c`, `meta-id/mqtt_client.c` | `MQTT_Client`: connection state, queue, pending and sending buffer, four second-counters, input buffer | publish, subscribe, connect, reconnect, disconnect; socket callbacks; one-second timer | Wi-Fi events, MCU commands, status timer, settings page |
| MQTT message coding, `mqtt/mqtt_msg.c` | none | build and parse messages | MQTT client |
| MQTT commands, `mqtt/mqtt_cmd.c` | `blocked`, four callbacks | setup, publish, subscribe, last will | MCU through cmd; blocked by the optiboot programmer |
| Intel HEX records, `meta-id/pgmshared.c` | `optibootData` | `processRecord` | both programmers |
| Optiboot programmer, `meta-id/cgioptiboot.c` | `progState`, `baudCnt`, `ackWait`, `errMessage`, `responseBuf`, one timer | sync (POST/GET), upload, timer, UART answers | takes the UART over (`programmingCB`), blocks MQTT |
| Mega programmer, `meta-id/cgimega.c` | its own `progState`, `reply_ok`, `cur_seqno`, shares `optibootData`, `programmingCB`, `errMessage` | the same with the STK500v2 protocol, fuses | shares all of that with optiboot, unawares |
| Serial bridge, `serial/serbridge.c` | pool of four connections with two buffers each, `in_mcu_flashing` | accept, telnet commands, send with back-pressure, MCU reset | UART, programmers, SLIP |
| UART and tasks, `serial/uart.c`, `meta-id/task.c` | receive interrupt enabled or not, task queue | interrupt, receive task, polling | everything serial |
| SLIP and commands, `serial/slip.c`, `cmd/cmd.c`, `cmd/handlers.c` | packet buffer, `cmdInSync`, callback table | parse a packet, dispatch, answer | MCU, MQTT, REST, sockets |
| HTTP server, `httpd/httpd.c` | pool of six connections, header, POST buffer, backlog | parse, dispatch to a CGI, continue, retire | every CGI |
| Multipart uploads, `httpd/multipart.c` | one context per URL | find boundaries in a stream | nothing: no caller in the firmware |
| Firmware update, `meta-id/cgiflash.c` | flash partition not running | upload in chunks, reboot | HTTP server |
| Wi-Fi management, `meta-id/cgiwifi.c` | mode, scan results, two timers, four event callbacks | scan, associate, rescue, static IP | MQTT, REST, console |
| REST, `rest/rest.c`, and sockets, `socket/socket.c` | a pool of four clients each, used in turn | set up, request or send; connect, sent, receive, disconnect callbacks | cmd, SDK sockets |
| HTTP client, `meta-id/httpclient.c` | one `request_args` per request | request; lookup and socket callbacks | the pages of `cgimeta.c` |
| Syslog, `syslog/syslog.c` | message queue, state, timer, task | log, change of server; timer, task, sent and lookup callbacks | everything that logs, services page |
| User pages, `web-server/web-server.c` | callback of the MCU | hand a request to the MCU, and its answer back | HTTP server, cmd |
| Console, log, LEDs, captive DNS, file system, other CGIs | ring buffers, tables | presentation | HTTP server |

What makes each correct:

* **Configuration store**: a restart at any moment finds the configuration of the
  last save that was reported good, or one a later save was writing.
* **MQTT client**: what must be delivered stays in the queue or pending until it
  is acknowledged, is sent in order, one at a time; every connection starts with
  CONNECT; a lost connection always comes back.
* **Programmers**: "Success" means every byte of the image is in the MCU's flash at
  its address; an answer is never taken for that to another command; a session
  that ends releases the UART and MQTT; a sync request always ends.
* **Serial bridge**: bytes leave in order and once; a connection whose send failed
  is not stuck; SLIP is disabled only while the MCU is programmed.
* **SLIP and commands**: packets are delimited whatever precedes them; an MCU that
  restarts synchronises again; no callback of an earlier MCU life is called.
* **HTTP server**: a slot belongs to one connection; a CGI is called again until it
  is done and once more when its connection dies; no byte of a POST is lost.
* **Firmware update**: an upload that is answered with success is in flash whole.
* **Wi-Fi management**: the module never stays unreachable; it joins the network last
  asked for; a scan ends, and the list is sent to its end, each place once.
* **REST, sockets, HTTP client**: an answer goes to the callback of the request it
  answers, whole; each request is reported once.
* **Syslog**: every message queued is sent, once, unless logging is off (the code does not
  keep this when messages come fast, see section 2; what it keeps is a bound on the loss).

## 2. Modules

| module | models | abstracts |
|---|---|---|
| `ConfigRegister` | the promise of the store: a register that survives restarts | — |
| `ConfigStore` | `configSave`, `configRestore`, `selectPrimary` | a sector is what its CRC, sequence number and settings say |
| `ConfigStore_proofs` | theorems about `ConfigStore` | — |
| `MqttClient` | all of `mqtt.c`, the queue of `pktbuf.c`, the Wi-Fi callback of `mqtt_client.c`; the broker and TCP as environment | payloads; a message is type, QoS and id |
| `MqttClient_proofs` | theorems about `MqttClient`: types, the socket, the timer, and what becomes of the messages it is given | — |
| `PageBuffer` | `optibootData`, the page buffer the programmers share | a byte is represented by the address it is meant for |
| `HexRecords` | `processRecord` of `pgmshared.c` | the text of a record |
| `Optiboot` | all of `cgioptiboot.c`; the boot loader as environment | the text of answers and errors |
| `MegaProgrammer` | `cgimega.c`, one upload at a time; the STK500v2 boot loader as environment | what the answers say, checksums |
| `Programmer_proofs` | theorems about `Optiboot` and `MegaProgrammer` | — |
| `Uart` | the receiving half of `uart.c`, the task queue of `task.c` | what a character is |
| `Telnet` | `telnetUnwrap` of `serbridge.c` | bytes are named by their macros |
| `SerBridge` | the rest of `serbridge.c`, on top of `Uart` and `Telnet` | pins and LEDs, but for the order in which they are set |
| `SerBridge_proofs` | theorems about `Uart`, `Telnet` and `SerBridge` | — |
| `Slip` | `slip.c`, the encoder of `cmd.c`, the CRC | a CRC fits one content only |
| `Cmd` | `cmdParsePacket`, `handlers.c`, the callbacks of `mqtt_cmd.c`, on top of `Slip`; the MCU and the line as environment | commands that only answer: one for all |
| `Cmd_proofs` | a theorem about `Slip` and `Cmd` | — |
| `SequenceLemmas` | lemmas about sequences put together and folds, by induction | — |
| `Httpd` | `httpd.c`, with `cgiEspFsHook`, `cgiUploadFirmware` and `WEB_CgiJsonHook` as its handlers; browsers and the MCU as environment | text of headers and pages; data comes in units |
| `Httpd_proofs` | a theorem about `Httpd` | — |
| `Espconn` | a connection of the SDK, as its callers rely on it | addresses, TCP |
| `Rest`, `Socket` | `rest.c`, `socket.c` | payloads are units |
| `HttpClient` | `httpclient.c` | sizes count segments |
| `Wifi` | `cgiwifi.c`; the station, the AP and the scanner of the SDK as environment | passwords, addresses, JSON |
| `Syslog` | `syslog.c` | a message is its id |
| `Network` | `Wifi`, `Rest`, `Socket`, `HttpClient` and `Syslog` side by side | — |
| `Network_proofs` | theorems about these five | — |
| `MC*` | instances for TLC | — |

### ConfigStore

`flash[s]` is a sector: `sealed` (its CRC is right), `unsealed` (written whole but
for the sequence number, which is still `0xffffffff`), `erased` or `torn`. One
action per `spi_flash` call of `configSave` — `EraseSecondary` … `SealBackup`, in
the order of the code, each with its error return — and `PowerLoss` between any
two of them and in the middle of each. `configRestore` reads both sectors, either
of which may fail to be read. `Edit` is a handler changing `flashConfig`; the
history variables `restorable`, `acked`, `ackedNow` and `backedUp` record what
`configSave` told its callers. `EraseFailKeeps`, `ResaveAfterAck` and `ReadErrors`
choose the environment, because what holds depends on it:

* The code never advances `flashConfig.seq`: a second save between two restarts
  writes the *same* sequence number. If the erase of the old primary then fails and
  leaves it intact, both sectors are good and equal, and `selectPrimary` prefers
  sector 0, which may be the older. So `Durable` holds if a failed erase never
  leaves a sector as it was (run `config_resave`), or if nobody saves twice
  between restarts. If neither (`EraseFailKeeps` and `ResaveAfterAck` both `TRUE`), TLC
  shows the older configuration restored after a save that returned true, by
  `config.c:103`, "no back-up but we're OK".
* A sector that cannot be read is cleared, "clear in case of error", but the CRC
  of a cleared sector is the zero in its CRC field: it passes for good. With
  `ReadErrors = {{}, {0}, {1}}` TLC shows an all-zero configuration restored where the
  code (`config.c:134`, "if neither is OK, we revert to defaults") means the defaults.

The CRC is taken to be perfect but for that case. (It is 16 bits wide: an unsealed
sector has a matching CRC for a few sequence numbers, 3294 the first, which takes
thousands of saves.) `magic` is written and never checked. The 32-bit
sequence number does not wrap in the life of the flash.

### MqttClient

`client` is the `MQTT_Client` record, field by field, with the state of its
socket; `broker` the other end. The helpers `mqtt_send_message`,
`mqtt_enq_message`, `mqtt_doAbort`, `MQTT_Connect`… are operators from a client to
a client and are composed in the callbacks in the order of the code. The
second-counters are `uint8_t` and count modulo 256 exactly where the code lets them
wrap. `mqtt_tcpclient_recv` takes one or two messages from a segment, or part of
one; `in_buffer` says what the input buffer holds, and nothing but receiving ever
empties it. `done` and `accepted` are history. The broker answers in order, may
publish, may be slow, and closes a connection that does not start with exactly one
CONNECT. Losses of the connection, Wi-Fi events and messages are bounded by
`budget`. `Allowed` switches on events without which stronger properties hold.

Abstracted: topics and payloads; message ids do not wrap; memory allocation does
not fail; the host is an address or a name whose lookup is answered; an aborted
`pCon` is gone at once (the code keeps it until its disconnect callback, which then
ignores it). SSL changes nothing but which function is called.

What the model shows to depend on the environment, and how it is handled:

* Publishing between connections (`"offline"`): `MQTT_Publish` does not look at the
  connection state. While TCP is connecting it "sends" on a socket that is not
  open, so `sending` is set with no sent callback to clear it; `connect_cb` then
  cannot send CONNECT. With `Allowed = {"offline"}` TLC shows `SendingIsPending`
  violated (`mqtt.c:571`).
* A message longer than the 2 KB buffer (`"long"`): its head stays in `in_buffer`,
  which is not cleared on reconnection, so every later connection is aborted on
  its first byte, for ever. With `Allowed = {"long"}` TLC shows `Delivered` violated
  (`mqtt.c:128`).
* A change of the settings (`"settings"`, `cgiMqttSet`) frees the client and starts a new
  one, whose queue is empty: what was accepted and not acknowledged is gone (the old
  queue is not even freed). If more than the enable flag was in the request, the new
  client then waits for the next IP address event, "Don't connect now, wait for a wifi
  status change callback": while the station stays up there is none. The message ids
  start again in the code; here they do not, so that messages can be told apart.
* A ping is sent as soon as `keepAliveTick` expires and clears `pending_buffer`;
  with `KeepAlive` longer than `SendTimeout`, as the defaults 60 and 2 have it, an
  unacknowledged message has always aborted the connection before
  (run `mqtt_keepalive`; the converse loses messages).
* A second IP address event while a reconnection is due (`"flap"`) calls
  `MQTT_Connect` without putting the pending message back in the queue. So
  `Retained` is checked without `"flap"` and `"offline"`.

### PageBuffer, HexRecords and Optiboot

`processRecord(p, r)` maps a programmer to the set of programmers it may become; the
constant operator `programPage` of `HexRecords` stands for the C function that
dispatches on `optibootData->mega`, so that both programmers can share the module as
they share the file. `Optiboot` instantiates it with `optibootProgramPage`. In `Optiboot`, `ob` holds the static variables, `mcu` the boot loader's
flash, address and unread answers, `upload` each HTTP request with the image it
carries. An upload is one step per record (a POST may be cut anywhere:
`PartOfRecord` leaves part of one in `saved`); programming a page, with its two
commands and busy-waits, happens within that step as it does within the callback.
Each command may be executed and answered, executed with its answer lost, or
missed. The timer takes `SendSync`, `NextBaud`, `GiveUp` or `KeepAlive` by
`progState`. `SendSync` happens only when no answer is still to be read: the initial
delay is there so that what the microcontroller sent before its reset has arrived
and been thrown away ("we haven't sent anything, this must be garbage"). The code
relies on that delay; were an old answer still to come, it would be counted against
the first command after the synchronisation.

Nothing tells an upload that a new sync replaced its session:
`optibootData->conn` is never set, so the abort mark `optibootInit` would leave is
never left. `Overlap` chooses whether requests may overlap: without, `SuccessIsWhole`
holds; with `"sync"`, run `optiboot_overlap` shows an upload that goes on in the
new session and reports success for an image of which half was programmed.

Not modelled: a record that ends beyond the next page boundary by more than a
page (pages are 128 bytes, or 256 for the mega, records in practice 16 or 32); zero bytes dropped from answers,
which look like a lost answer; the exact overflow of `saved` by records of more than
250 bytes; the race with the mega programmer over the shared variables.

### MegaProgrammer

`ob` and `mcu` are as in `Optiboot`, but what the boot loader sent is a sequence of
units of some four bytes, because here it matters where an answer is cut:
`megaUartRecv` takes any part of what has arrived, and in most states goes on to the
next question whatever that is. So the programmer may be a question ahead of the
boot loader, and its answers be left over when programming begins. `SyncSettles`
says that it gets there all the same; there are no retries, so a lost answer leaves
the session, with the UART it holds, until somebody asks for a new one. The timer
does something only in state `init`; `armed` is true only then.

`Ask` sends a command and reads the answer as `readPacket` does: the next one,
whatever its sequence number, which is received and not compared. `Faults` chooses
whether answers may come after their reader gave up (`"late"`) and whether the boot
loader may miss a page (`"missed"`):

* `readProgramPageReply` does not clear `reply_ok`, which is still true from the
  address command. With `"missed"` in `Faults` TLC shows the upload that reports success
  without a page (`cgimega.c:708`). A missed address is noticed, and a page that was executed while its answer
  was lost does no harm.
* `cgiMegaRead`, `cgiMegaFuse` and `cgiMegaRebootMCU` ask the boot loader in any state.
  The late answer to a `cgiMegaRead` would do for the address of the next page; the
  history variable `session` says that one of them ran, and `FlashInPlace` and
  `SuccessIsWhole` speak of sessions without.

One upload is under way at a time, and what a lost one leaves behind is not built on:
`cgiMegaData` is a copy of `cgiOptibootData`, whose overlaps `Optiboot` shows. Not
modelled: answers with a wrong checksum (to the readers they are lost ones); what
`readPacket` writes when a length is garbage; what the sketch sends after a restart.

### Uart, Telnet and SerBridge

`Uart` is the one place with an interrupt: it disables itself and posts the task that
empties the FIFO in buffers and enables it again. If the queue of tasks is full the
post fails and nobody looks at the result. `uart0_rx_poll`, called from other
callbacks, takes characters away behind the task's back and enables the interrupt, so that
the task may be posted twice. `NeverDeaf` says that the interrupt is enabled unless the task is
posted or under way. It rests on the other tasks leaving one place in the queue (`OthersMax` below
`QueueLen`); if they do not, the port is deaf until something polls it. `SerBridge` extends `Uart` and says what is done with a
buffer: `programmingCB` has it, or every connection's buffer, the SLIP parser or
the console.

A slot of `connData` has `tx` (being filled), `sent` (given to the SDK), `ready` and the
telnet state; `sdk[c]` is the other side. `espbuffsend` splits a packet between two
buffers, as the code does by calling itself, and either allocation may fail.
`client[c].owed` is history: the characters a client has been promised. The bridge
knows of a loss in all cases but one — when memory runs out nothing sets
`txoverflow_at` — and there `lossy` is set by the model.

A behaviour is about one of the `Loads`, so that the state space is a sum
and not a product. Found on the way, and left as the code has it:

* `in_mcu_flashing` is incremented by every programming connection and decremented by
  telnet's RTS off only. After one programming connection SLIP stays off until the
  restart, or until the counter has wrapped, `FlashingMax + 1` connections later.
* The first packet of a programming connection decides that it is one, and is dropped.
* A connection that cannot send is closed by the *next* character that overflows it;
  hence `load.bytes` in `Unstuck`.
* A telnet client that vanishes leaves the reset and ISP pins as it set them; an
  unknown command after IAC leaves the state at IAC; the bytes of a baud rate
  are collected in one variable for all connections: of two clients that set a rate in
  pieces at the same time each gets some of the other's bytes, so no load has two that do.

### Slip and Cmd

The line carries characters; the last one of a frame carries, as history, what the
frame is. A damaged character, a lost one, text, packets that are too long, and the
end of the stream when a side restarts are all possible. `bad` says that the frame on the
line was damaged, or that a programmer or a restart kept it from the parser. `IntactExecuted` is about the code's
claim to find a packet after anything: in whatever pieces a frame arrives, its packet is the last one of the buffer its last
character is in. It holds because a `SLIP_END` always ends what was before, and because no packet
begins with two printable characters, which would make text of it (`StartsText`): the second byte of a
command's number is zero (`CmdAssumption`, from `cmd.h:24`).

The MCU is the client library: it sends SYNC until it is answered, and when the ESP asks
for it. A callback's number says which life of the MCU it belongs to. `Resyncs` is the
liveness of the handshake. Known limits of the code: `commands[]`, to which
`cmdGetCommand` looks for a terminating entry, has none, so an unknown command reads
beyond it (unknown commands are not sent here); the MQTT callbacks survive a SYNC
(`handlers.c:174`, "TODO: call other protocols back to tell them to reset"), so only
`callbacks` is in `CallbackTable`; `cmdWifiCb` is not blocked while the MCU is programmed.

### Httpd

Browsers connect, send a header and data in pieces, and may vanish at any time. A
connection is a slot of the pool with its handler (`cgi`), the handler's data and the
POST buffer. The code loops over the table until a handler takes the request; `builtInUrls` names
that handler, or none, of each URL. `WEB_Data` is the MCU's answer, which looks its
connection up by address and port. `RightAnswers` compares what was sent with `Answers`,
the reference definition of what a request deserves, `UploadIntact` the flash with the
upload, `Owned` the pool with the connections and the open files with the handlers that
will close them.

What the instance leaves out, because the code does not handle it:

* `httpdForbidden` and `httpdSetCookie` use the global `connData`, the first slot: a 401 for
  any other slot is written into the wrong buffer (`httpd.c:314`). The model has it; the
  run has no request that needs a password.
* A file whose length is a multiple of 1024 is never finished: the handler waits for a
  read shorter than 1024 (`httpdespfs.c:93`) and sends nothing when it gets none, so no
  sent callback comes. `FileLen` in the run avoids it; with such a length `Served` fails.
* An MCU that does not answer leaves the connection open: its answer is a fairness
  assumption. A port that is used again while an answer is due gets the old answer.
* Two firmware uploads at the same time write to the same addresses; browsers send one
  at a time. A POST to a file sends it twice.

### Rest, Socket and HttpClient

`Rest` and `Socket` are pools that are used in turn, which the MCU must not
overtake: the comment on each pool says so, and `PoolSuffices` of `Rest` is that condition. A further one is
no promise of the code but an assumption of the model: `PlaceIdle`, that the connection of a place is
over when the place is given away again. The MCU
restarts in the middle of anything and sets up anew. `RightAnswer` and `SentWhole` relate
what the callback is told to what was asked for and what the peer received. `HttpClient` has one
record per request; its buffer grows by reallocation, which may fail, and `Discarded` is
what the code does then. Known limits:

* `Prompt = TRUE` lets the MCU ask again before the answered connection is closed: the
  disconnect callback of the first request then frees the data of the second, and
  `RightAnswer` fails (`rest.c:137`). By number instead of name the second request is
  refused with `ESPCONN_ISCONN`, which nobody looks at.
* A place whose connection is still open: `REST_Setup` frees it (`rest.c:246-254`) and `SOCKET_Setup` does the
  same, while callbacks of the connection may still come and find the new client. `PlaceIdle` excludes it.
* A name the resolver knows already is never looked up: `espconn_gethostbyname` returns it
  without calling back (`rest.c:425`; the same in `socket.c` and `mqtt.c`). The address is stored, so that
  a later lookup that is answered does not connect either (`socket.c:209`). A failed lookup
  is not reported by `rest.c`.
* `socket.c:91` sends the second of more than two parts again and again; no packet of the
  MCU is so long (`SLIP_MAX`), which `SocketAssumption` says.
* A response that is reset half-way is passed on as if it were whole (`httpclient.c:305`,
  "FIXME"), hence the failures in `WholeOrFailed`. There is no timeout: that servers
  close what they have answered is a fairness assumption.
* `REST_Request` before any `REST_Setup`, a response in several segments, and a failed
  allocation of a connection are not modelled; neither is `chunked_decode`.

### Wifi

`stconf` and `apconf`, the two globals through which requests and timers talk, are
variables of their own beside what the SDK has in effect. Each timer is a flag;
`reassTimer` has two callbacks, of which the last request's wins. `trying` is history: the
station was told to connect and no check has found an address since. `Rescue` is the
comment of `resetTimerCb`: "it ensures that the module is in STA+AP mode so the user has a
chance to recover". The model shows:

* A status page overwrites `stconf` between a request and its timer, so that the module
  rejoins the old network: run `wifi_asked`. `InfoPages = FALSE` is without.
* A scan ends whenever it likes, and replaces the list between two pieces of a reply
  (`cgiwifi.c:223`). What is then sent is a mixture of lists, about which `ListInOrder` says what is true: an
  entry for each place of the list as it is at the end, once and in order, none older than the scan before the
  reply and none older than an entry before it. If the list has become shorter than what was sent, the handler asks to be
  called again after sending nothing, and nothing calls it: the second part of `ScanEnds` has that
  exception, and its third part says that it is the only one.
* The comment at `scanInProgress` (`cgiwifi.c:135`), "if 1, don't access the underlying stuff from the webpage", is
  kept by the first call of `cgiWiFiGetScan` and not by the others: TLC refutes
  `[][Len(reply'.sent) > Len(reply.sent) => ~scan.scanInProgress]_vars`.
* The comment of `cgiWiFiScan`, "DO NOT start APs scan in AP mode", is kept when a page asks for a scan, but
  neither for the MCU nor by the timer 200 ms later. A scan that is refused, since there is no station to
  scan with, stays "in progress" for ever (what `wifi_station_scan` answers is not looked at, `cgiwifi.c:200`); it
  is the exception in the first part of `ScanEnds`.
* AP settings that are rejected half-way stay in `apconf` and are put in effect by the next
  change of mode (`cgiwifi.c:544`). The model does it; no comment says otherwise.
* A request for a static address and one for a network within a second cancel
  one another. `cgiWiFiSetMode` without a mode reads a buffer nobody has filled.

### Syslog

`sl` holds the static variables; `syslog_chk_status` and `syslog` are operators on it,
because they call one another through `syslog_init`. The task, the timer and
three callbacks are the actions; `Log` is any message of the program, at any moment, and the heap is low or not whenever
it is looked at. `stalled` is history for the cases in which
the code waits for the next message: a datagram was refused (`syslog.c:213`), or a call left the queue behind
with nothing under way to send it (`LeftBehind`).

The code does not keep what one expects of it, that a message taken off the queue was sent
(`syslog.c:186`, "datagram is delivered - free and advance queue"). A message that is logged while a datagram
is posted or in the air posts the task again (`syslog.c:141`, called from `syslog.c:530`), the head is sent twice, and the
second sent callback takes the next message off unsent: TLC refutes
`[][Len(sl'.queue) < Len(sl.queue) /\ sl'.state # "NONE" => Head(sl.queue) \in sent]_vars`. With
an empty queue the callback reads through NULL, which is an exception and a reset (`Reset`). What is true is
`LossBounded`: no more messages are lost than datagrams were sent a second time (`again`), so that a log
without repetitions has no gaps. And `QueueDrains`: what is queued is sent in the end, or
the server is unknown or the Wi-Fi failed, or `stalled`. A queue that was halted for want of memory is
sent too, with one exception. Known limits:

* A message that halts the queue in the pause between two datagrams (`SYSLOG_SENDING`, `SYSLOG_SEND`) stops it for good:
  the timer does nothing in `SYSLOG_HALTED` (`syslog.c:155`), no message is sent or taken any more, and the memory
  stays used, although `syslog.md:50` says that "the logging will be enabled again". `LeftBehind` has
  this case; without it TLC shows a queue halted so. (Otherwise
  the next sent callback leaves `SYSLOG_HALTED`, even if memory is still short.)
* A resolver that knows the name does not call back and leaves the state at `SYSLOG_DNSWAIT`
  (`syslog.c:337`), so that nothing collected is sent, against `syslog.md:93`; the timer is armed again and again. `LeftBehind`
  has this case too, and TLC shows it if it is taken out.
* One check that finds a wrong password or no access point turns logging off until the
  settings change.
* `syslog_init(NULL)`, which would free the queue, is not reached: `*syslog_host` is read first.

## 3. Runs

| run | configuration | checks |
|---|---|---|
| `config_resave` | 3 configurations, 3 sequence numbers, failed erases tear | `Durable NeverLost BackupCoversRead`, refinement `RegisterSpec` |
| `mqtt_steady` | fair; QoS 1, QoS 2, subscribe; 2 messages, 1 incoming, 2 losses, 1 request | `Delivered` |
| `mqtt_keepalive` | keep-alive 2 s, timeout 1 s; messages too long; a change of settings | `Retained StopAndWait ConnectFirst SendingIsPending` |
| `mqtt_hostile` | everything allowed: offline, flap, fragments, too long, settings | `InOrder NeverStranded SocketAgrees` |
| `optiboot` | 2 uploads, 3 images, pages of 4, addresses modulo 8 | `AckAccount SessionDriven SuccessIsWhole SyncSettles` |
| `optiboot_overlap` | a sync during an upload | violates `SuccessIsWhole` |
| `mega` | fair; 2 sessions, 3 images, answers lost or late, one diagnostic page | `FlashInPlace SuccessIsWhole SyncSettles` |
| `bridge` | fair; 3 clients, 2 slots, buffers of 2, eight loads | `NeverDeaf SendDiscipline NoSilentLoss Unwrapped Unstuck` |
| `cmd` | fair; packets of 5, 2 callbacks, 2 troubles | `CallbackTable IntactExecuted Resyncs` |
| `httpd` | fair; 3 browsers, 2 slots, files of 1 and 3 units, uploads of 2 and 3 | `Owned RightAnswers UploadIntact Served` |
| `network` | fair; pools of 2, parts of 2, 2 failures, 4 Wi-Fi requests, 1 log message beside those of the log client, 1 change of its server | `RightAnswer SentWhole WholeOrFailed CalledOnce Rescue ListInOrder ScanEnds LossBounded QueueDrains` |
| `wifi_asked` | status pages are read | violates `AskedNetwork` |

Bounds. *Configuration store*: three configurations tell the old, the new and an
unsaved one apart; three sequence numbers let the sectors be equal, newer and
older; restarts and edits are unbounded. *MQTT*: two messages make order and
queueing matter, two losses let a retransmission be lost too; `BackoffLimit` 4
instead of 128 lets the back-off reach its limit; timeouts of one or two seconds
keep all orders of the expirations. *Optiboot*: an image with a page filled by two
records, a record cut by the page's end, a jump, an upper address and an ignored record; a truncated one and a
corrupt one; `ATTEMPTS` 2 of 8 and `AckLimit` 2 of 7 are reached. *Mega*: the same
images; `RespSize` 15 units stand for the 63 bytes of `responseBuf`; one diagnostic
page is enough to take an answer that is not its own, or to leave one behind.

*Bridge*: three clients for two slots make one be refused and a slot be used again;
packets of up to three overflow buffers of two, once and twice; characters numbered
modulo two tell a lost one from one repeated or moved, since buffers hold two; the task queue of two is filled by one other
task. *Cmd*: two troubles are two restarts, or a restart and the loss of the SYNC that repairs
it; the longest packet is one too long for the buffer; `a` and `b` are one name more than the table has places
beside `wifiCb`. *Httpd*: two slots and a browser more; a file takes two
reads; an upload takes two buffers in each of two sectors. *Network*: pools of two, with
a third set-up that takes the first place again; requests of one and of two parts, and sends of two; three
responses, one of which is too long; lists of up to three networks, in pieces of two, and four Wi-Fi requests, so that
one changes what another left for a timer, and a scan ends between two pieces of the list of another, which it makes longer
or shorter. *Syslog*: beside the message that is logged at any moment the client logs its own, when it
starts, when the name is found and when memory is short, and the change of its server makes it start once more, so that
queues of several messages are sent with others coming in between. The five components share nothing but the SDK:
`active` says which a behaviour is about, and one run checks them all.
`CHECK_DEADLOCK FALSE` where the bounds on the environment let the system stop.

Fairness. `mqtt_steady` assumes that the one-second timer, which
the SDK re-arms itself, fires; that callbacks of the SDK that are due are
delivered; that an IP address is acquired; that the broker reads. It does not
assume that a connection lasts: losses come when they like, but finitely often.
`optiboot` assumes that its timer fires and that the UART task takes what has been
received, and so does `mega`. The connect callback is part of the assumption because
a connection attempt that is never answered is not timed out by the client: `timeoutTick` is set to 20
and never counted in that state.

`bridge` assumes that tasks run, that the interrupt is taken when enabled, that the
task can empty the FIFO now and then, that memory is not short for ever, that ten seconds pass
and that the SDK closes what it is told to. `cmd` assumes that what is on the line arrives and
that an MCU with something to send sends it (strong fairness, since damage and restarts, which
are bounded, disable it in between); programming comes to an end. `httpd` and `network` assume the callbacks
that are due, the timers, an answer of the MCU, of the resolver and of the server. In each of the
five parts of `network` fairness of the *disjunction* of what is awaited is enough,
because each event is used up when it comes.

## 4. Proofs

### ConfigStore

`ConfigStore_proofs` proves, for every set of configurations, every first
sequence number and every bound, from `ConfigAssumption` alone:

| theorem | statement |
|---|---|
| `TypeCorrect` | `Spec => []TypeOK` |
| `StepsInOrder` | `Spec => []StepInv`: what the sectors hold before each flash operation |
| `NeverLostHolds` | if reads succeed, `Spec => []NeverLost` |
| `DurableHolds` | if reads succeed and not (failed erases keep and saves repeat), `Spec => []Durable` |
| `ImplementsRegister` | under the same assumptions, `Spec => RegisterSpec` |
| `BackupCoversReadHolds` | unless a restart may fail to read both sectors, `Spec => []BackupCoversRead` |

*NeverLost* is not inductive, since it says nothing of which sector is good.
`NeverLostInv` adds that the primary is, from the first acknowledged save on, and
`StepInv` that the secondary is sealed when the primary is erased.

*Durable* speaks of the sector a restart would choose. `DurableInv` says why it is
the right one: outside a save the primary holds a restorable configuration
(`PrimaryInv`); a good secondary either holds one too or loses against the primary
(`SecondaryInv`); during a save the new configuration is restorable (`SavingInv`);
and until a save has been acknowledged the primary carries `flashConfig.seq`, so
that the copy being written is newer (`SeqInv`). The last is where a second save
with the same sequence number would break the proof, and where the assumption of
the theorem enters. The refinement follows from the same invariant: a restart's
choice is in `restorable`; every flash operation but the last is a stutter.

*BackupCoversRead* is about the case the others exclude, a sector that cannot be
read. `BackupInv` says that after a save that made its back-up both sectors are good,
equal, and numbered above zero, which is the number of a cleared sector; so a
cleared sector loses against the other. The number is above zero because a save
increments it, which has to be known while the back-up is written already. The
hypothesis is that of the run: if *both* reads fail the zero configuration is restored,
and no back-up can help.

### MqttClient

`MqttClient_proofs` proves `TypeCorrect` (the types, and that no second counter leaves its eight bits), `SocketAgreesHolds` (`Spec =>
[]SocketAgrees`) and `NeverStrandedHolds` (`Spec => []NeverStranded`) from
`MqttAssumption` alone: for every keep-alive, timeout and back-off limit, any
number of messages and losses, and with every unusual event of `Allowed`.
The invariant is `Inv`. Its part `ClientOK` has, beside the types,

* `SocketOK`: the socket is open exactly in `MQTT_CONNECTED`, and a connection
  attempt is under way only in `TCP_CONNECTING`. The second half is what
  makes the first one inductive: a refused or lost attempt finds the state it leaves;
* `TimerOK`: the timer runs in *every* state but `MQTT_DISCONNECTED`, not just while a
  retry is due, because an attempt that fails does not start it;
* `RetryOK`: the retry is due within the back-off or within the send timeout. The
  second because `mqtt_send_message` stores its own time-out in the same counter;
* `BackoffOK`: the back-off is a power of two. That it is at most the limit is not
  inductive: doubling a value below the limit stays within it only because both are
  powers of two.

Each helper of `mqtt.c` has a lemma saying that it preserves `ClientOK`; an action
cites those of the helpers it calls.

The second half of the module proves the rest of the runs' invariants, each from what it needs:

| theorem | hypothesis | invariant |
|---|---|---|
| `InOrderHolds` | none | `OrderInv` |
| `ConnectFirstHolds`, `SendingIsPendingHolds` | `Online` | `OnlineInv` |
| `RetainedHolds`, `StopAndWaitHolds` | `Steady` | `SteadyInv` |

`Online` says that nothing is published between connections (`"offline"`), and `Steady` moreover
that no second address event comes while a reconnection is due (`"flap"`) and that a ping is not
due before an acknowledgement. Section 2 tells what happens otherwise; the runs show the
theorems' properties under the same conditions.

* `OrderInv`: the ids of the pending message and of those queued ascend, and are below the
  next. The same is kept when the pending message goes back to the *head* of the queue.
* `OnlineInv`: a send that is under way has its callback; CONNECT is the first message of
  what is on the wire or with the broker, and occurs nowhere else, the queue and the pending
  buffer included.
* `SteadyInv`: what is on its way of an exchange, in either direction, belongs to the pending
  message: at most one message that asks for an answer, or at most one answer to it. An
  answer, then, never clears another message than its own.

### Optiboot

`Programmer_proofs` proves `SessionDrivenHolds` and `AckAccountHolds` from
`HexAssumption` and `OptibootAssumption`: for every set of requests and images, every
page size and limit, and with every overlap of requests. `SessionDriven` is nearly
inductive. `AckAccount` is not: it says nothing before programming begins, and then
`ackWait` is set to zero. `Owed` fills the gap: in each state on the way there is at
most one answer still to come, the one to the question just asked, so that reading
the last leaves none. While a page is programmed, `Programmer` is preserved by
`pollAck` (`PollKeeps`), by a command that is answered, executed or missed
(`AskKeeps`), by a page (`PageKeeps`) and by a record (`RecordKeeps`).

`SuccessIsWholeHolds` (`Spec => SuccessIsWhole`) has two hypotheses. `OneAtATime`: requests do not
overlap (the finding of section 3 is what happens when they do) and a page is a whole number of
words, the unit of the boot loader's addresses. `Linked`: images are of the kind a linker makes
(`Suitable`), which `cgioptiboot.c` takes for granted: records ascend, none is longer than a page,
each lies at an even address of the upper half announced for it, and the end-of-file record is
the last. The invariant `ImageInv` says that after `k` records of a running upload each byte of
these is in the flash or in the buffer, at the offset that belongs to its address, and that the
buffer ends before the next record of this upper half (`At`). The step is one record: it may complete a page, leave a
gap, or start a new upper half (`DataDone`, `OtherDone`, `FlushDone`). Where
a page is sent, that the answers belong to its commands is `AckAccount` once more: an answer
read with no other due means that the command was executed.

### MegaProgrammer

`Programmer_proofs` instantiates `MegaProgrammer` as `Mega` (the theorems are about
`Mega!FlashInPlace` and `Mega!SuccessIsWhole`, what run `mega` checks), over variables of its own and the
constants the two have in common, so that the lemmas about the page buffer (`PartPage`,
`DataGathered`, `GatheredAt`, `FlushedAt`, `EofAt`, `UpperAt`), which do not mention how a page is
sent, serve both programmers as `pgmshared.c` does. Apart from `HexAssumption` and
`OptibootAssumption`, whose parts about images and addresses `MegaAssumption` repeats, the
hypothesis is `MegaLinked`: pages of whole words and images of the kind a linker makes
(`Ordered`). `Reachable` is not needed, because this protocol's addresses have their
upper half.

`FlashInPlaceHolds` (`Spec => FlashInPlace`) allows every fault. `readPacket` compares no sequence
number, so what keeps a page from going to an old address is *which* answers may be left over.
`MegaInv` says: from signing on, and unless another page asked (`session.diagnosed`), none of the
answers still to come says that an address was loaded. It is preserved although answers come late:
what is read in place of a late answer to the address command is no such answer either, so the command
counts as failed, which ends the upload and the session (`AddressLoaded`). The next session
signs on when nothing is left to be read. So an address that is reported loaded was loaded, and a
page goes there or nowhere (`MegaPageDone`). The late answer to a page does no such harm.

The rest of `MegaInv` is that the buffer holds what belongs at its address, for which the
invariant of `Optiboot` (`At`) also says what is in the flash. With a missed page it is not there,
and the programmer does not know. `Ghost` is the flash as the programmer believes it to be: the one there is if
pages cannot be missed, and one with every byte in place if they can. So one invariant
serves both theorems, and `MegaSuccessIsWholeHolds` (`Spec => SuccessIsWhole`), which excludes
`"missed"`, says what of it is true of the real one. With `"missed"` it is false
(section 2).

### SerBridge

`SerBridge_proofs` proves `NeverDeafHolds` (`Spec => []NeverDeaf`) from `UartAssumption`
alone: for every length of the FIFO and of the queue, whatever the bridge, its clients and
the programmers do. The invariant `UartInv` adds that at most `OthersMax`, fewer than
`QueueLen`, of the queue's events are others' (`QueueOK`). It is needed because `post_usr_task`
drops an event it has no room for: a full queue then holds an event of the UART already
(`FullQueue`), so the one dropped is never the only one. That taking an event adds
nothing to the others is an injection of the positions left into those before
(`TailOthers`).

It also proves `SendDisciplineHolds` and `NoSilentLossHolds`, with `SerBridgeAssumption` and
`TelnetAssumption`: for every number of slots, connections and clients, every buffer size and
every dialogue. The invariant `BridgeInv` says that a slot and its connection point to each
other (`Linked`) and that each *bundle* of a slot, its connection and its client obeys the two
rules, `Sends` and `Owes` (`Obeys`). The functions that send read and write one bundle only, so
there is a lemma for each of them about a bundle, and one (`BecomeKeeps`) that puts a bundle
back into the whole. While a packet is passed on in two halves the client is owed more than the slot
holds; `Owes` takes that rest as an argument.

`UnwrappedHolds` (`Spec => []Unwrapped`) is about the way in. The invariant `Understands` says of every
open slot how many bytes `k` of its client's words have been heard, and what has become of them (`Understood`):
of a plain client, those `k` characters; of a telnet client, that the machine is *amid* some item,
`r` bytes into it, in the state of the item's `Course` at that place, and has done what the items before it
mean (`At`). An item's meaning is added when the byte arrives on which the code acts, which is not its last (`Due`).
`ItemProceeds` takes the machine over one byte, kind of item by kind of item; `UnwrapSteps` over a
packet of any length, by induction; and all other callbacks leave the three parts of a slot that
`Understood` reads (`Stays`). The hypothesis `OneRate` says that clients say what the protocol has, and
that at most one client of a load sets a baud rate. The second is needed: all connections collect the bytes
of a rate in `tn_baud`, "thus possible race condition" (`serbridge.c:60`), and of two clients that set one at once
`Unwrapped` is false. While a client sets no rate, what others leave there does not matter to it (`UnderstoodAnyRate`).

### Slip and Cmd

`Cmd_proofs` proves `CallbackTableHolds` (`Spec => []CallbackTable`) from `SlipAssumption` and
`CmdAssumption`: for every packet length, table size and set of names, and any number of
damaged characters and restarts. The clause that no callback is older than the last SYNC that was
taken is far from inductive: an `ADD_CB` of an earlier life could still be
on its way. `CmdInv` says why none is: the packets the line's and the parser's characters belong to are in the
order of the MCU's lives, and none is older than the last SYNC taken. Damage could make a new packet of the
characters of others; the model's checksum, which fits one content only, is what excludes
that (`Values` are different for different lives, and none is `"zero"`).

The parser takes a batch of characters and dispatches the packets it finds: two folds. `FoldLeft`
takes an operator, which no prover here can instantiate; `SequenceLemmas` has what can be
said for a *function* (`FoldExists`), and the proof carries the invariant through each
prefix by induction.

`IntactExecutedHolds` (`Spec => IntactExecuted`) is proved from the same assumptions. `IntactInv` adds to
`CmdInv` where the frame on the line is (`Framed`: `a` characters from its beginning, and `a` may be
negative) and, when a part of it has been read, how the parser has understood that part (`Amid`): it is in a packet, has in
its buffer the first `j` characters of packet and checksum, and has read their escaped form, or in addition the ESC of
the next. The first character of a frame brings any parser there (`FrameStarts`), each further one takes
it on by one (`AmidStep`), and the last one finds the checksum right (`TakesLast`); text behind it hands on nothing
(`OnlyEndHandsOn`). `FrameParsed` is the induction over a buffer, for a frame that begins or ends anywhere in it or outside.
A restart of the ESP spoils a frame only if part of it is gone already, which is what `bad` records.

### Network

**Rest.** `RightAnswerHolds` (`Spec => []RightAnswer`) is proved from `RestAssumption` and
`~Prompt`: for every pool, part size and length of a request, with names and addresses, lost
connections, failed look-ups, and any number of set-ups and restarts. `~Prompt`, under which the run checks the
property, is needed: section 2 tells what `rest.c:137` does to an MCU that asks again at once.

*RightAnswer* speaks of the moment of the answer only. `RestInv` follows the data of a place from the
request to the connection (`PlaceOK`): while the name is looked up or the connection is set up the client
holds a whole request (`Ready`); after the first part is handed over the rest is still in the client, and the two
together are the request (`InParts`). The data is freed and replaced by `REST_Setup` when the
place is given away again. That this place is none of the MCU's clients is `McuOK`: a client was set up
at most as many set-ups ago (`Ago`) as the MCU has clients, and it sets up another only while
they are fewer than the places (`PoolSuffices`). That its connection is over is assumed (`PlaceIdle`, section 2).

The theorems about the other users are about `NetSpec`, from `ClientsAssumption`, which collects
the assumptions of the five modules. A step of one leaves the variables of the others alone, so
each has an invariant of its own. All but `LossBounded` are action properties, of the step in which somebody is
told something; what has to be shown is what is known before that step.

**Socket.** `SentWholeHolds` (`NetSpec => SentWhole`) holds for every pool and part size, for TCP clients,
servers and UDP, and whatever peers do. `SockInv` says by what a connection is doing where the data of the
*last* send with its place is (`LastData`): before the connection is open all of it is still with the client
(`ToSend`); while a part is unacknowledged what the peer has ends with exactly the part handed over
(`HalfSent`), and if that is not all, the rest is still there and the part is one `CHUNK`. The last is
what makes two parts enough: of data longer than the two chunks of `SocketAssumption` the second
would be handed over twice (`socket.c:91`). That the MCU does not send while a part
is on its way (`Quiet`) is its side, as in *Rest*.

**HttpClient.** `WholeOrFailedHolds` (`NetSpec => WholeOrFailed`) holds for every buffer and response length and any number
of requests and failures. The code has no flag for a lost segment: it overwrites the beginning of the buffer, and later segments
are appended to what there is, or to nothing. `FetchInv` therefore distinguishes buffers by how they begin: one that has
the *first* segment (`Begun`) has everything the server has sent so far, and fits. For any other
`disconnect_callback` reports a failure; and as long as nothing fails, a response that fits never gets there.

**Wifi.** `ListInOrderHolds` (`NetSpec => ListInOrder`) holds for every length of the lists and of a piece, and for
any number of scans that are started, end or fail at any moment of a reply. `ListInv` says what was sent before it is
complete: an entry for each place before the cursor (`Listed`), of scans that only get newer and are not
newer than the last. A scan that ends keeps this, since it raises the number of the last scan (`ListedLater`); a piece
appends entries of that scan from the cursor on (`ListedExtended`). Nothing relates the cursor to the
length of the list, which may have become shorter; only a reply that is complete has ended where the list ends.

**Syslog.** `LossBoundedHolds` (`NetSpec => []LossBounded`) holds for any number of messages, logged at any moment,
changes of the server, refused datagrams and losses of the Wi-Fi. It is not inductive: it does not say whose message
the next sent callback frees. The messages are numbered, and the queue holds the last of them
(`Numbered`), so that what has been freed is `1..Freed`. `LogInv` says that
of those in the queue at most the head was sent, and balances the books (`Balanced`): each datagram in the air will free
one message, and if the head was sent one of them is rightly its own. All others, and all messages freed unsent so
far, are accounted for by the datagrams that repeated a message. Logging adds at the end (`Follows`); the task
sends the head for the first time, or repeats it; the sent callback frees a message that was sent or one more that was not.

### Httpd

`Httpd_proofs` proves `OwnedHolds` (`Spec => []Owned`) from `HttpdAssumption` alone: for every pool,
buffer, chunk and sector, every set of files, and whatever the browsers ask for, cut up and break off.
`Owned` counts the open files, and a handler opens one, reads it over many callbacks, and closes
it in two ways: at its end, or when it is called without connection. So the proof is about what
a *call* does. `Handled` says it of each of the three handlers: a call that ends with `MORE` leaves
open what its place then holds, any other leaves nothing open, and without connection it ends
with `DONE`. `ServedAt` says it of what the server does around the call: what is open beside
the file of the place is what it was. Each function of `httpd.c` has a lemma saying that it
does this, and `PiecesReceived` carries it through a packet of any number of units.

`HttpdInv` adds to `Owned` that a file is not read beyond its end, which is why the handler's
last read is its last, and `Heard`: while a header is still to come there is no handler. It is
needed because parsing a header replaces the URL, and with it the file that is being sent; that a
second header is never parsed at a place in use follows from the order of a request's units.

`RightAnswersHolds` (`Spec => []RightAnswers`) and `UploadIntactHolds` (`Spec => UploadIntact`) are about
what the handlers do. The invariant `AnswerInv` says how far each request is:
`Fresh`, `Collecting` its POST in the buffer, `Storing` an upload buffer by buffer, `Asking` the
MCU, `Sending` a file of which so many chunks went out, or `Over`. Each event leads from one
of these to another; within one packet several may be passed, which `GoesOn` and an induction over
the packet's units account for (`PiecesGoOn`). Of an upload, `Stored` says that all that came before
the buffer is in its place *and that the rest of the sector reached is erased*: only so does a write leave
what is sent. Erasing at the first byte of a sector is enough because buffers fill whole sectors
and because one upload arrives at a time (`OneUpload`, which the environment of the model
keeps).

The hypothesis `ShortPosts` excludes a POST to a *file* that is longer than the buffer. It is needed:
`httpd.c` calls the handler for every full buffer, `cgiEspFsHook` takes each call for the request
of another chunk, and the second sends before the first is confirmed. The pages of the firmware post to its routines only.
`Bounded` (there is a longest request) is for the theorem about uploads, whose bound, `FIRMWARE_SIZE`, is
the maximum over all.

### Induction

The library's induction theorems have the formula as a parameter and cannot be used here.
For one formula at a time induction works all the same: let `T` be the set of numbers for
which it holds; `0 \in T` and `n + 1 \in T` for every `n \in T` make `T` all of `Nat`, because a set
of naturals that is not empty has a smallest member (`Induction` in `SequenceLemmas`). The
telnet machine of a packet, flattened sequences, the folds of `Cmd` and the units of a packet
in `Httpd` are dealt with so.

### Only model-checked

Out of the prover's reach is liveness (`Delivered`, `SyncSettles`,
`Unstuck`, `Resyncs`, `Served`, `CalledOnce`, `Rescue`, `ScanEnds`, `QueueDrains`), which stays with TLC.

## 5. Plan

Done: all components of section 2, and the theorems of section 4. Next, in this order:

1. The composition of the two programmers over the shared `programmingCB`,
   `optibootData` and `errMessage`: a request to one in the session of the other.
2. The composition of `Cmd` with `SerBridge` as the MCU's path to `MqttClient`, which shares
   the flag that blocks it with `Optiboot`.

## 6. Not modelled

Presentation and static tables (`cgi.c`, `cgimeta.c`, `log.c`, `console.c`, `serled.c`,
`hash.c`, and of `cgiservices.c` and `cgimqtt.c` all but what a change of settings does),
coding (`mqtt_msg.c`, `base64.c`), the read-only file system (`espfs`) behind `cgiEspFsHook`,
captive DNS, build tools (`espfs/mkespfsimage`), the web front end (`html`), code that
nothing calls (`meta-id/attic`, `configWipe`, `httpd/multipart.c`), and the SDK itself
(`include`), except as the environment of the models.
