# Verification of channellib

channellib moves messages between an application and the outside world. Each
*channel* (a TCP server, a TCP client, a UDP socket, a serial port, a callback) runs
one thread around one epoll set and talks to the application through four message
queues; a *pool* owns the channels. This directory holds TLA+ models of those
threads, of the protocol two of them speak, and of who keeps whom alive; the TLC runs
that check them on small instances; and the theorems TLAPS proves about them.

Source paths below are relative to the repository's `src/`.

## The system

| Part | State | Operations | Modelled in |
|---|---|---|---|
| `BasicChannel` (`basicchannel.cpp`) | `exit`, `busy`, `epollFD`, `clientfd`, counters, four queues | `init`, `do_message_loop`, `send_packet`, `recv_packet`, destructor | `ClientChannel`, `DeviceChannel`, each with its subclasses; `ChannelLifecycle` |
| `TcpServerSocket` (`tcpserver.cpp`) | `listfd`, `peers` (descriptor to `TcpPeerSocket`), per peer `packToSend`, `recvPacket`, `rcvState`, `bytesSent`, `seqnum` | `thread_run`, its own `do_message_loop` | `TcpServer`, abstractly `PeerRegistry` |
| `ProtoServerSocket` (`protoserver.cpp`) | the same, peers frame their data with a length | `recv_packet`, `send_packet` of the peer | `TcpServer` with `Framed = TRUE`; to the byte, `ProtoFraming` |
| `TcpClientSocket` (`tcpclient.cpp`) | one connection, reconnects for ever | `thread_run`, `clear_and_close`, destructor | `ClientChannel`, kind `"tcp"` |
| `ProtoClientSocket` (`protoclient.cpp`) | *static* `bytesSent`, `bytesRecvd`, `packLen`; `zipflag` | `recv_packet`, `send_packet` | `ClientChannel`, kind `"proto"`; to the byte, `ProtoFraming` |
| `UdpClientSocket` (`udpclient.cpp`) | receive socket, a send socket per packet, *static* `bytesSent` | thread, `send_packet`, `recv_packet` | `DeviceChannel`, kind `"udp"` |
| `COMPort` (`uart.cpp`) | device descriptor, *static* `bytesSent` | thread, `send_packet` with `com_write_chunk`, `recv_packet` | `DeviceChannel`, kind `"com"` |
| `VirtualChannel` (`virtualchannel.cpp`) | `callback` | thread, its own `do_message_loop` | `DeviceChannel`, kind `"virtual"` |
| `ChanPool` (`chanpool.cpp`) | `allChan`, weak reference to itself | `init`, one `init_*` per kind, `channel_by_alias` | `ChannelLifecycle` |
| `MessageQueue` (submodule, not in the repository) | started or stopped, items | push, pop, `stop_and_clear`, readable descriptor | `MessageQueue` (external) |
| `MessageBuffer` | descriptor, length, type, data | constructors, `Clone` | type and length of a message |
| `TcpBase`, `MxmlConf`, `config.h`, logger | socket options, configuration, text | | not modelled |

Interactions. The application pushes packets on `outQueue` and commands on
`outCmdQueue`; the channel's thread pops them when epoll says they are readable,
pushes what it receives on `inQueue` and the OPEN and CLOSE announcements on
`inCmdQueue`. Besides the queues, threads share `exit` and `busy`, the `callback` of a
virtual channel, the static counters of framed clients, of UDP sockets and of serial
ports, and the reference count of the pool. A channel is destroyed by whichever thread drops the
last reference to it.

What is hard here: one thread serves several clients with a *single* wait on
`outQueue`; a packet that does not fit a socket is finished later, between events of
other clients; descriptors are reused; announcements are read late; connections end
at any moment; `busy` is set by the thread and cleared by the destructor; counters
are shared between channels that know nothing of each other; threads own the object
that owns them. `PROJECT.json` lists each hazard at its line.

What makes each part correct:

- server: output never stops for good; a client receives whole packets, in order, and
  only its own; what a client sends arrives without a gap; the application's view of
  who is connected converges to the map; `exit` ends the thread;
- client: the same for one connection after another, and destruction ends;
- framing: however sends and receives are cut, packets arrive whole and in order, the
  ends agree on where headers begin, and never wait for each other for ever;
- device channels: OPEN means that packets are served; packets leave the queue, whole
  and in order; destruction ends;
- lifecycle: no thread serves a channel that is being destroyed, nothing is freed
  under a running thread, shutting down ends.

## Modules

- `MessageQueue`: operators on a queue record. A queue is built stopped, a push with
  `forceStart` starts it, a push to a stopped queue is lost, `stop_and_clear` stops it.
  This is what `basicchannel.h:18` and the uses of the class suppose; the submodule's
  source is not in the repository, so the operators are marked external.
- `PeerRegistry`: the abstract specification of a server: a map from descriptors to
  connections, a feed of announcements, the application's view.
- `TcpServer`: one pass of `do_message_loop` per action (the thread takes one event per
  `epoll_wait(..., 1, 10)` and no other thread touches `peers`, so a pass is atomic for
  everyone but the kernel, whose part in it is one choice: how much room or data there
  is). `AcceptPeer`/`RefusePeer` are the branch of `listfd`, `TakeOutQueue` that of
  `outQueue`, `TakeCommand` that of `outCmdQueue`, `PeerEvent` that of a client,
  `LeaveLoop`, `ClosePeer`, `LoopDone` the code after the loop. `outQueueWatched` is the
  presence of `outQueue` in the epoll set; `peers[fd].epollOut` the wait mask of a
  client. The `Registry` instance at the end is the refinement mapping.
- `ClientChannel`: any number of client channels, their threads and their owners.
  `thread_run` is `StartConnect` .. `Cleanup`; the events of
  `BasicChannel::do_message_loop` are one action each; `~TcpClientSocket` and
  `~BasicChannel` are `DestroyBegins`, `ClearAndClose`, `StopWaiting`, `LastFlags`,
  `Join`. `Counter(ch)` is the channel's own counter or the shared one.
- `DeviceChannel`: the same for the three channels without a connection. The branches of
  the loop are those of `ClientChannel`; what differs between the kinds is
  `send_packet`, what `recv_packet` does at the end of the data, and where `busy` is
  set: by every pass (`OpenSocket`), or once (`Start`). `send_packet` of a port or a UDP
  channel is one action from one access to `static bytesSent` to the next: `BeginSend`
  (which sets it to 0) and `ContinueSend` enter it; a turn of its `do` loop is
  `BeginTurn`, which reads where to send from into `chan.at` (offset and length at
  once), `DatagramSent`, `WriteChunk` or `WriteTimesOut`, which add what was sent, and
  `AnotherTurn`, the test of the `while`; `SendWaits` (EAGAIN) and `NoSendSocket` leave
  the loop, and `ReturnLeft` reads the counter once more and is what the message loop
  does with the result; `SendFails` is the `return -1`. A port stays inside until all is
  written or it fails. `static` holds the counter and the other channels of the kind,
  `Siblings`, each in its own `send_packet` (`OtherStarts`, `OtherSends`, `OtherFails`);
  a store may be lost between the load and the store of another thread (`Count`).
  `HandlePacket` is the callback. `PoolGoes` and `PoolLost` are a virtual channel whose
  pool is gone while the application holds it: the loop returns without a CLOSE and is
  entered again. The other two hold the pool as long as they run; how their threads
  start without one is `ChannelLifecycle`'s.
- `MessageLink`: the abstract specification of the framed protocol over one
  connection: packets taken by one end, packets delivered at the other.
- `ProtoFraming`: both ends' `send_packet` and `recv_packet` with the four header bytes,
  the zipped bit, the partial sends and receives, the 1 MB limit, and reconnection.
  A call of either method is one action; the kernel chooses how many bytes it gets.
- `ChannelLifecycle`: the pool, the shared and weak pointers, the threads' locks on the
  pool, and every destructor in the thread that runs it. What a thread does while it
  serves is left out.
- `TcpServerProofs`, `PeerRegistryProofs`, `MessageQueueProofs`, `ClientChannelProofs`,
  `ClientStreamProofs`, `DeviceChannelProofs`, `ProtoFramingProofs`,
  `ChannelLifecycleProofs`: proofs.
- `MCTcpServer`, `MCClientChannel`: the symmetry sets TLC needs beside the cfg.

Abstractions. In `TcpServer`, `ClientChannel` and `DeviceChannel` data is counted in
units: a packet is `PacketLen` units, a send buffer `SndBuf`, an incoming framed message
`MsgLen`; the length header is part of the message (`ProtoFraming` has the bytes). A
packet is known by its number. Two steps in a row of a `BasicChannel` loop stand for a
pass that finds the socket readable and writable. A call that fails because the client
is gone may fail at any of the calls that touch its socket. Calls that fail for lack
of resources (fcntl, socket options, epoll_ctl) are left out, except accept, which may
fail with a connection waiting and makes the server leave its loop and start again,
the send socket of a UDP channel, and the epoll descriptor of `init` (a channel without
a thread). What `recv_packet` of a device had read before the call failed (`RecvFails`)
counts as never delivered. `exit` of the server is a public field set by its owner
(`RequestExit`).

## Runs

Every bound is a constant of the module. Deadlock is not checked: every system here
may stop (a thread ends, the bounded requests are used up).

Two units per packet and a buffer of one make every packet unfinished at first, and so
meet with two requests what takes three with a larger buffer. `server_shared` has a
buffer of two and three packets, so that packets go out whole, in part and not at all,
and a packet that replaces an unfinished one may go out whole; its clients drop at any
moment, the CLOSE command is in `server_single`. `MaxIn` and `MaxFeed`
bound how far the application may fall behind (guards that the code does not have:
its queues grow without limit); with a `MaxFeed` of 1 a pass begins when the announcements
of the pass before have been read, and ends whether or not they are.

| Run | Instance | Shows |
|---|---|---|
| `server_shared` | framed, `MaxPeers` 2, 2 descriptors, 2 connections, 3 packets, a buffer of 2, messages of 2 units | types; output not stuck; packets in order and never twice; view converges; reception gapless. The connections may overlap or follow each other on one descriptor |
| `server_single` | framed, `MaxPeers` 1, 2 descriptors, 2 connections, 2 requests of all kinds, one unit (half a message) received on each connection, fair | packets whole, no send continued without a packet; the steps refine `PeerRegistry`; packets leave `outQueue`, although what a client sends is served before the room it has; exit disconnects all. Two descriptors for one peer make `MaxPeers` the limit, not the descriptors |
| `client_life` | 1 channel, raw or framed, 2 connections, 2 requests, messages of 2 units, fair | types; output not stuck; packets whole; reception gapless; view converges; packets leave `outQueue`; destruction ends |
| `framing` | packets of 0, 2 and 4 bytes, limit 3, a wire of 5 bytes, 2 packets, 2 connections, fair | the two ends implement `MessageLink`; they refuse only what is too long; neither waits for ever. A wire of 5 bytes cuts the header and the body of every packet that has one |
| `device_life` | each kind, a UDP channel with another one or alone, 2 requests, 2 units or datagrams received, the other channel's packets of one unit and two stores of its own, the pool gone at any moment, fair | types; view converges while the pool is there; output stuck only by a self-closed socket; packets in order, and whole when alone; reception gapless; destruction ends; packets leave `outQueue`. Two stores are a packet begun and sent, which may meet every point of a `send_packet` of this channel |
| `lifecycle` | 3 channels of any kinds, fair | types; threads serve live channels; nothing freed under a thread or while referenced; shutdown ends. Three make two virtual channels that lock the pool in turns, beside another kind |
| `server_overwritten`, `server_reused_fd`, `client_shared_recvd`, `device_reopen`, `device_stuck`, `device_shared` | as small as the violation allows | the findings below |

Serial ports with others beside them are in `device_shared`, whose property they break,
and in the theorems; a complete run of them with the liveness properties is too large.

`PROJECT.json` gives for each property of a passing run a mutation of the model, the
way a mistake in that code would look, that breaks it. The mutated operators stand in
the modules under a comment that starts with "Mutation:".

Fairness. Each event source is weakly fair by itself: the kernel moves a reported
descriptor to the end of epoll's ready list, and the loop asks for one event at a
time, so a source that stays ready is served; the 10 ms timeout only makes the loop
look at `exit` or `busy`. connect and select end within 10 seconds. The remote ends keep
reading what they are sent, and nothing is supposed of whether they stay. The server
serves EPOLLOUT of a client only in an event without EPOLLIN (`tcpserver.cpp:282`), so a
client that never stops sending stops its own packet, and with it `outQueue`, for ever:
`OutQueueServed` of the server supposes `ClientsFallSilent`. In the same way another
channel that begins packet after packet can reset the static counter while a
`send_packet` goes round: `DestroyJoins` and `OutQueueServed` of `DeviceChannel` suppose
`OthersRest`. The bounds `MaxRx` and `MaxStores` make both true of every behaviour of the
runs; the properties say what they rest on without the bounds. The server's
application reads its announcements (only `ExitDisconnectsAll` and `QuietConverges`
need it), and so does that of a device channel, because `MaxFeed` would otherwise stop
the thread. Requests, `RequestExit` and `DestroyBegins` are never forced; a destructor
that has begun goes on.

Three actions are strongly fair. `WriteChunk`: a port that drains has room again and again,
and select followed by write does not answer EAGAIN for ever (`uart.cpp:58` retries
without a limit, so this is needed). `DatagramSent`: the network does not answer EAGAIN to
every datagram. `VirtualEnds`: a virtual channel's thread tests
`exit` between two turns each time round, so what is enabled again and again is taken.

## Findings

All contradict what a comment in the code says; `PROJECT.json` quotes it.

1. `server_overwritten`: `outQueue` is watched again as soon as *any* client is dropped
   or finishes; the next packet for a client with an unfinished one replaces it
   (`tcpserver.cpp:176`) and that client receives part of a packet followed by another.
   When the replacing packet is sent whole, EPOLLOUT stays armed with no packet, and the
   next event continues a null one (`tcpserver.cpp:285`).
2. `server_reused_fd`: a packet for a client that has left reaches its successor on
   the same descriptor (`tcpserver.cpp:170`).
3. `client_shared_recvd`: static counters of `ProtoClientSocket` shared by the threads of
   all channels of the kind (`protoclient.cpp:14`; the counter of sent bytes,
   `protoclient.cpp:73`, is shared in the same way).
4. `device_reopen`: after CLOSE a virtual channel or a serial port announces OPEN and
   CLOSE again and again and serves nothing: `busy` is set only once
   (`virtualchannel.cpp:77`, `uart.cpp:19`).
5. `device_stuck`: a UDP channel whose send socket cannot be opened closes its receive
   socket instead (`udpclient.cpp:79`) and neither sends nor receives until CLOSE.
6. `device_shared`: `bytesSent` of `COMPort::send_packet` is one for all ports
   (`uart.cpp:47`). Another port that begins or writes a packet while this one waits in
   select moves the place where this one goes on, and the loop turns to the next
   packet when part of the one before was never written, or was written twice. UDP
   channels share theirs (`udpclient.cpp:67`); there an EAGAIN between two calls is
   enough.

With one client (`MaxPeers = 1`) 1 cannot happen, which is what `server_single` checks;
the default of the code is 4.

## Proofs

The theorems hold for every set of descriptors, connections and channels the
assumptions admit, and every value of the bounds, under `ServerAssumption`,
`NoneAssumption`, `RegistryAssumption`, `ClientAssumption`, `DeviceAssumption`,
`FramingAssumption`, `LifecycleAssumption`.

- `TcpServerProofs!ServerTypes`: `Spec => []TypeOK`. Types alone are not inductive: that
  a counter stays in its range needs to know that the units sent never exceed the room
  and the packet, and that `bytesRecvd` and `rxRead` are bounded by what was sent.
  `TInv` adds this (`RecvBounded`), and each action has a lemma.
- `TcpServerProofs!OutputNotStuck`: `Spec => []OutQueueNotStuck`. Given the types the
  property is inductive: each action that stops watching `outQueue` arms EPOLLOUT for the
  client whose packet it keeps, and each action that drops that client, ends its packet
  or disarms it watches `outQueue` again.
- `TcpServerProofs!ServerRefinesRegistry`: `Spec => RefinesRegistry`. Initial states map to
  initial states; accepting is `Open` (the sizes of the two maps agree), every way to
  drop a client is `Close`, reading an announcement is `Learn`, all else stutters.
- `TcpServerProofs!ServerReceivedGapless`: `Spec => []ReceivedGapless`. Two descriptors
  never share a connection, a live peer's connection is open, and nothing has passed
  over a connection not yet accepted (`ConnInv`); given that, the property becomes
  inductive with `Numbered`: the peer's `seqnum` is one more than that of the last of its
  messages that waits in `inQueue`. The property compares neighbours among the messages of one
  connection (`Adjacent`), so that no sequence has to be filtered.
- `TcpServerProofs!ServerSentInOrder`: `Spec => []SentInOrder`. `OrderInv` says that `outQueue`
  is in the order of the requests, that the whole of it comes after what any wire
  carried, and that an unfinished packet is the last on its wire, or comes after it
  and before the queue. It holds in spite of finding 1: a packet displaced half sent
  is never taken up again.
- `TcpServerProofs!OnePeerSendsWhole` and `OnePeerContinuesAPacket`, under `MaxPeers = 1`, the
  condition finding 1 makes necessary. `WholeInv`: at most one descriptor is live, while
  EPOLLOUT is armed its packet is the open last one on the wire, of which `bytesSent`
  units are sent, and `outQueue` is not watched.
- `PeerRegistryProofs!RegistryConverges`: the abstract feed always brings the view to the
  map; the invariant needs nothing but the registry's types.
- `TcpServerProofs!ServerViewConverges`: by refinement, the same of the server.
- `ClientChannelProofs!ClientTypes`, `ClientOutQueueNotStuck`, `ClientViewConverges`: for any
  number of channels of both kinds. The types need `LocalInv` beside them: a socket is
  numbered while the channel is connected, EPOLLOUT is armed only with a packet in
  hand, and the feed of announcements is started while the loop runs.
- `ClientStreamProofs!ClientPacketsSentWhole` and `ClientReceivedGapless`:
  `Spec /\ OneFramed => [](...)`, where `OneFramed` says that the pool has at most one
  framed client. Finding 3 shows that the condition is needed: with two, the static
  counters are shared. The invariant `StreamInv` says of every channel that the wire
  holds whole packets but for an open last one, of which the counter tells the units
  sent (`WireWhole`); that the packets in hand and in `outQueue` come after it in order
  (`Queued`); and that the messages in `inQueue` follow what the application has and end
  where the partial message begins (`Stream`).
- `DeviceChannelProofs!DeviceViewConverges` and `DeviceOutQueueNotStuck`: for any number
  of other channels, of which nothing is supposed; the first while the pool is there,
  since without it OPEN is announced again and again. The inductive invariant
  `DeviceInv` adds to the types (`ChanOK`, `StaticOK` and the like) that a loop that waits
  for room, or is inside `send_packet`, holds a packet (`SendState`), and that the feed of
  announcements is started while a pass is under way (`FeedStarted`), so that the
  CLOSE pushed without `forceStart` is not lost.
- `DeviceChannelProofs!DeviceReceivedGapless`: `ReceiveInv` adds the ranges of the counters
  (`Counted`); pushing a packet, pushing a null packet and taking the first one each have
  a lemma about sequences (`PushCovers`, `PushNullCovers`, `TailCovers`).
- `DeviceChannelProofs!DeviceSentWholeInOrder`: the property does not say what is in hand, so
  `StreamInv` does, in two parts. `SendOrder` holds whatever other channels do to
  `bytesSent`: the packet in hand is not before the last on the wire, and those of
  `outQueue` come after it. `SendExact` needs `Alone`: a loop that may take a packet has
  sent whole ones only, and a pending packet is on the wire as far as `bytesSent` tells
  (a datagram not at all). Finding 6 shows that the condition is needed. `DeviceTypes`
  follows from the three invariants.
- `ProtoFramingProofs!FramingImplementsLink`, `FramingRefusesOnlyTooLong`, `FramingTypes`: for
  packets of any length below 2^31, any limit and any room on the wire. The invariant
  `ProtoInv` says of each direction whose receiver has not left (`Flight`) that what the
  receiver holds of a packet and what is on the wire are together the bytes of the
  packets not yet delivered, in order, each at its place, with its mark or without, and
  that they end where the sender's `bytesSent` says. That the receiver finds the next
  header there needs the arithmetic of the four bytes (`HeaderRoundTrip`): they give back
  the length and the mark.
- `ChannelLifecycleProofs`: `ThreadsServeLiveChannels`, `ChannelsFreedAfterThreads`,
  `ChannelsDestroyedUnreferenced`, from an invariant that ties each reference to the pool
  to a thread that holds it, and each destructor to a thread that runs it.

Each invariant and each step property a passing run checks is stated by a theorem; for
`PacketsSentWhole` and `ContinuesAPacket` of the server and the two streams of the
clients, under the condition named above. Only model-checked: the liveness properties
(`DestroyJoins`, `OutQueueServed`, `ExitDisconnectsAll`, `QuietConverges`,
`DeliveredOrLeft`, `ShutdownCompletes`), because the prover does not
handle fairness; and the violations, which are traces.

## Not modelled

- `config_com` (termios), `TcpBase` (socket options), `MxmlConf` and `config.h` (a parser
  that runs once), the logger, the test programs and the build: no state or
  interaction to model-check. That is a good third of the lines.
- What is undefined in the code and has no set of outcomes: `chanMut` locked before it is
  initialised (`basicchannel.cpp:35`); members of a server or a device freed before
  `~BasicChannel` joins the thread that uses them; a `std::function` assigned while it is
  called. `ChannelLifecycle` stops where a thread enters an object under destruction.
- The peer address that `recvfrom` overwrites: no document says what the address is for.
  A descriptor closed twice (`udpclient.cpp:43`): it would need all descriptors of the
  process.
- `MessageQueue`: its source is not in the repository.

## What is left

A statement about the server with several clients that holds in spite of finding 1: a
packet nobody displaces is sent whole. The same about a channel in spite of finding 6:
a packet during which no other channel of the kind sends is sent whole.
