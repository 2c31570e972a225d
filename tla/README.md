# A TLA+ verification of vh1981_library

`vh1981_library` is a collection of programs by one author. The parts with state
and concurrency of their own are an FFmpeg/SDL video player
(`src/ffmpeg/examples/screenout`), an RTSP/RTP streaming server
(`src/portfolio/rtsp_rtp_simple_example`), the small C++ library both use
(`src/library/basic`), the RTP library the server streams through, kept in the
repository as source (`src/library/jrtplib`), and a motion detector
(`src/portfolio/ffmpeg_motion_detect`, with an older copy in
`src/portfolio/cpp`). This directory holds TLA+ modules translated from that
code, TLC configurations that check them on small instances, and proofs of the
main safety properties for every instance.

## 1. Inventory

### Player (`src/ffmpeg/examples/screenout`)

Four threads share three queues.

| thread | code | produces | consumes |
|---|---|---|---|
| main | `Player::play`, `displayVideo` | the other threads, the picture on the screen | `_vpq` |
| player | `playerThread`, `decode_packet`, `decode_audio` | `_videoPacketList`, `_audioStreamQueue`, the quit request | the file |
| video | `videoThread`, `decode_video` | `_vpq` | `_videoPacketList` |
| audio (SDL's) | `audio_callback`, `audioCallback` | the bytes of the device | `_audioStreamQueue` |

* **StreamQueue**: a byte ring, `_front` and `_rear`, no lock. `put` and `get`
  either move the whole request or refuse; both callers retry for ever. Hard:
  every test and every copy length comes from a cursor the other thread moves.
  Correct when no two copies overlap, bytes come out once, complete and in
  order, and the two retry loops cannot block each other.
* **VideoPictureQueue**: a ring of pictures, `_rIndex`, `_wIndex`, `_size` under
  a mutex that is held inside one call only. The slot itself is filled and shown
  after the lock is released, and tests and acts fall in different critical
  sections. Correct when no picture is torn, skipped or repeated and no pointer
  is null.
* **Player**: `_videoPacketList` (a `std::list` with no lock), `_quit`, the wait
  at the end of the stream. Hard: two threads change the list's chain and its
  element count in separate steps, and may lose each other's updates; quit must
  come neither too early (packets or audio left) nor never.
* `SDLDisplay`, `main.cpp`, `PlayerListener`: calls into SDL from one thread.

### Library (`src/library/basic`)

* **exthread**: `_id`, `_status`, `_tid`; `run`, `quit`, `join` on the owner,
  start-up and clean-up on the new thread, no lock. Hard: a `quit` may meet the
  thread at any point of its life, `pthread_create` may fail. Correct when a
  request to quit reaches a thread that can still honour it, `join` then
  returns, and what the object says of its thread (`_tid`, `isAlive()`) is of
  the one that lives.
* **exmutex** (recursive mutex and guard), **singleton** (lazy, main thread
  only), **timeUtils** (32-bit millisecond tick and wrap-aware difference),
  **exstring**, **exlog**, **extools**: no protocol of their own.

### RTSP server (`src/portfolio/rtsp_rtp_simple_example`)

* **RTSPServerTest.cpp**: an accept loop that starts one thread per client and a
  handler loop (`select` with a timeout, `recv`, dispatch, streaming through
  jrtplib). Hard: the client's socket is handed over through a shared variable;
  the receive buffer outlives a timeout; results are used before they are set.
* **CRtspSession**: `m_RtspCmdType`, `_cseq`, `m_ClientRTPPort`,
  `m_TcpTransport`, `m_StreamID`; OPTIONS, DESCRIBE, SETUP, PLAY, TEARDOWN.
  Correct when each request is answered once, with its own number, and audio is
  sent only to a port the client has named.
* **CStreamer**: the pair of server ports, the RTP sequence number and time
  stamp. Correct when a session owns one pair and closes what it opened.
* **Mule, Session, RTSPTestServer, Packet**: an I/O thread that walks a list of
  sessions, accepts, receives and queues packets; the list is unlocked, the
  packet queue of each session is locked.

### RTP library (`src/library/jrtplib/src`)

The server's sessions send audio through `RTPSession`. The library is built
without threads (`RTP_SUPPORT_THREAD` is not defined in its `rtpconfig.h`), so
each call of the application is one step of the library; what is hard is the
network and the order of the calls.

* **One source** (`RTPSourceStats`, `RTPInternalSourceData`): the highest
  sequence number, the count of wraps, probation, the list of packets. Hard:
  packets are lost, repeated and reordered around the wrap of 16 bits. Correct
  when each packet gets its number, the list stays sorted and bounded, and
  probation accepts after its run of packets.
* **Source table** (`RTPSources`): the entries, their addresses, the session's
  own entry, and counts of members, senders and active members changed at a dozen places.
  Hard: packets of many participants, some with the same SSRC, BYEs and timeouts
  in any order. Correct when the counts match the table, the own entry is
  safe, addresses stay bound and live sources stay.
* **UDP/IPv4 transmitter** (`RTPUDPv4Transmitter`): destinations, multicast
  groups, the filter by sender, the received packets, one or two sockets of its
  own or the application's. Hard: a join that fails half-way, a list whose
  meaning is reversed by one entry, a second life after `Destroy`.
* **RTCP packet builder** (`RTCPPacketBuilder`): which sources were reported on,
  which SDES items have gone out, and where the next packet continues. Correct
  when no item is sent twice in a round and no live source waits without bound.
* **Session, scheduler and collision list** (`RTPSession`, `RTCPScheduler`,
  `RTPCollisionList`): creation in a dozen stages that may each fail, the queue
  of BYE packets, the timer's mode, own collisions. Correct when a failed
  creation leaves nothing, every SSRC that was used and given up has one BYE that
  is lost only if its send fails, and a packet that comes back does not change the
  SSRC again.
* **Packets, addresses, other transmitters**: byte layouts, value classes, and
  transmitters (IPv6, TCP, external, fake, secure) no program here uses.

### Motion detection (`src/portfolio/ffmpeg_motion_detect`)

* **MotionSearch**: block averages, a comparison with a reference picture, a
  flood fill for connected blocks, one report per second; sequential.
* **MotionZone**: the bitmap of watched blocks.

### The rest

`src/python/coding_practice` (an LRU cache, a spiral array, ...) and the C++
samples are short sequential exercises. `src/python/{keras,tensorflow,kaggle,numpy,pandas,pyplot}` are
machine-learning scripts, notebooks and data. They are not modelled.

`PROJECT.json` lists every component with its state of modelling, and under
`hazards` every place known to be hard to test, with the property that covers it
or the reason why none does.

## 2. The modules

```
 Fifo                     what a bounded queue promises
  ^ implemented by
  +-- StreamQueue         one byte ring, two threads, no lock
  |     MCStreamQueue     the refinement mapping
  |     StreamQueueProofs
  +-- VideoPictureQueue   one picture ring, two threads, a lock per call
        MCVideoPictureQueue
        VideoPictureQueueProofs
 AvPlayer                 the four threads; both rings as FIFOs, the list unlocked
   AvPlayerProofs
 PacketList               the same std::list, each store to a link a step
 ExThread                 the thread class
   ExThreadProofs
 RtspSession              one RTSP client, its handler thread, the ports
   RtspSessionProofs
 RtpSource                jrtplib: the packets of one source
 RtpSources               jrtplib: the table of sources
   MCRtpSources
   RtpSourcesProofs       about RtpSources and RtpSource
 RtcpReports              jrtplib: the RTCP packets built
   MCRtcpReports
 RtpSession               jrtplib: session, scheduler, BYEs, collisions
   RtpSessionProofs       about RtpSession and RtcpReports
 RtpUdpTransmitter        jrtplib: sockets, groups, filter
   RtpUdpTransmitterProofs
```

The two modules of proofs about jrtplib extend two modules each. Where both have
a definition of one name, that of `RtpSource` begins with `Source`
(`SourceTypeOK`, `SourceNext`, ...) and that of `RtcpReports` with `Reports`.

**Fifo** has three variables: the items in the queue, the number that entered,
and the sequence that left. Items enter and leave in chunks, in order, never
above `Capacity`.

**StreamQueue** keeps the names of `StreamQueue.cpp` (`front`, `rear`, `buf`)
and adds a place, a request and a remainder for each of the two threads. One
action is one load of the other thread's cursor, one `memcpy`, or one store:
`PutCompare` and `PutCheck` are the two loads inside `dataSize()`, `PutChunk` the
third load that chooses the length, `PutCopy` the `memcpy`, `PutPublish` the
store to `_rear`; `Get...` likewise. `sent`, `taken` and `delivered` are history.
The k-th byte of the stream is the number k, so order and loss are visible.

**VideoPictureQueue** splits `push` and `pop` into their loads and stores inside
the lock, and `sws_scale` and the texture upload, which run outside it, into a
beginning and an end. `WaitEmpty` and the untested second `GetEmpty` are separate
steps, as are the unlocked `Poll` and `Display`.

**AvPlayer** has one action per step of the four threads that another thread can
see. The two rings are FIFOs here, which is what the two modules above justify.
`_videoPacketList` has no lock: `push_back` is `Hook`, `IncLoad` and `IncStore`,
the test of `size()` is `TestSize`, and `pop_front` is `DecLoad`, `DecStore` and
`Unhook`, in the order of libstdc++'s code, so the chain (`list`) and the element
count (`count`) go apart and updates of the count get lost; `clobbered` remembers
that one was. The wait at the end (`WaitList`) reads the count. Two cases corrupt
the chain itself: a hook and an unhook that meet on a chain of one node
(`Overlap`; they may also miss each other), and `front()` on an empty chain when
the count says that there is a packet. What follows is undefined: `broken` is set
and the behaviour ends, and the properties say what they hold up to there.
**PacketList** goes into the first of these cases, every store to a link a step of its own.

**ExThread** has the owner's calls and the thread's life one load or store at a
time; the thread function and the stop flag are those of `Mule`, the only
subclass that can be asked to quit, which nothing clears again. `pthread_create`
may fail and may then leave `_tid` as it was or with a dead value.

**RtspSession** has one action per stage of a round of the handler's loop:
`Receive`, `ReceiveEnd` or `Timeout`, then `Test`, `Parse`, one of `Answer`,
`Setup` and `NoHandler`, `Result` and `Stream`. A request is a record whose CSeq
is its position among the requests received; `RecvBuf` holds the numbers of the
requests one `recv` returned. What is read before it is set is a choice: `res`,
`RecvBuf` before the first `recv`, the result of `ParseRtspRequest`. The client
(`Send`, `Close`, `Reset`) does as it likes. A response to a client that has reset
the connection may get lost (`Respond`) or raise SIGPIPE (`Sigpipe`), which ends
the server: the handler's place is then `"killed"`.

**RtpSource** numbers the packets of a sender 0, 1, 2, ...; packet i carries the
sequence number `(first + i) % Cycle`, and the network delivers any packet near
the newest, any number of times, `strays` counting those from before a wrap that
an accepted packet has shown. The properties compare the library's numbers
with the positions. `ProcessRTPPacket` is one action whose parts
(`FirstAccepted`, `NextAccepted`, `Store`, `Trim`, `Insert`) follow the code's.

**RtpSources** keeps the whole table in one variable. An operator takes the table
and yields the table after the call, so that a compound packet, which makes
several calls, composes them. Time is `Tick`: what was heard since the last one
is recent, and a timeout removes what is not. `missed` counts the sources that
became active without being counted (`CSRC`) since the last recount.

**RtpUdpTransmitter** has one action per call of the transmitter's interface;
the kernel may refuse any membership. `listed` is the history of what was added
to the filter and not deleted. **RtcpReports** has one action per packet built and
per event that changes what is to be reported; a packet has `Room` for so many
blocks and items. Its counter of rounds is kept modulo `Period`, a multiple of
all intervals.

**RtpSession** has one action per call: `Create`, `CreateFails` (at any stage:
`Before` is what the stages up to it initialised, `CleanUp` what its error path destroys), `SendPacket`,
`ProcessPolledData` (collisions, then the scheduler, then the packet that is
due, sent or not), `PollFails`, `Destroy`, `BYEDestroy`. SSRCs are numbered in
the order they are drawn. History tells the SSRCs something was sent with (`used`),
the BYEs taken from the queue (`taken`), those of them whose send failed and which
are deleted all the same (`refused`), and the SSRCs in use when a BYE of an earlier
one went out (`carried`). The intervals, which depend on bandwidth and sizes, are
a free choice between "it is time" and "wait on".

Every definition that stands for code is tied to its lines in `PROJECT.json`,
`map`. A definition named after a slip (`FreeNoGap`, `PushEnterNoLock`, ...)
precedes the one it perturbs and is used by no specification: replacing the
right one by it must make TLC find the listed property violated.

## 3. What the runs show

| run | instance | result |
|---|---|---|
| `stream_queue` | 6 cells, requests of 1, 3 or 4 and 2 bytes, 16 bytes | copies never overlap or leave the array, bytes arrive in order, `put` and `get` cannot refuse each other for good, the ring implements `Fifo` |
| `picture_queue` | 4 slots, 6 pictures | no torn picture, tests stay true until acted on, every picture shown, `Fifo` implemented |
| `av_player` | 3 packets, 3 pictures, 5 audio bytes | order of packets and pictures while the chain is whole, all pictures shown, quit only after all audio and, if no update of the list's count was lost, all packets; and quit at all when the audio is a whole number of device buffers, on a wrong count too |
| `packet_list` | 2 packets | **violation**: a lost update of the list's count strands a packet |
| `exthread` | 3 runs | a quit that finds the thread alive is not lost and `join` then returns; `_tid` is the handle of the thread alive, and with none left `isAlive()` answers false |
| `rtsp_session` | 3 requests, 2 pairs of server ports | audio only after PLAY and only to named ports, ports told are ports bound, each answer is to the newest request, TEARDOWN ends the session, and so does a client's end, or SIGPIPE ends the server |
| `rtp_source` | 9 packets, 6 sequence numbers | numbers right across wraps until a late packet crosses one, list sorted, probation bounded and exact |
| `rtp_sources` | 2 identifiers, 3 addresses on 2 hosts | counts of members and senders exact, of active members never too high, own entry safe, addresses bound, live sources stay |
| `rtp_sources_active` | the same | **violation**: a contributing source already known becomes active and is not counted |
| `transmitter` | 1 host with 3 ports, 1 group, 1 destination | groups and memberships agree, filter as listed, a second life is fresh |
| `rtcp_reports` | 3 sources, 3 items, room for 2 | each item once per round, a source waits for at most `MaxWait` = 4 packets (the longest wait found is 3) |
| `rtp_session` | 4 SSRCs, 2 addresses, 2 packets per poll | a failed creation holds nothing, one BYE per SSRC used and given up, lost only with its send, timer mode follows the queue, loops change the SSRC once, BYEs leave the queue |

*Bounds.* The rings wrap several times within `MaxBytes` and `MaxFrames`, all
relative positions of the cursors and all ways a request can straddle the end of
the array occur, and sizes are mixed so that acceptance and refusal both
happen; the proofs then cover every size. In `av_player` the audio queue holds
fewer bytes than the file, the picture ring fewer pictures, and odd and even
totals of audio both occur; with three packets the count can be one too low and one
too high, `quit` comes with packets left in the chain, and the chain is corrupted in
both ways. Three requests are the shortest full session (SETUP,
PLAY, TEARDOWN) and all ways in which they arrive together or are handled
again; two pairs of ports let a second SETUP succeed or fail. Methods that
differ only in their text share a representative. Three runs of one `exthread` object cover a run after a join, a failed
creation after a join and a join after a failed creation. Nine packets in a
cycle of six pass the wrap, with arrivals two ahead of and two behind the newest,
less than half a cycle as the code's test needs, and one late packet that
crosses a wrap (`strays`), after which only the numbers are not checked. Two identifiers are the own one
and another's, which may also be swapped by a collision; three addresses are two
ports of one host and another host, what `CheckCollision` tells apart. Three
ports of one host give every list of the filter with and without its entry for
all ports; hosts do not interact. Three sources and three items exceed the room
of a packet in every combination; a room of 2 still lets reports and items share
one. That newcomers overtake a source needs more sources than the room and one
with a mark; there the proof of `WaitBounded`, for any number, takes over. Four SSRCs allow
three collisions, of which two addresses can make two before their entries time
out; a second session and two BYEs waiting behind a refused one occur.

`CHECK_DEADLOCK FALSE` is said for `AvPlayer`, `PacketList`, `RtspSession` and
`RtpSource`: the first two really stop when the file has been played (or, in the
violation, when they hang), the third when the thread has ended and the client
is gone, the last when the sender has sent its packets and nothing near the
newest is left to arrive.

*Fairness.* Weak fairness per thread, which is what the operating system's
scheduler gives; nothing is assumed of the mutex. The owner of an `exthread` is
fair inside its calls only: when it makes them is its own affair. Of an RTSP
session only the handler thread is fair, never the client. `SessionEnds` says in
its premise that the session id is one the server can read back (see below).
For `RtpSession`, `rtpsession.h` asks the application to poll regularly: time
passes, and a poll that succeeds happens again and again. A poll that takes a BYE
is strongly fair: the interval is drawn anew each time it seems to be over, but it is at most
1.5 / 1.21828 of the deterministic one, so the clock passes it in the end.

*Findings.* The violations are disagreements between what the code says of
itself and what it does; `PROJECT.json`, `findings`, quotes both sides. Others
were met while modelling, are part of the models and are stated here only:

* `Player.cpp:489`: besides the lost packet of the finding, an element count left too
  high by a lost decrement makes the video thread call `front()` and `pop_front()` on
  an empty list, which is undefined (`broken` in `AvPlayer`).
* `Player.cpp:513`: the wait at the end of the stream never ends when the audio is not a
  whole number of device buffers (hence the premise of `WholeStreamQuits`); it
  may also end while the last packet, already taken from the list, is being
  decoded.
* `exthread.cpp:74`: `run` returns after a fixed sleep, the thread may not have
  started. `unittest.cpp:100` waits for an id of 0; a finished thread's id is -1.
  `Mule::_stopped` is never cleared: an object run again after a `quit` leaves its
  loop at the first test. A failed `pthread_create` may leave a stale handle in
  `_tid` (`exthread.cpp:66`), which only the next successful `run` replaces.
* `RTSPServerTest.cpp:199`: when `select` times out, the loop goes on to test and
  handle `RecvBuf`, which still holds the last request, and answers it again, once
  for every time-out (`Timeout`, `Test`). No comment or document promises one answer
  per request, so this is not listed as a finding.
* `CRtspSession.cpp:420`: SIGPIPE is not ignored; a client that resets the connection
  while it is answered ends the server (`Sigpipe`).
* `CRtspSession.cpp:161`: UDP asked for after TCP is answered with TCP.
  `CRtspSession.cpp:194`: `stoi` ends the server for half of the session ids it
  hands out. `CRtspSession.cpp:273`: TEARDOWN and PAUSE are announced and never
  answered.
* `rtptransmitter.h:200` says that adding "Adds `addr` to the list of addresses to
  accept."; after adding all ports of a host and deleting one of them, adding
  that one again leaves it excluded (`rtpudpv4transmitter.cpp:1571-1617`).
* `rtpsourcedata.cpp:157`: a packet from before a wrap that arrives after it is
  taken for one far ahead: it is numbered a cycle too high and raises the highest
  number, so that the next packet counts another wrap.
* `rtcppacketbuilder.cpp:238-246`: the comment at 240 speaks of "sources that we
  already got in a previous packet"; the marks have just been cleared, so the
  second pass begins with the sources this same packet reports already, and
  computes a loss of 0/0 over their new, empty interval.
* `rtcppacketbuilder.cpp:361-366`: a source that has just joined, at the end of the
  table, is not marked, and a packet takes all unmarked sources before any marked
  one. As long as enough new ones come, a marked source waits. The bound first stated for
  `WaitBounded` held in the run only because its table is too small for this and
  could not be proved; now `Join` starts the wait of the marked sources anew.
* `rtpsession.cpp:1541`: sending a queued BYE counts as having sent something with the
  new SSRC, so that a BYE may be said for an SSRC nothing was sent with, against
  the comment at 1425 (`carried` in `OneFarewell`).
* `rtpsession.cpp:1531-1537`: a BYE has left the queue when its send fails, and is
  deleted: the participants are never told of that SSRC (`refused`). `BYEDestroy`
  does not look at the result at all.

## 4. What is proved

Eight modules hold proofs, for every value of the constants that satisfies the named
assumptions: `StreamQueueProofs`, `VideoPictureQueueProofs`, `AvPlayerProofs`,
`ExThreadProofs`, `RtspSessionProofs`, `RtpUdpTransmitterProofs`, `RtpSourcesProofs`
(also about `RtpSource`) and `RtpSessionProofs` (also about `RtcpReports`). For each
specification they prove that it implies its inductive invariant (`Inv`,
`SourceInv`, `ReportsInv`) and from it the safety properties of the runs and the
type invariant. That the cursors count the bytes, that pictures are shown complete
and in order, that `SizesFit` excludes a standoff and that a session gives its ports
back are proved and no longer run.

*Fifo.* `StreamQueue` and `VideoPictureQueue` implement `Fifo` (`RefinementTheorem`
in both). Bytes enter the abstract queue with the store to `_rear` and leave it with
the consumer's `memcpy`, although their cells are freed later; a picture enters when
`push` stores `_size` and leaves at the end of the upload, before `pop`. The
abstract queue is a sequence defined over the array, so the work is to show that
each of these two steps appends to it or cuts off its front (`PublishEnters`,
`CopyLeaves`, `PushEnters`, `UploadLeaves`) and that every other step, on which the
indices may move and cells be written, leaves it as it was (`QuietMapping`, from the
contents the invariant fixes).

*StreamQueue.* The properties alone are not inductive: a thread acts on what it read
earlier. `ProducerInv` and `ConsumerInv` say what survives of each reading. The
producer's free space can only grow while it is inside `put`, since only the
consumer moves `_front`, so `premained <= FreeSize` stays true, and a chunk chosen
as ending with the array stays inside it. A comparison remembered by the place
`"le"` (`"gt"` for the consumer) is only ever turned by the other thread in the
direction in which the second load gives too little free space (too little data),
never too much. `Stored` says that the cells between the cursors hold the bytes
`taken, taken + 1, ...`; with it a `memcpy` of the consumer extends `delivered` by
the right bytes and a `memcpy` of the producer, confined to free cells, leaves them
alone. Assumptions: `Size > 1` and positive request sizes. `NoStandoffTheorem` needs
in addition only the definition of `SizesFit`.

*VideoPictureQueue.* `LockInv` ties the lock to the places inside `push` and `pop`;
`IndexInv` relates the two indices through the pictures `Occupied`, counted with
those whose index has moved while `_size` has not; `WriterInv` and `ReaderInv` say
that a slot found empty (a picture found present) stays so, since only the video
thread fills slots and only the main thread empties them. `ContentInv` says what the
occupied slots hold. Assumption: `VpqSize > 0`.

*RtspSession.* The handler keeps RecvBuf, the parsed port, `StreamingStarted` and
the pair of ports from one round to the next, so the invariant ties each to the
requests received: `BufInv` (RecvBuf ends with the newest request or is what a dead
thread left), `ParsedInv`, `StreamInv` (PLAY was received, destinations are ports
that were named) and `PairInv` (before a second SETUP the socket in hand is all that
is bound). Requests are only ever added, which `ReceivedGrows` turns into the
preservation of the first three. `AnswersNewest` is an action property: it follows
from `ParsedInv` before the step. The only assumption is `SessionAssumption`, the
types of the constants. `EndsForCauseTheorem` is the safety side of `SessionEnds`: a
session whose loop is over received a TEARDOWN or lost its client, although RecvBuf
is handled again each second (`CauseInv`; a TEARDOWN in RecvBuf is one that was
received, by `BufInv`). The exception is in the code: before the first `recv` the
uninitialised RecvBuf and `res` may end it.

*AvPlayer.* Order is a matter of counting: `CountInv` and `Order` say where every
packet, picture and byte of audio is, in a queue, in the hands of a thread, or done.
The element count plays no part in that, so lost updates do not disturb it. `ListInv`
ties the count to the chain: until an update is lost it is the number of nodes, less
one hooked and not yet counted or no longer counted and not yet unhooked. After
that only this remains: the video thread finds the count above 0 where it takes one
from it, because only that thread ever lowers it. The
wait at the end tests the list before the audio; `WaitInv` says that the first
answer is still true when the second is given, because only the player thread adds
to either. `NeverStuckTheorem` is the
safety side of `AllShown` and `WholeStreamQuits`: as long as the file is not shown
and played to its end and both threads gone, the guard of some thread's action holds
(`CanGo`), so the threads never wait in a circle over the three queues. Take a
state in which nobody can go on: the picture ring is empty because the main thread
waits, so the video thread waits for packets, the count is 0, the player thread
is past its waits, and `WaitInv` and `CountInv` say that all is done, but for packets
that a lost update has left behind. The audio
callback may still poll for audio that never comes: that is how the wait of
`Player.cpp:513` hangs, not a circle. Assumptions: `PlayerAssumption`, positive
sizes, and `AudioFits` for `NeverStuck` only.

*ExThread.* The owner reads `_status` and `_id` at two moments. `OneAlive` says that
no thread is started while another is not joined, `ThreadInv` ties both variables to
the place of the one alive, and `HeardInv` says that outside `quit` every thread
that had to hear of a request has, or will not loop again. `SeesItsThreadTheorem`: `_tid`
names the thread alive until its join has returned, whatever failed to start, and
when none is alive `ThreadInv` gives that `isAlive()` answers false. Nothing is
claimed of `_stopped`, which the code never clears.

*RtpUdpTransmitter.* `ClosedInv` says what `Destroy` leaves behind, `FilterInv` that
a host without an entry has no flag set. `FreshTheorem` is an action property:
`Create` changes none of what `ClosedInv` says is empty. `TypeCorrect` adds the
variables that play no part in this (`RestTyped`); what `Poll` appends is picked by
a recursive function (`LetThrough`), unrolled as described below. Assumption: port 0
is not a sender's port.

*RtpSources.* The invariant adds to the types, `CountedInv` and `OwnEntry` that a
removed source leaves nothing behind (`AbsentIsNew`). `CountedInv` says what the three
counts are, the active one short of the members by those `missed`. A call is an operator on
tables, so the invariant is stated of a table (`Good`, equivalent to `Inv`), and
each operator has a lemma: the table it yields is good, and it only `Grows` (no
entry goes, no address moves) or, for the calls that remove, `Spares` the live ones
and leaves the rest `Still`. `EntryChange` says how the three counts follow from the
change of one entry. A packet's contributing sources are processed one after the
other; `ProcessCSRCs` is a recursive function, unrolled into a chain of tables whose
existence and preservation are shown by looking at the least index at which they
would fail. `CountsTheorem` follows from `CountedInv`, `OwnEntryTheorem` is a conjunct;
`AddressKeptTheorem` and `HeardStaysTheorem` are action properties that follow from
`Grows` and `Spares`. Assumption: finitely many identifiers.

*RtpSource.* `ListSorted` and `ProbationBounded` are inductive once it is known that
a source is on probation only before its first accepted packet; `InsertLemma` shows
that the search from the end of the list puts a packet at its place, and `FromOrNew`
that it adds nothing else. `ProbationCounts` ties `probation` and `prevseqnr` to the
run of consecutive arrivals (`streak`), which is what `AcceptedAfterRunTheorem`
needs. `NumberedTheorem` needs `CyclesCounted` (the low part of the highest number
is what the newest packet carries, the rest the wraps counted) and arithmetic of
quotients and remainders: that the code's test for half a cycle tells a wrap from a
late packet (`Tells`, `WrappedIs`, `NextCycle`). It has a hypothesis, `NearEnough`:
packets come less than half a cycle ahead of the newest and at most half a cycle
behind. The run's instance satisfies it; no receiver of 16-bit numbers can do
without it, and it is assumed in this theorem only.

*RtpSession.* The invariant adds `ClosedIsQuiet` (a closed session has no BYE
waiting), `StrandedWaits` (a BYE that could not be sent is still queued) and
`UsedWhenSent` (what was sent with is an SSRC drawn, the present one only if the
session knows it sent; what the session knows it sent with is drawn or was
carried over). One poll may find many collisions, each of which draws an
SSRC and queues a BYE: `AfterPackets` is a recursive function over the packets,
again unrolled into a chain, along which `Progress` is kept: what the invariant says
of an open session, and that the SSRCs drawn are counted by the addresses newly
seen. The BYEs taken from the queue and those waiting in it are one increasing
sequence below the SSRC in use, so one whose send was refused is never offered again. `LoopEndsTheorem` is the action property that `Progress` yields at the end
of a poll. Assumption: finitely many addresses.

*RtcpReports.* `ItemsOnce` needs `FlagsTell`: while a round is under way the
processed flags mark exactly the items that have gone out in it, and otherwise none.
Then the items picked next (`Among`, whose order and elements `AmongLemma` gives,
from a chain) are new to the round, and the round ends with all that are due
(`RoundLemma`). Also shown is that no source stays marked that has left the table.
`WaitBoundedTheorem` has the bound `MaxWait`: two passes over the other sources and a
round of items, in packets of `Room`, and one packet more. The argument is an
account: a packet that passes a source over is full (or ends the round of items), so
`Room` times the packets waited is covered by the sources and items that no longer
come before it (`WaitInv`). What still comes before a source: when it is marked, all
unmarked sources; when it is not, the unmarked ones ahead of it in the table
(`AheadOf`) and, while a round of items is under way, the items still to go.
`OrderLemma` and `CutLemma` say that a packet takes the first unmarked sources in the
order of the table, so what it takes comes off this amount. Only a join adds to it,
at the end of the table and so only for the marked sources: the exception
for newcomers. Assumptions: finitely many sources, no item named twice.

In all of them there is one lemma or step per action and under it one step per
conjunct the action can disturb.

*Only model-checked*: liveness, because fairness and `ENABLED` are outside the
prover's reach: `CallsReturn`, `PicturesMove`, `AllShown`, `WholeStreamQuits`,
`QuitThenJoinReturns`, `SessionEnds`, `FarewellsLeave`. Every invariant and action
property of a passing run is proved. `PacketList` and
`rtp_sources_active` have only their violation.

## 5. Abstractions

* The programs are built without optimisation for x86: loads and stores of one
  thread are seen in program order, and a non-void function without `return`
  (`push`, `pop`) just returns something, which its callers ignore.
* Sizes passed to `put` and `get` are positive; codec and converter errors
  (negative lengths) are excluded and listed as hazards.
* A packet or picture is its number; a decoded audio frame is its length.
* Sleeping and polling intervals are steps that may take any time.
* In `AvPlayer` the stores that link or unlink a node of the packet list are one
  step, and the load and the store of the count are steps of their own; a step on a
  node the other thread is still linking or unlinking may damage the chain and
  then ends the behaviour (`broken`). `PacketList` follows the links store by store.
* An RTSP request arrives whole; only its method, transport, client port and the
  presence of a Session header are kept. `send` fails, or raises SIGPIPE, only when
  the client has reset the connection. Ports and descriptors of other sessions are
  the environment's choice.
* jrtplib: memory is never exhausted, jitter and round-trip arithmetic and the
  bytes of a packet are left out, an SSRC drawn is new, the sequence number
  cycle is short. Walking the table (`GotoFirstSource`, ...) changes nothing else.
* An `exthread` is run again only after a join, as all its users do.

## 6. Not modelled, and the plan

Modelled and checked, in this order: `StreamQueue` and `VideoPictureQueue` with
`Fifo`; `AvPlayer` and `PacketList`; `ExThread`; `RtspSession`; jrtplib's
`RtpSource`, `RtpSources`, `RtpUdpTransmitter`, `RtcpReports`, `RtpSession`. All
but `PacketList` have proofs.

Not modelled:

* The accept loop of `RTSPServerTest.cpp`: it hands the address of one variable to
  every thread. `RtspSession` is one of its sessions, and a SIGPIPE raised by another
  session is not in it; the hazards of the loop are listed without a property.
* `Mule`, `Session`, `RTSPTestServer`: no session ever has a valid socket, so the
  I/O thread only waits; its stop flag is in `ExThread`.
* jrtplib's other transmitters: no program here uses them; the IPv6 one repeats
  the IPv4 one. Parsing and building packets: byte layouts. Encryption: calls to a
  library.
* `MotionSearch`: sequential image arithmetic.
* `exstring`, `exlog`, `extools`, `timeUtils`, `singleton`, `SDLDisplay`, the
  Python exercises, the samples: no state that two calls or two threads share.
  Notebooks, training scripts and data: no program logic of this kind.

To do:

1. `RtspServer`: the accept loop and several handlers, ownership of descriptors.
2. The TCP transmitter of jrtplib: packets read in parts from several streams.
