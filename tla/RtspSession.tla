---------------------------- MODULE RtspSession ----------------------------
(***************************************************************************)
(* One client of the RTSP server in src/portfolio/rtsp_rtp_simple_example  *)
(* and the thread that serves it: the receive loop of                      *)
(* SessionThreadHandler_JRTP (RTSPServerTest.cpp), the request handlers of *)
(* CRtspSession and the port search of CStreamer.                          *)
(*                                                                         *)
(* A request is a record, its CSeq is its position in `received`, RecvBuf  *)
(* holds the CSeqs of the requests that one recv() returned: TCP may hand  *)
(* over several at once.  (That it may also cut one in two is left out.)   *)
(* What a request says is chosen when it is received; until then it is     *)
(* only counted.                                                           *)
(* What is read before it is set (res, RecvBuf, the result of a function   *)
(* without a return statement) is a nondeterministic choice.               *)
(***************************************************************************)
EXTENDS Integers, Sequences, SequencesExt

CONSTANTS
    MaxRequests,    \* bound: the requests the client sends
    Methods,        \* the methods it uses besides SETUP
    ClientPorts,    \* the client_port values it may name
    Pairs,          \* the pairs of server ports of the machine
    ParseResults    \* what ParseRtspRequest(), which returns nothing, may give

ASSUME SessionAssumption ==
    /\ MaxRequests \in Nat
    /\ Methods \subseteq {"OPTIONS", "DESCRIBE", "PLAY", "TEARDOWN", "PAUSE",
                          "GET_PARAMETER"}
    /\ ClientPorts \subseteq Nat \ {0} /\ Pairs \subseteq Nat \ {0}
    /\ ParseResults \subseteq BOOLEAN

VARIABLES
    wire, peer,             \* client: requests sent, not received yet; its end
    received,               \* the requests received
    pc, buf, res,           \* handler: place, RecvBuf, the result of recv()
    stop, streaming,        \* Stop, StreamingStarted
    cmd, parsed, cseq,      \* m_RtspCmdType, the parse result, _cseq
    rtpPort, tcp,           \* m_ClientRTPPort, m_TcpTransport
    bound, socket, told,    \* pairs bound, the one in m_RtpSocket, in the answer
    dests,                  \* the destinations added to the jrtplib session
    idFits, named,          \* m_RtspSessionID is below 2^31; the requests sent
                            \* before the client was told it
    answered,               \* history: responses per CSeq: 0, 1 or 2 (many)
    setups                  \* history: SETUPs handled: 0, 1 or 2 (many)

clientVars == <<received, peer>>
loopVars == <<buf, res, stop, streaming, dests>>
parseVars == <<cmd, parsed, cseq, rtpPort, tcp>>
setupVars == <<bound, socket, told, idFits, named, setups>>
vars == <<clientVars, wire, pc, loopVars, parseVars, setupVars, answered>>

Requests ==
    [cmd : Methods, over : {"none"}, port : {0}]
    \cup [cmd : {"SETUP"}, over : {"udp"}, port : ClientPorts]
    \cup [cmd : {"SETUP"}, over : {"tcp"}, port : {0}]

\* RecvBuf before the first recv(): the stack of a thread that ended is used
\* again, with the request that ended it still in the buffer.
Leftover == 0
Request(c) == IF c = Leftover THEN [cmd |-> "TEARDOWN", over |-> "none", port |-> 0]
                              ELSE received[c]

NoPair == 0
Many(n) == IF n = 0 THEN 1 ELSE 2   \* bound: counters stop at 2

Init ==
    /\ wire = 0 /\ peer = "open" /\ received = <<>>
    /\ pc = "select"
    /\ buf \in {<<>>, <<Leftover>>} /\ res \in {"data", "zero"}
    /\ stop = FALSE /\ streaming = FALSE
    /\ cmd = "UNKNOWN" /\ parsed = FALSE /\ cseq = 0 /\ rtpPort = 0 /\ tcp = FALSE
    /\ bound = {} /\ socket = NoPair /\ told = NoPair
    /\ dests = {}
    /\ idFits \in BOOLEAN /\ named = MaxRequests
    /\ answered = [c \in 0 .. MaxRequests |-> 0]
    /\ setups = 0

-----------------------------------------------------------------------------
(* The client.                                                             *)

Send ==
    /\ peer = "open" /\ Len(received) + wire < MaxRequests
    /\ wire' = wire + 1
    /\ UNCHANGED <<clientVars, pc, loopVars, parseVars, setupVars, answered>>

\* It closes its end; what it has sent can still be received ...
Close ==
    /\ peer = "open"
    /\ peer' = "closed"
    /\ UNCHANGED <<received, wire, pc, loopVars, parseVars, setupVars, answered>>

\* ... unless the connection is reset: what has not come by then never comes.
Reset ==
    /\ peer \in {"open", "closed"}
    /\ peer' = "reset" /\ wire' \in 0 .. wire
    /\ UNCHANGED <<received, pc, loopVars, parseVars, setupVars, answered>>

Client == Send \/ Close \/ Reset

-----------------------------------------------------------------------------
(* The loop of the handler: select() and recv().                           *)

\* The first k requests of those on their way, and their numbers.
Take(k) ==
    /\ \E new \in [1 .. k -> Requests] : received' = received \o new
    /\ wire' = wire - k
Numbers(k) == [i \in 1 .. k |-> Len(received) + i]

\* memset(RecvBuf) and recv(): everything that has come, or the first part.
ReceiveNoMemset ==
    /\ pc = "select"
    /\ \E k \in 1 .. wire :
           /\ Take(k)
           /\ buf' = Numbers(k) \o SubSeq(buf, k + 1, Len(buf))
    /\ res' = "data"
    /\ pc' = "test"
    /\ UNCHANGED <<peer, stop, streaming, dests, parseVars, setupVars, answered>>
Receive ==
    /\ pc = "select"
    /\ \E k \in 1 .. wire : Take(k) /\ buf' = Numbers(k)
    /\ res' = "data"
    /\ pc' = "test"
    /\ UNCHANGED <<peer, stop, streaming, dests, parseVars, setupVars, answered>>

\* recv() returns 0, or once -1 after a reset; RecvBuf is cleared all the same.
ReceiveEnd ==
    /\ pc = "select" /\ wire = 0 /\ peer # "open"
    /\ buf' = <<>>
    /\ res' = IF peer = "reset" THEN "error" ELSE "zero"
    /\ peer' = IF peer = "reset" THEN "gone" ELSE peer
    /\ pc' = "test"
    /\ UNCHANGED <<received, wire, stop, streaming, dests, parseVars, setupVars, answered>>

\* The time is over (and stays so: tv is not set again): RecvBuf and res keep
\* what they had.  What is still on its way then is as if not sent yet.
Timeout ==
    /\ pc = "select" /\ wire = 0 /\ peer = "open"
    /\ pc' = "test"
    /\ UNCHANGED <<clientVars, wire, loopVars, parseVars, setupVars, answered>>

\* if (res == 0) Stop = true; then O, D, S, P or T as the first letter.
TestZeroIgnored ==
    /\ pc = "test"
    /\ pc' = IF buf # <<>> /\ Request(buf[1]).cmd # "GET_PARAMETER"
             THEN "parse" ELSE "stream"
    /\ UNCHANGED <<clientVars, wire, loopVars, parseVars, setupVars, answered>>
Test ==
    /\ pc = "test"
    /\ stop' = (stop \/ res = "zero")
    /\ pc' = IF buf # <<>> /\ Request(buf[1]).cmd # "GET_PARAMETER"
             THEN "parse" ELSE "stream"
    /\ UNCHANGED <<clientVars, wire, buf, res, streaming, dests,
                   parseVars, setupVars, answered>>

\* A client that knows its session id names it, printed from an unsigned int
\* and read back with stoi(), which throws if it is not an int; nobody catches
\* that, and the process ends.
SessionRead == idFits \/ \A i \in DOMAIN buf : buf[i] <= named
Abort ==
    /\ pc = "parse" /\ ~SessionRead
    /\ pc' = "aborted"
    /\ UNCHANGED <<clientVars, wire, loopVars, parseVars, setupVars, answered>>

\* The last line that names a client_port counts.
ReadPort ==
    \/ /\ \A i \in DOMAIN buf : Request(buf[i]).port = 0
       /\ UNCHANGED rtpPort
    \/ \E i \in DOMAIN buf :
           /\ Request(buf[i]).port # 0
           /\ \A j \in i + 1 .. Len(buf) : Request(buf[j]).port = 0
           /\ rtpPort' = Request(buf[i]).port

\* ParseRtspRequest(): the directive is that of the first line, but all lines
\* are read for headers.  A line that names a client_port is not looked at for
\* its transport.
Parse ==
    /\ pc = "parse" /\ SessionRead
    /\ LET known == {"OPTIONS", "DESCRIBE", "SETUP", "PLAY", "TEARDOWN"}
           first == Request(buf[1]).cmd
       IN  cmd' = IF first \in known THEN first ELSE "UNKNOWN"
    /\ cseq' = Last(buf)
    /\ ReadPort
    /\ tcp' = (tcp \/ \E i \in DOMAIN buf : Request(buf[i]).over = "tcp")
    /\ parsed' \in ParseResults
    /\ pc' = "dispatch"
    /\ UNCHANGED <<clientVars, wire, loopVars, setupVars, answered>>

-----------------------------------------------------------------------------
(* Handle_RtspRequest()                                                    *)

\* sendResponse(): send(), whose result nobody looks at.  To a client that has
\* reset the connection it may find that out and fail ...
Severed == peer \in {"reset", "gone"}
Respond == \/ answered' = [answered EXCEPT ![cseq] = Many(@)]
           \/ Severed /\ UNCHANGED answered

\* ... or, once the failure is known, raise SIGPIPE, which nobody ignores: the
\* whole server ends, with every session in it.
Sigpipe ==
    /\ pc = "dispatch" /\ parsed
    /\ cmd \in {"OPTIONS", "DESCRIBE", "PLAY", "SETUP"}
    /\ Severed
    /\ pc' = "killed"
    /\ UNCHANGED <<clientVars, wire, loopVars, parseVars, setupVars, answered>>

\* OPTIONS, DESCRIBE and PLAY only answer.
Answer ==
    /\ pc = "dispatch" /\ parsed
    /\ cmd \in {"OPTIONS", "DESCRIBE", "PLAY"}
    /\ Respond
    /\ pc' = "result"
    /\ UNCHANGED <<clientVars, wire, loopVars, parseVars, setupVars>>

\* TEARDOWN and what is unknown has no handler, and a failed parse none either.
NoHandler ==
    /\ pc = "dispatch"
    /\ ~parsed \/ cmd \in {"TEARDOWN", "UNKNOWN"}
    /\ pc' = "result"
    /\ UNCHANGED <<clientVars, wire, loopVars, parseVars, setupVars, answered>>

\* InitTransport() binds the first pair that is free: which one depends on the
\* other programs of the machine.  The pair of an earlier SETUP stays bound,
\* and is not named any more; if no pair is free the old numbers are kept.
InitTransportClosing ==
    IF tcp THEN UNCHANGED <<bound, socket, told>>
    ELSE \E p \in Pairs \cup {NoPair} :
             /\ bound' = {p} \ {NoPair}
             /\ socket' = p
             /\ told' = IF p = NoPair THEN told ELSE p
InitTransport ==
    IF tcp THEN UNCHANGED <<bound, socket, told>>
    ELSE \/ \E p \in Pairs \ bound :
                /\ bound' = bound \cup {p}
                /\ socket' = p /\ told' = p
         \/ /\ socket' = NoPair
            /\ UNCHANGED <<bound, told>>

Setup ==
    /\ pc = "dispatch" /\ parsed /\ cmd = "SETUP"
    /\ InitTransport
    /\ named' = IF setups = 0 THEN Len(received) + wire ELSE named
    /\ setups' = Many(setups)
    /\ UNCHANGED idFits
    /\ Respond
    /\ pc' = "result"
    /\ UNCHANGED <<clientVars, wire, loopVars, parseVars>>

\* The command is returned whether or not it was understood.
ResultUnknownPlays ==
    /\ pc = "result"
    /\ streaming' = (streaming \/ cmd \in {"PLAY", "UNKNOWN"})
    /\ stop' = (stop \/ cmd = "TEARDOWN")
    /\ pc' = "stream"
    /\ UNCHANGED <<clientVars, wire, buf, res, dests, parseVars, setupVars, answered>>
ResultPlayOnly ==
    /\ pc = "result"
    /\ streaming' = (streaming \/ cmd = "PLAY")
    /\ pc' = "stream"
    /\ UNCHANGED <<clientVars, wire, buf, res, stop, dests, parseVars, setupVars, answered>>
Result ==
    /\ pc = "result"
    /\ streaming' = (streaming \/ cmd = "PLAY")
    /\ stop' = (stop \/ cmd = "TEARDOWN")
    /\ pc' = "stream"
    /\ UNCHANGED <<clientVars, wire, buf, res, dests, parseVars, setupVars, answered>>

\* AddDestination() and ten packets, then while (!Stop).  The jrtplib session
\* is created the first time and keeps every destination.
Stream ==
    /\ pc = "stream"
    /\ dests' = IF streaming THEN dests \cup {rtpPort} ELSE dests
    /\ pc' = IF stop THEN "close" ELSE "select"
    /\ UNCHANGED <<clientVars, wire, buf, res, stop, streaming,
                   parseVars, setupVars, answered>>

\* close(Client), and the destructors of the locals: ~CStreamer closes the
\* sockets it has in hand.
Finish ==
    /\ pc = "close"
    /\ bound' = bound \ {socket}
    /\ socket' = NoPair
    /\ dests' = {}
    /\ pc' = "done"
    /\ UNCHANGED <<clientVars, wire, buf, res, stop, streaming, parseVars,
                   told, idFits, named, setups, answered>>

Handler == \/ Receive \/ ReceiveEnd \/ Timeout \/ Test \/ Abort \/ Parse
           \/ Answer \/ NoHandler \/ Setup \/ Sigpipe \/ Result \/ Stream
           \/ Finish

Next == Client \/ Handler

\* The system runs the thread; the client does as it likes.
Spec == Init /\ [][Next]_vars /\ WF_vars(Handler)

-----------------------------------------------------------------------------
(* Properties                                                              *)

\* Every variable holds a value of its type.
TypeOK ==
    /\ received \in Seq(Requests) /\ wire \in 0 .. MaxRequests
    /\ peer \in {"open", "closed", "reset", "gone"}
    /\ pc \in {"select", "test", "parse", "dispatch", "result", "stream",
               "close", "done", "aborted", "killed"}
    /\ buf \in Seq(0 .. MaxRequests) /\ res \in {"data", "zero", "error"}
    /\ {stop, streaming, parsed, tcp, idFits} \subseteq BOOLEAN
    /\ cmd \in {"OPTIONS", "DESCRIBE", "SETUP", "PLAY", "TEARDOWN", "UNKNOWN"}
    /\ cseq \in 0 .. MaxRequests /\ rtpPort \in ClientPorts \cup {0}
    /\ bound \subseteq Pairs /\ {socket, told} \subseteq Pairs \cup {NoPair}
    /\ dests \subseteq ClientPorts \cup {0} /\ named \in 0 .. MaxRequests
    /\ answered \in [0 .. MaxRequests -> 0 .. 2] /\ setups \in 0 .. 2
    /\ Len(received) + wire <= MaxRequests

\* Audio goes only to a client that asked for it with PLAY, and only to ports
\* it has named (or to none, port 0).
PlayAsked == \E i \in DOMAIN received : received[i].cmd = "PLAY"
PortsNamed == {0} \cup {received[i].port : i \in DOMAIN received}
AudioOnlyAsAsked == dests # {} => PlayAsked /\ dests \subseteq PortsNamed

\* The server ports named in the answer to SETUP are ports this session has
\* bound and not closed, although only the sockets of the last search are kept
\* and a search may fail.
ToldPairIsBound == (told # NoPair /\ pc # "done") => told \in bound

\* A session that handled at most one SETUP gives back every port it bound.
PairsReturned == (pc = "done" /\ setups < 2) => bound = {}

\* A response carries the CSeq of the newest request received, so the numbers
\* never go back, whatever was received together or is handled again.
AnswersNewest ==
    [][\A c \in 0 .. MaxRequests : answered'[c] # answered[c] =>
           c = Len(received)]_vars

\* A session ends when it should: a TEARDOWN at the head of what was received ends
\* it, unless its Session header ends the process; and it does not outlive its
\* client, although it may take the whole server with it: a response to a client
\* that has reset the connection may raise SIGPIPE.
SessionEnds ==
    /\ (pc = "parse" /\ SessionRead /\ Request(buf[1]).cmd = "TEARDOWN") ~> pc = "done"
    /\ (peer # "open" /\ idFits) ~> pc \in {"done", "killed"}

-----------------------------------------------------------------------------
(* The inductive invariant of the proofs.                                  *)

\* RecvBuf ends with the newest request, or is what a thread left behind.
BufInv ==
    /\ \A i \in DOMAIN buf : buf[i] <= Len(received)
    /\ buf \notin {<<>>, <<Leftover>>} =>
           received # <<>> /\ buf[Len(buf)] = Len(received)
    /\ pc = "parse" => buf # <<>>

\* What was parsed comes from the requests received.
ParsedInv ==
    /\ pc = "dispatch" /\ cmd # "TEARDOWN" => cseq = Len(received)
    /\ pc \in {"dispatch", "result"} /\ cmd = "PLAY" => PlayAsked
    /\ rtpPort \in PortsNamed

StreamInv ==
    /\ streaming => PlayAsked
    /\ pc # "done" /\ dests # {} => streaming
    /\ pc = "done" => dests = {}
    /\ dests \subseteq PortsNamed

\* Until a second SETUP the socket in hand is the only one bound.
PairInv ==
    /\ setups = 0 => bound = {} /\ told = NoPair
    /\ setups < 2 => bound \subseteq {socket} \ {NoPair}
    /\ ToldPairIsBound /\ PairsReturned

Inv == TypeOK /\ BufInv /\ ParsedInv /\ StreamInv /\ PairInv
=============================================================================
