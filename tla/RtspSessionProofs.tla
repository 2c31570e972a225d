------------------------- MODULE RtspSessionProofs -------------------------
(***************************************************************************)
(* Proofs about RtspSession for every number of requests, every set of     *)
(* ports and every outcome of ParseRtspRequest().  Inv is inductive: what  *)
(* the handler keeps from one round to the next (RecvBuf, the client's     *)
(* port, StreamingStarted, the pair of ports) stays justified by requests  *)
(* that were received, and `received` only grows.  Last, a session ends    *)
(* only for a cause, however often the contents of RecvBuf are handled.    *)
(***************************************************************************)
EXTENDS RtspSession, SequenceTheorems, TLAPS

Commands == {"OPTIONS", "DESCRIBE", "SETUP", "PLAY", "TEARDOWN", "PAUSE",
             "GET_PARAMETER"}

\* The fields of a request.
LEMMA RequestFields ==
    ASSUME NEW r \in Requests
    PROVE  /\ r.cmd \in Commands /\ r.port \in ClientPorts \cup {0}
           /\ r.over \in {"none", "udp", "tcp"}
  BY SessionAssumption DEF Requests, Commands

\* The request behind a number of RecvBuf.
LEMMA BufferedRequest ==
    ASSUME TypeOK, BufInv, NEW i \in DOMAIN buf
    PROVE  /\ buf[i] \in 0 .. Len(received)
           /\ Request(buf[i]).cmd \in Commands
           /\ Request(buf[i]).port \in PortsNamed
           /\ Request(buf[i]).cmd = "PLAY" => PlayAsked
<1>1. buf[i] \in 0 .. Len(received)
  BY SessionAssumption DEF TypeOK, BufInv
<1>2. CASE buf[i] = 0
  BY <1>1, <1>2 DEF Request, Leftover, PortsNamed, Commands
<1>3. CASE buf[i] # 0
  <2>1. buf[i] \in DOMAIN received /\ Request(buf[i]) = received[buf[i]]
    BY <1>1, <1>3 DEF TypeOK, Request, Leftover
  <2>2. received[buf[i]] \in Requests
    BY <2>1 DEF TypeOK
  <2>3. QED
    BY <1>1, <2>1, <2>2, RequestFields DEF PortsNamed, PlayAsked
<1>4. QED
  BY <1>2, <1>3

\* What was asked for stays asked for when more is received.
LEMMA ReceivedGrows ==
    ASSUME TypeOK, NEW k \in 1 .. wire, NEW new \in [1 .. k -> Requests],
           received' = received \o new, wire' = wire - k
    PROVE  /\ received' \in Seq(Requests) /\ wire' \in 0 .. MaxRequests
           /\ Len(received') = Len(received) + k
           /\ Len(received') + wire' <= MaxRequests
           /\ Numbers(k) \in Seq(0 .. MaxRequests) /\ Len(Numbers(k)) = k
           /\ \A i \in 1 .. k : Numbers(k)[i] = Len(received) + i
           /\ PlayAsked => PlayAsked'
           /\ PortsNamed \subseteq PortsNamed'
<1>1. new \in Seq(Requests) /\ Len(new) = k
  BY DEF TypeOK
<1>2. /\ received' \in Seq(Requests) /\ Len(received') = Len(received) + k
      /\ \A i \in 1 .. Len(received) : received'[i] = received[i]
  <2>1. received \in Seq(Requests)
    BY DEF TypeOK
  <2>2. /\ received \o new \in Seq(Requests)
        /\ Len(received \o new) = Len(received) + Len(new)
        /\ \A i \in 1 .. Len(received) + Len(new) : (received \o new)[i] =
              IF i <= Len(received) THEN received[i] ELSE new[i - Len(received)]
    BY <1>1, <2>1, ConcatProperties
  <2>3. Len(received) \in Nat /\ Len(new) \in Nat
    BY <1>1, <2>1
  <2>4. QED
    BY <1>1, <2>2, <2>3
<1>3. wire' \in 0 .. MaxRequests /\ Len(received') + wire' <= MaxRequests
  BY <1>2, SessionAssumption DEF TypeOK
<1>4. Numbers(k) \in Seq(0 .. MaxRequests) /\ Len(Numbers(k)) = k
  <2>1. \A i \in 1 .. k : Len(received) + i \in 0 .. MaxRequests
    BY <1>2, <1>3, SessionAssumption DEF TypeOK
  <2>2. QED
    BY <2>1 DEF TypeOK, Numbers
<1>5. \A i \in 1 .. k : Numbers(k)[i] = Len(received) + i
  BY DEF Numbers
<1>6. DOMAIN received \subseteq DOMAIN received'
  BY <1>2 DEF TypeOK
<1>7. PlayAsked => PlayAsked'
  BY <1>2, <1>6 DEF PlayAsked, TypeOK
<1>8. PortsNamed \subseteq PortsNamed'
  BY <1>2, <1>6 DEF PortsNamed, TypeOK
<1>9. QED
  BY <1>2, <1>3, <1>4, <1>5, <1>7, <1>8

\* The handler starts with nothing received, nothing bound and nothing sent,
\* whatever its uninitialised variables hold.
LEMMA InitInv == Init => Inv
<1> SUFFICES ASSUME Init PROVE Inv
  OBVIOUS
<1>1. TypeOK
  <2>1. buf \in Seq(0 .. MaxRequests)
    BY SessionAssumption DEF Init, Leftover
  <2>2. {stop, streaming, parsed, tcp, idFits} \subseteq BOOLEAN
    BY DEF Init
  <2>3. answered \in [0 .. MaxRequests -> 0 .. 2]
    BY DEF Init
  <2>4. received \in Seq(Requests) /\ Len(received) = 0
    BY DEF Init
  <2>5. QED
    BY <2>1, <2>2, <2>3, <2>4, SessionAssumption DEF Init, TypeOK, NoPair
<1>2. BufInv
  BY DEF Init, BufInv, Leftover
<1>3. ParsedInv /\ StreamInv /\ PairInv
  BY DEF Init, ParsedInv, StreamInv, PairInv, PortsNamed, ToldPairIsBound,
         PairsReturned
<1>4. QED
  BY <1>1, <1>2, <1>3 DEF Inv

-----------------------------------------------------------------------------
\* The client changes neither the handler's state nor what was received.
LEMMA ClientStep == ASSUME Inv, Client PROVE Inv'
<1> USE DEF Inv
<1>1. /\ UNCHANGED <<received, pc, loopVars, parseVars, setupVars, answered>>
      /\ wire' \in 0 .. MaxRequests /\ Len(received) + wire' <= MaxRequests
      /\ peer' \in {"open", "closed", "reset", "gone"}
  <2>1. CASE Send
    BY <2>1, SessionAssumption DEF Send, clientVars, TypeOK
  <2>2. CASE Close
    BY <2>2, SessionAssumption DEF Close, TypeOK
  <2>3. CASE Reset
    BY <2>3, SessionAssumption DEF Reset, TypeOK
  <2>4. QED
    BY <2>1, <2>2, <2>3 DEF Client
<1> USE <1>1 DEF loopVars, parseVars, setupVars
<1>2. TypeOK'
  BY DEF TypeOK
<1>3. BufInv' /\ ParsedInv' /\ StreamInv' /\ PairInv'
  BY DEF BufInv, ParsedInv, StreamInv, PairInv, PlayAsked, PortsNamed,
         ToldPairIsBound, PairsReturned
<1>4. QED
  BY <1>2, <1>3

\* recv() with requests: RecvBuf now ends with the newest of them.
LEMMA ReceiveStep == ASSUME Inv, Receive PROVE Inv'
<1> USE DEF Inv
<1>1. PICK k \in 1 .. wire : Take(k) /\ buf' = Numbers(k)
  BY DEF Receive
<1>2. PICK new \in [1 .. k -> Requests] : received' = received \o new
  BY <1>1 DEF Take
<1>3. wire' = wire - k
  BY <1>1 DEF Take
<1>4. /\ received' \in Seq(Requests) /\ wire' \in 0 .. MaxRequests
      /\ Len(received') = Len(received) + k
      /\ Len(received') + wire' <= MaxRequests
      /\ buf' \in Seq(0 .. MaxRequests) /\ Len(buf') = k
      /\ \A i \in 1 .. k : buf'[i] = Len(received) + i
      /\ PlayAsked => PlayAsked'
      /\ PortsNamed \subseteq PortsNamed'
  BY <1>1, <1>2, <1>3, ReceivedGrows
<1>5. /\ UNCHANGED <<peer, stop, streaming, dests, parseVars, setupVars, answered>>
      /\ pc = "select" /\ pc' = "test" /\ res' = "data"
  BY DEF Receive
<1>6. TypeOK'
  BY <1>4, <1>5 DEF TypeOK, parseVars, setupVars
<1>7. BufInv'
  BY SMTT(30), <1>4, <1>5, SessionAssumption DEF BufInv, TypeOK
<1>8. ParsedInv' /\ StreamInv'
  BY <1>4, <1>5 DEF ParsedInv, StreamInv, parseVars
<1>9. PairInv'
  BY <1>5 DEF PairInv, ToldPairIsBound, PairsReturned, setupVars
<1>10. QED
  BY <1>6, <1>7, <1>8, <1>9

\* recv() without requests clears RecvBuf.
LEMMA ReceiveEndStep == ASSUME Inv, ReceiveEnd PROVE Inv'
<1> USE DEF Inv
<1>1. TypeOK'
  BY DEF TypeOK, ReceiveEnd, parseVars, setupVars
<1>2. BufInv'
  BY DEF BufInv, ReceiveEnd
<1>3. ParsedInv' /\ StreamInv' /\ PairInv'
  BY DEF ReceiveEnd, parseVars, setupVars, ParsedInv, StreamInv, PairInv,
         PlayAsked, PortsNamed, ToldPairIsBound, PairsReturned
<1>4. QED
  BY <1>1, <1>2, <1>3

\* The steps from select() to the parser that leave RecvBuf alone, and the end of
\* the process.
LEMMA TestStep == ASSUME Inv, Timeout \/ Test \/ Abort \/ Sigpipe PROVE Inv'
<1> USE DEF Inv, Timeout, Test, Abort, Sigpipe, clientVars, loopVars, parseVars, setupVars
<1>1. TypeOK'
  <2>1. stop' \in BOOLEAN
    BY DEF TypeOK
  <2>2. pc' \in {"test", "parse", "stream", "aborted", "killed"}
    OBVIOUS
  <2>3. QED
    BY SMTT(30), <2>1, <2>2 DEF TypeOK
<1>2. BufInv'
  BY DEF BufInv
<1>3. ParsedInv' /\ StreamInv' /\ PairInv'
  <2>1. pc' \notin {"dispatch", "result", "done"} /\ pc # "done"
    OBVIOUS
  <2>2. UNCHANGED <<received, streaming, dests, rtpPort, setupVars>>
    OBVIOUS
  <2> HIDE DEF Timeout, Test, Abort, Sigpipe
  <2>3. ParsedInv' /\ StreamInv'
    BY <2>1, <2>2 DEF ParsedInv, StreamInv, PlayAsked, PortsNamed
  <2>4. PairInv'
    BY <2>1, <2>2 DEF PairInv, ToldPairIsBound, PairsReturned
  <2>5. QED
    BY <2>3, <2>4
<1>4. QED
  BY <1>1, <1>2, <1>3

-----------------------------------------------------------------------------
\* ParseRtspRequest(): number, port and directive come from RecvBuf.
LEMMA ParseStep == ASSUME Inv, Parse PROVE Inv'
<1> USE DEF Inv
<1>1. /\ pc = "parse" /\ pc' = "dispatch" /\ parsed' \in ParseResults
      /\ UNCHANGED <<clientVars, wire, loopVars, setupVars, answered>>
      /\ cseq' = Last(buf)
      /\ tcp' = (tcp \/ \E i \in DOMAIN buf : Request(buf[i]).over = "tcp")
  BY DEF Parse
<1>2. buf # <<>> /\ buf \in Seq(0 .. MaxRequests)
      /\ 1 \in DOMAIN buf /\ Len(buf) \in DOMAIN buf
  BY <1>1 DEF BufInv, TypeOK
<1>3. cseq' = buf[Len(buf)] /\ cseq' \in 0 .. MaxRequests
  <2>1. Last(buf) = buf[Len(buf)]
    BY DEF Last
  <2>2. buf[Len(buf)] \in 0 .. MaxRequests
    <3>1. Len(buf) \in 1 .. Len(buf)
      BY <1>2
    <3>2. QED
      BY <1>2, <3>1, ElementOfSeq
  <2>3. QED
    BY <1>1, <2>1, <2>2
<1>4. /\ cmd' = Request(buf[1]).cmd \/ cmd' = "UNKNOWN"
      /\ cmd' \in {"OPTIONS", "DESCRIBE", "SETUP", "PLAY", "TEARDOWN", "UNKNOWN"}
      /\ Request(buf[1]).cmd = "TEARDOWN" => cmd' = "TEARDOWN"
  BY DEF Parse
<1>5. rtpPort' \in PortsNamed /\ rtpPort' \in ClientPorts \cup {0}
  <2>1. CASE rtpPort' = rtpPort
    BY <2>1 DEF TypeOK, ParsedInv
  <2>2. CASE \E i \in DOMAIN buf : rtpPort' = Request(buf[i]).port
    <3>1. PortsNamed \subseteq ClientPorts \cup {0}
      BY RequestFields DEF PortsNamed, TypeOK
    <3>2. QED
      BY <2>2, <3>1, BufferedRequest
  <2>3. QED
    BY <2>1, <2>2 DEF Parse, ReadPort
<1>6. TypeOK'
  <2>1. tcp' \in BOOLEAN /\ parsed' \in BOOLEAN
    BY <1>1, SessionAssumption DEF TypeOK
  <2>2. QED
    BY <1>1, <1>3, <1>4, <1>5, <2>1 DEF TypeOK, clientVars, loopVars, setupVars
<1>7. BufInv' /\ StreamInv' /\ PairInv'
  BY <1>1 DEF BufInv, StreamInv, PairInv, PlayAsked, PortsNamed,
     ToldPairIsBound, PairsReturned, clientVars, loopVars, setupVars
<1>8. ParsedInv'
  <2>1. cmd' # "TEARDOWN" => cseq' = Len(received)
    <3>1. CASE buf = <<Leftover>>
      BY <3>1, <1>4 DEF Request, Leftover
    <3>2. CASE buf # <<Leftover>>
      BY <3>2, <1>2, <1>3 DEF BufInv
    <3>3. QED
      BY <3>1, <3>2
  <2>2. cmd' = "PLAY" => PlayAsked
    BY <1>2, <1>4, BufferedRequest
  <2>3. UNCHANGED received
    BY <1>1 DEF clientVars
  <2>4. QED
    BY <1>1, <1>5, <2>1, <2>2, <2>3 DEF ParsedInv, PlayAsked, PortsNamed
<1>9. QED
  BY <1>6, <1>7, <1>8

\* Responses are counted up to many.
LEMMA RespondType ==
    ASSUME TypeOK, Respond
    PROVE  answered' \in [0 .. MaxRequests -> 0 .. 2]
  BY DEF TypeOK, Respond, Many

\* The handlers without an effect of their own.
LEMMA AnswerStep == ASSUME Inv, Answer \/ NoHandler PROVE Inv'
<1> USE DEF Inv
<1>1. /\ pc = "dispatch" /\ pc' = "result"
      /\ UNCHANGED <<clientVars, wire, loopVars, parseVars, setupVars>>
  BY DEF Answer, NoHandler
<1>2. answered' \in [0 .. MaxRequests -> 0 .. 2]
  BY RespondType DEF Answer, NoHandler, TypeOK
<1> USE <1>1 DEF clientVars, loopVars, parseVars, setupVars
<1>3. TypeOK'
  BY <1>2 DEF TypeOK
<1>4. BufInv' /\ ParsedInv' /\ StreamInv' /\ PairInv'
  BY DEF BufInv, ParsedInv, StreamInv, PairInv, PlayAsked, PortsNamed,
         ToldPairIsBound, PairsReturned
<1>5. QED
  BY <1>3, <1>4

\* SETUP: the first one finds nothing bound, the second one ends what PairInv
\* says of a single pair.
LEMMA SetupStep == ASSUME Inv, Setup PROVE Inv'
<1> USE DEF Inv
<1>1. /\ pc = "dispatch" /\ pc' = "result" /\ InitTransport
      /\ setups' = Many(setups) /\ Respond
      /\ named' = IF setups = 0 THEN Len(received) + wire ELSE named
      /\ UNCHANGED <<idFits, clientVars, wire, loopVars, parseVars>>
  BY DEF Setup
<1>2. /\ bound' \subseteq Pairs /\ {socket', told'} \subseteq Pairs \cup {NoPair}
      /\ told' # NoPair => told' \in bound'
      /\ setups = 0 => bound' \subseteq {socket'} \ {NoPair}
  <2>1. \A p \in Pairs : p # NoPair
    BY SessionAssumption DEF NoPair
  <2>2. told # NoPair => told \in bound
    BY <1>1 DEF PairInv, ToldPairIsBound
  <2>3. QED
    BY <1>1, <2>1, <2>2 DEF InitTransport, TypeOK, PairInv
<1>3. setups' \in 1 .. 2 /\ (setups' < 2 => setups = 0)
  BY <1>1 DEF Many, TypeOK
<1>4. TypeOK'
  <2>1. answered' \in [0 .. MaxRequests -> 0 .. 2]
    BY <1>1, RespondType
  <2>2. named' \in 0 .. MaxRequests
    BY <1>1, SessionAssumption DEF TypeOK
  <2>3. QED
    BY <1>1, <1>2, <1>3, <2>1, <2>2 DEF TypeOK, clientVars, loopVars, parseVars
<1>5. BufInv' /\ ParsedInv' /\ StreamInv'
  BY <1>1 DEF BufInv, ParsedInv, StreamInv, PlayAsked, PortsNamed, clientVars,
     loopVars, parseVars
<1>6. PairInv'
  BY <1>1, <1>2, <1>3 DEF PairInv, ToldPairIsBound, PairsReturned
<1>7. QED
  BY <1>4, <1>5, <1>6

-----------------------------------------------------------------------------
\* The rest of the round.
LEMMA ResultStep == ASSUME Inv, Result PROVE Inv'
<1> USE DEF Inv, Result, clientVars, parseVars, setupVars
<1>1. TypeOK'
  BY DEF TypeOK
<1>2. BufInv' /\ ParsedInv' /\ PairInv'
  BY DEF BufInv, ParsedInv, PairInv, PlayAsked, PortsNamed, ToldPairIsBound,
         PairsReturned
<1>3. StreamInv'
  BY DEF StreamInv, ParsedInv, TypeOK, PlayAsked, PortsNamed
<1>4. QED
  BY <1>1, <1>2, <1>3

LEMMA StreamStep == ASSUME Inv, Stream PROVE Inv'
<1> USE DEF Inv, Stream, clientVars, parseVars, setupVars
<1>1. TypeOK'
  BY DEF TypeOK
<1>2. BufInv' /\ ParsedInv' /\ PairInv'
  BY DEF BufInv, ParsedInv, PairInv, PlayAsked, PortsNamed, ToldPairIsBound,
         PairsReturned
<1>3. StreamInv'
  BY DEF StreamInv, ParsedInv, PlayAsked, PortsNamed
<1>4. QED
  BY <1>1, <1>2, <1>3

LEMMA FinishStep == ASSUME Inv, Finish PROVE Inv'
<1> USE DEF Inv, Finish, clientVars, parseVars
<1>1. TypeOK'
  BY DEF TypeOK
<1>2. BufInv' /\ ParsedInv' /\ StreamInv'
  BY DEF BufInv, ParsedInv, StreamInv, PlayAsked, PortsNamed
<1>3. PairInv'
  BY DEF PairInv, ToldPairIsBound, PairsReturned
<1>4. QED
  BY <1>1, <1>2, <1>3

\* Every step of the client and of the handler preserves Inv.
LEMMA NextInv == Inv /\ [Next]_vars => Inv'
<1> SUFFICES ASSUME Inv, [Next]_vars PROVE Inv'
  OBVIOUS
<1>1. CASE Client
  BY <1>1, ClientStep
<1>2. CASE Handler
  BY <1>2, ReceiveStep, ReceiveEndStep, TestStep, ParseStep, AnswerStep,
     SetupStep, ResultStep, StreamStep, FinishStep DEF Handler
<1>3. CASE UNCHANGED vars
  BY <1>3 DEF Inv, TypeOK, BufInv, ParsedInv, StreamInv, PairInv, PlayAsked,
     PortsNamed, ToldPairIsBound, PairsReturned, vars, clientVars, loopVars,
     parseVars, setupVars
<1>4. QED
  BY <1>1, <1>2, <1>3 DEF Next

\* The inductive invariant holds in every state the handler reaches.
THEOREM InvTheorem == Spec => []Inv
  BY InitInv, NextInv, PTL DEF Spec

\* Every variable keeps its type.
THEOREM TypeCorrect == Spec => []TypeOK
<1>1. Inv => TypeOK
  BY DEF Inv
<1>2. QED
  BY <1>1, InvTheorem, PTL

\* Audio goes only to a client that asked for it, and to ports it has named.
THEOREM AudioTheorem == Spec => []AudioOnlyAsAsked
<1>1. Inv => AudioOnlyAsAsked
  BY DEF Inv, StreamInv, AudioOnlyAsAsked
<1>2. QED
  BY <1>1, InvTheorem, PTL

\* The server ports told to the client in the answer to SETUP are bound by its
\* session, also after a search that failed.
THEOREM ToldPairTheorem == Spec => []ToldPairIsBound
<1>1. Inv => ToldPairIsBound
  BY DEF Inv, PairInv
<1>2. QED
  BY <1>1, InvTheorem, PTL

\* A session with at most one SETUP returns the pair of ports it bound.
THEOREM PairsReturnedTheorem == Spec => []PairsReturned
<1>1. Inv => PairsReturned
  BY DEF Inv, PairInv
<1>2. QED
  BY <1>1, InvTheorem, PTL

\* Only Answer and Setup send a response, and the number they put into it is
\* that of the newest request.
THEOREM AnswersNewestTheorem == Spec => AnswersNewest
<1> DEFINE Newest == \A c \in 0 .. MaxRequests :
                         answered'[c] # answered[c] => c = Len(received)
<1>1. ASSUME Inv, [Next]_vars PROVE Newest
  <2>1. CASE Answer \/ Setup
    <3>1. Respond /\ cseq = Len(received)
      BY <1>1, <2>1 DEF Answer, Setup, Inv, ParsedInv
    <3>2. QED
      BY <1>1, <3>1 DEF Respond, Inv, TypeOK
  <2>2. CASE UNCHANGED answered
    BY <2>2
  <2>3. QED
    BY <1>1, <2>1, <2>2 DEF Next, Client, Handler, Send, Close, Reset, Receive,
       ReceiveEnd, Timeout, Test, Abort, Parse, NoHandler, Sigpipe, Result,
       Stream, Finish, vars
<1>2. Inv /\ [Next]_vars => [Newest]_vars
  BY <1>1
<1>3. QED
  BY <1>2, InvTheorem, PTL DEF Spec, AnswersNewest

-----------------------------------------------------------------------------
(* Why a session ends.                                                     *)

TeardownAsked == \E i \in DOMAIN received : received[i].cmd = "TEARDOWN"

\* What may end a session: its client, or, before the first recv(), the values
\* its uninitialised RecvBuf and res happen to have.
Cause == TeardownAsked \/ peer # "open" \/ received = <<>>

\* A session whose loop is over was stopped, and for a cause: once it has
\* received a request, only a TEARDOWN or the client's end stops it, however
\* many rounds handle what is still in RecvBuf again.
EndsForCause == pc \in {"close", "done"} => stop /\ Cause

CauseInv ==
    /\ pc \in {"select", "test"} => ~stop
    /\ stop => Cause
    /\ res = "zero" => Cause
    /\ \A i \in DOMAIN buf : buf[i] = Leftover => received = <<>>
    /\ pc \in {"dispatch", "result"} /\ cmd = "TEARDOWN" => Cause
    /\ pc \in {"close", "done"} => stop

\* RecvBuf ends a session only by a TEARDOWN in it.
LEMMA BufferedTeardown ==
    ASSUME TypeOK, BufInv, CauseInv, NEW i \in DOMAIN buf, Request(buf[i]).cmd = "TEARDOWN"
    PROVE  Cause
<1>1. buf[i] \in 0 .. Len(received)
  BY BufferedRequest
<1>2. CASE buf[i] = Leftover
  BY <1>2 DEF CauseInv, Cause
<1>3. CASE buf[i] # Leftover
  <2>1. buf[i] \in DOMAIN received
    BY <1>1, <1>3 DEF TypeOK, Leftover
  <2>2. QED
    BY <1>3, <2>1 DEF Request, Cause, TeardownAsked
<1>4. QED
  BY <1>2, <1>3

LEMMA CauseStep == Inv /\ CauseInv /\ [Next]_vars => CauseInv'
<1> SUFFICES ASSUME Inv, CauseInv, [Next]_vars PROVE CauseInv'
  OBVIOUS
<1>1. TypeOK /\ BufInv
  BY DEF Inv
<1> USE DEF clientVars, loopVars, parseVars, setupVars
<1>2. CASE Client
  BY <1>2 DEF Client, Send, Close, Reset, CauseInv, Cause, TeardownAsked
<1>3. CASE Receive
  <2>1. PICK k \in 1 .. wire : Take(k) /\ buf' = Numbers(k)
    BY <1>3 DEF Receive
  <2>2. \A i \in DOMAIN buf' : buf'[i] # Leftover
    BY <1>1, <2>1 DEF Numbers, Leftover, TypeOK
  <2>3. /\ pc = "select" /\ pc' = "test" /\ res' = "data" /\ stop' = stop
    BY <1>3 DEF Receive
  <2>4. QED
    BY <2>2, <2>3 DEF CauseInv
<1>4. CASE ReceiveEnd
  BY <1>4 DEF ReceiveEnd, CauseInv, Cause, TeardownAsked
<1>5. CASE Timeout \/ Test \/ Abort
  <2>1. CASE Timeout
    BY <2>1 DEF Timeout, CauseInv, Cause, TeardownAsked
  <2>2. CASE Test
    <3>1. /\ stop' => stop \/ res = "zero"
          /\ pc' \in {"parse", "stream"}
          /\ UNCHANGED <<received, peer, res, buf, cmd>>
      BY <2>2 DEF Test
    <3>2. Cause' <=> Cause
      BY <3>1 DEF Cause, TeardownAsked
    <3>3. QED
      BY <3>1, <3>2 DEF CauseInv
  <2>3. CASE Abort
    BY <2>3 DEF Abort, CauseInv, Cause, TeardownAsked
  <2>4. QED
    BY <1>5, <2>1, <2>2, <2>3
<1>6. CASE Parse
  <2>1. 1 \in DOMAIN buf
    BY <1>1, <1>6 DEF Parse, BufInv, TypeOK
  <2>2. cmd' = "TEARDOWN" => Request(buf[1]).cmd = "TEARDOWN"
    BY <1>6 DEF Parse
  <2>3. cmd' = "TEARDOWN" => Cause
    BY <1>1, <2>1, <2>2, BufferedTeardown
  <2>4. /\ pc' = "dispatch" /\ UNCHANGED <<received, peer, stop, res, buf>>
    BY <1>6 DEF Parse
  <2>5. QED
    BY <2>3, <2>4 DEF CauseInv, Cause, TeardownAsked
<1>7. CASE Answer \/ NoHandler \/ Setup \/ Sigpipe
  BY <1>7 DEF Answer, NoHandler, Setup, Sigpipe, CauseInv, Cause, TeardownAsked
<1>8. CASE Result
  BY <1>8 DEF Result, CauseInv, Cause, TeardownAsked
<1>9. CASE Stream \/ Finish
  BY <1>9 DEF Stream, Finish, CauseInv, Cause, TeardownAsked
<1>10. CASE UNCHANGED vars
  BY <1>10 DEF vars, CauseInv, Cause, TeardownAsked
<1>11. QED
  BY <1>2, <1>3, <1>4, <1>5, <1>6, <1>7, <1>8, <1>9, <1>10 DEF Next, Handler

\* The handler leaves its loop (RTSPServerTest.cpp:183-284) only for a TEARDOWN
\* it has received or because the client has gone, for every number of requests
\* and every way they come in; before the first recv() also for what the
\* uninitialised RecvBuf and res hold.
THEOREM EndsForCauseTheorem == Spec => []EndsForCause
<1>1. Init => CauseInv
  BY DEF Init, CauseInv, Cause
<1>2. CauseInv => EndsForCause
  BY DEF CauseInv, EndsForCause
<1>3. QED
  BY <1>1, <1>2, CauseStep, InvTheorem, PTL DEF Spec
=============================================================================
