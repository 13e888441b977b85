----------------------------- MODULE Handshake ------------------------------
(***************************************************************************)
(* The crypto handshake of a server session.  The goroutine of             *)
(* HandleCryptoStream answers the client hellos (CHLOs) and derives the    *)
(* keys under CryptoSetup.mutex; the run loop opens and seals packets with *)
(* whatever keys there are, under the same mutex.  The client and the      *)
(* network are external: packets are reordered, lost, and sent again.      *)
(***************************************************************************)
EXTENDS Integers, FiniteSets, FiniteSetsExt

CONSTANTS
    Hellos,           \* CHLOs a client may send: what is right in them, and the parameters they offer
    Limit, Default,   \* largest and initial values of the connection parameters
    Slack,            \* MaxStreamsMinimumIncrement
    MaxUndecryptable, \* MaxUndecryptablePackets
    MaxHellos,        \* bound of the model: CHLOs
    MaxLosses         \* bound of the model: packets lost or late

\* What a complete CHLO has: tags with valid values, the minimum size, a name
\* ("cert") that the server has a certificate for.  For PUBS the two questions the
\* code asks are apart: the tag is there, and its value ("key") is a public key.
ChloTags == {"SNI", "cert", "VER", "size", "SCID", "PUBS", "key", "STK", "NONC", "AEAD", "KEXS"}
\* TagTCID is left out: it only changes the public header.
ParamTags == {"MSPC", "MIDS", "ICSL", "SFCW", "CFCW"}
Negotiable == {"MSPC", "MIDS", "ICSL"}
Malformed == -1

ASSUME HandshakeAssumption ==
    /\ \A c \in Hellos :
          /\ c.ok \subseteq ChloTags /\ DOMAIN c.offer \subseteq ParamTags
          /\ \A t \in DOMAIN c.offer : c.offer[t] \in Nat \cup {Malformed}
    /\ Limit \in [Negotiable -> Nat] /\ Default \in [ParamTags -> Nat] /\ Slack \in Nat
    /\ \A t \in Negotiable : Default[t] <= Limit[t]

VARIABLES
    version,       \* version of the session
    aead,          \* which of secureAEAD and forwardSecureAEAD are set: a subset of {"secure", "forward"}
    received,      \* receivedSecurePacket and receivedForwardSecurePacket, in the same way
    params,        \* connectionParametersManager
    hasReceivedMaxIncomingDynamicStreams,
    flowControlNegotiated,
    crypto,        \* where the crypto goroutine is
    chlo,          \* the CHLO it handles
    cryptoStream,  \* {} or the CHLO that has arrived and was not read
    heard,         \* CHLOs that have arrived
    writing,       \* {} or the reply in dataForWriting
    aeadChanged,   \* length of the channel
    loop,          \* where the run loop is
    packet,        \* the packet it opens
    nonce,         \* the public header has a diversification nonce
    lost,          \* frames to be sent again
    undecryptablePackets,
    closeChan,     \* "open", "error", or "silent" when no CONNECTION_CLOSE is to be sent
    toServer, toClient, losses,
    clientHas, clientKeys, clientHello, hellos, waiting, shlo, clientSent

setup    == <<version, aead, received>>
managed  == <<params, hasReceivedMaxIncomingDynamicStreams, flowControlNegotiated>>
handler  == <<crypto, chlo>>
streams  == <<cryptoStream, heard>>
runLoop  == <<loop, packet, nonce, undecryptablePackets>>
network  == <<toServer, toClient, losses>>
client   == <<clientHas, clientKeys, clientHello, hellos, waiting, shlo, clientSent>>
queues   == <<undecryptablePackets, lost, closeChan>>
\* What no step of the crypto goroutine changes, what no step of the run loop
\* changes, and what a step that only moves on within the loop leaves as well.
notCrypto == <<version, received, heard, runLoop, lost, network, client>>
notLoop   == <<version, aead, managed, handler, losses, client>>
work      == <<received, streams, writing, aeadChanged, packet, nonce, queues, toServer, toClient>>
vars == <<setup, managed, handler, streams, writing, aeadChanged, runLoop, lost, closeChan, network, client>>

Levels == {"null", "secure", "forward"}
Rank(level) == CASE level = "null" -> 0 [] level = "secure" -> 1 [] level = "forward" -> 2
NoHello == [ok |-> {}, offer |-> <<>>, n |-> 0]
NoPacket == [level |-> "null", type |-> "none", hello |-> NoHello, copy |-> 0]
\* The answer to the n-th CHLO; PROF and CERT are in it when the token was valid.
REJ(c) == [type |-> "REJ", n |-> c.n, proof |-> "STK" \in c.ok]
CONNECTION_CLOSE == [type |-> "CONNECTION_CLOSE"]

Init ==
    /\ version \in {34, 35} /\ aead = {} /\ received = {}
    /\ params = Default /\ hasReceivedMaxIncomingDynamicStreams = FALSE /\ flowControlNegotiated = FALSE
    /\ crypto = "read" /\ chlo = NoHello /\ cryptoStream = {} /\ heard = 0 /\ writing = {} /\ aeadChanged = 0
    /\ loop = "select" /\ packet = NoPacket /\ nonce = FALSE /\ lost = {} /\ undecryptablePackets = {}
    /\ closeChan = "open" /\ toServer = {} /\ toClient = {} /\ losses = 0
    /\ clientHas \in {{}, {"SCID", "STK", "PUBS"}} /\ clientKeys = {"null"} /\ clientHello = NoHello
    /\ hellos = 0 /\ waiting = FALSE /\ shlo = {} /\ clientSent = {}

-----------------------------------------------------------------------------
(* Keys *)

\* Open tries the forward secure key, the secure key and no key.  A key that a
\* packet was opened with is the last that is tried.
Opens(level) ==
    \/ level = "forward" /\ "forward" \in aead
    \/ /\ "forward" \notin received
       /\ \/ level = "secure" /\ "secure" \in aead
          \/ level = "null" /\ "secure" \notin received

BugSealLevel == IF "forward" \in aead THEN "forward" ELSE IF "secure" \in aead THEN "secure" ELSE "null"
SealLevel == IF "forward" \in received THEN "forward" ELSE IF "secure" \in aead THEN "secure" ELSE "null"
DiversificationNonce == "forward" \notin received /\ "secure" \in aead
HandshakeComplete == "forward" \in received

\* handleCHLO holds the mutex; packPacket has it for reading.
BugLocked == crypto = "derive"
Locked == crypto \in {"derive", "parameters", "signal"}
RLocked == loop \in {"seal", "sealClose"}

-----------------------------------------------------------------------------
(* Connection parameters *)

Negotiated(tag, v) == IF tag \in Negotiable THEN Min({v, Limit[tag]}) ELSE v
Applied(offer, tags) == [t \in ParamTags |-> IF t \in tags THEN Negotiated(t, offer[t]) ELSE params[t]]

GetMaxOutgoingStreams ==
    IF version > 34 /\ hasReceivedMaxIncomingDynamicStreams THEN params["MIDS"] ELSE params["MSPC"]
GetMaxIncomingStreams ==
    LET val == IF version <= 34 THEN params["MSPC"] ELSE Limit["MIDS"]
    IN  Max({val + Slack, (val * 11) \div 10})
GetSHLOMap == [type |-> "SHLO", ICSL |-> params["ICSL"], MSPC |-> params["MSPC"],
               MIDS |-> IF version > 34 THEN {Limit["MIDS"]} ELSE {}]

\* The tags are visited in any order, up to a malformed one.
SetFromMap(offer) ==
    LET good     == {t \in DOMAIN offer : offer[t] # Malformed}
        windows  == {"SFCW", "CFCW"} \cap DOMAIN offer
        rejected == good # DOMAIN offer \/ (flowControlNegotiated /\ windows # {})
    IN  \E tags \in (IF rejected THEN SUBSET (good \ (IF flowControlNegotiated THEN windows ELSE {})) ELSE {good}) :
            /\ params' = Applied(offer, tags)
            /\ hasReceivedMaxIncomingDynamicStreams' = (hasReceivedMaxIncomingDynamicStreams \/ "MIDS" \in tags)
            /\ flowControlNegotiated' = (flowControlNegotiated \/ (~rejected /\ windows # {}))
            /\ crypto' = IF rejected THEN "fails" ELSE "signal"

-----------------------------------------------------------------------------
(* The crypto goroutine *)

isInchoateCHLO(c) == ~({"SCID", "PUBS", "STK"} \subseteq c.ok)

\* handleInchoateCHLO has an answer: for a valid token it needs a certificate, in
\* Sign and GetCertsCompressed.  That the source of randomness fails is left out.
handleInchoateCHLO(c) == "size" \in c.ok /\ ("STK" \in c.ok => "cert" \in c.ok)

\* HandleCryptoStream reads a CHLO; handleMessage checks it, and answers an
\* inchoate one.  handleCHLO computes the shared key before it takes the mutex.
ReadsHello ==
    /\ crypto = "read"
    /\ \E c \in cryptoStream :
          /\ chlo' = c
          /\ crypto' = IF {"SNI", "VER"} \ c.ok # {} THEN "fails"
                       ELSE IF isInchoateCHLO(c) THEN (IF handleInchoateCHLO(c) THEN "write" ELSE "fails")
                       ELSE IF "key" \in c.ok THEN "lock" ELSE "fails"
    /\ cryptoStream' = {}
    /\ UNCHANGED <<notCrypto, aead, managed, writing, aeadChanged, closeChan>>

\* Read fails once the session is closed.
ReadFails ==
    /\ crypto = "read" /\ cryptoStream = {} /\ closeChan # "open"
    /\ crypto' = "fails"
    /\ UNCHANGED <<notCrypto, aead, managed, chlo, cryptoStream, writing, aeadChanged, closeChan>>

\* handleCHLO: h.mutex.Lock.
Locks ==
    /\ crypto = "lock" /\ ~RLocked
    /\ crypto' = "derive"
    /\ UNCHANGED <<notCrypto, aead, managed, chlo, cryptoStream, writing, aeadChanged, closeChan>>

\* Both keys are derived with the mutex held: nobody sees one without the other.
Derives ==
    /\ crypto = "derive"
    /\ IF {"cert", "NONC", "AEAD", "KEXS"} \subseteq chlo.ok
       THEN aead' = {"secure", "forward"} /\ crypto' = "parameters"
       ELSE crypto' = "fails" /\ UNCHANGED aead
    /\ UNCHANGED <<notCrypto, managed, chlo, cryptoStream, writing, aeadChanged, closeChan>>

SetsParameters ==
    /\ crypto = "parameters"
    /\ SetFromMap(chlo.offer)
    /\ UNCHANGED <<notCrypto, aead, chlo, cryptoStream, writing, aeadChanged, closeChan>>

\* aeadChanged <- struct{}{}, still with the mutex, that the return unlocks.
BugSignals ==
    /\ crypto = "signal" /\ loop = "select"
    /\ aeadChanged' = 1 /\ crypto' = "write"
    /\ UNCHANGED <<notCrypto, aead, managed, chlo, cryptoStream, writing, closeChan>>
Signals ==
    /\ crypto = "signal" /\ aeadChanged = 0
    /\ aeadChanged' = 1 /\ crypto' = "write"
    /\ UNCHANGED <<notCrypto, aead, managed, chlo, cryptoStream, writing, closeChan>>

\* handleMessage writes the reply, and waits until it is sent.
WritesReply ==
    /\ crypto = "write"
    /\ IF closeChan # "open" THEN crypto' = "fails" /\ UNCHANGED writing
       ELSE /\ crypto' = "written"
            /\ writing' = {IF isInchoateCHLO(chlo) THEN REJ(chlo) ELSE GetSHLOMap}
    /\ UNCHANGED <<notCrypto, aead, managed, chlo, cryptoStream, aeadChanged, closeChan>>

BugWriteReturns ==
    /\ crypto = "written" /\ writing = {}
    /\ crypto' = IF isInchoateCHLO(chlo) THEN "read" ELSE "done"
    /\ UNCHANGED <<notCrypto, aead, managed, chlo, cryptoStream, writing, aeadChanged, closeChan>>
WriteReturns ==
    /\ crypto = "written" /\ (writing = {} \/ closeChan # "open")
    /\ crypto' = IF closeChan # "open" THEN "fails" ELSE IF isInchoateCHLO(chlo) THEN "read" ELSE "done"
    /\ UNCHANGED <<notCrypto, aead, managed, chlo, cryptoStream, writing, aeadChanged, closeChan>>

\* run: s.Close(err) in the goroutine, that waits for the loop if it is first.
Fails ==
    /\ crypto = "fails"
    /\ closeChan' = IF closeChan = "open" THEN "error" ELSE closeChan
    /\ crypto' = IF closeChan = "open" THEN "closing" ELSE "done"
    /\ UNCHANGED <<notCrypto, aead, managed, chlo, cryptoStream, writing, aeadChanged>>

CloseReturns ==
    /\ crypto = "closing" /\ loop = "ended"
    /\ crypto' = "done"
    /\ UNCHANGED <<notCrypto, aead, managed, chlo, cryptoStream, writing, aeadChanged, closeChan>>

CryptoStep ==
    ReadsHello \/ ReadFails \/ Locks \/ Derives \/ SetsParameters \/ Signals \/ WritesReply
    \/ WriteReturns \/ Fails \/ CloseReturns

-----------------------------------------------------------------------------
(* The run loop *)

\* Where the loop goes from its top: closeChan comes before the other events.
Top(chan) == CASE chan = "open" -> "select" [] chan = "error" -> "packClose" [] chan = "silent" -> "ended"

LoopTakesClose ==
    /\ loop = "select" /\ closeChan # "open"
    /\ loop' = Top(closeChan)
    /\ UNCHANGED <<notLoop, work>>

TakesPacket ==
    /\ loop = "select"
    /\ \E p \in toServer : packet' = p /\ toServer' = toServer \ {p}
    /\ loop' = "open"
    /\ UNCHANGED <<notLoop, received, streams, writing, aeadChanged, nonce, queues, toClient>>

\* Unpack, and handleFrames: a CHLO is passed to the crypto stream once.
OpensPacket ==
    /\ loop = "open" /\ ~Locked /\ Opens(packet.level)
    /\ received' = received \cup ({packet.level} \ {"null"})
    /\ IF packet.type = "CHLO" /\ packet.hello.n > heard
       THEN cryptoStream' = {packet.hello} /\ heard' = packet.hello.n
       ELSE UNCHANGED streams
    /\ packet' = NoPacket /\ loop' = "pack"
    /\ UNCHANGED <<notLoop, writing, aeadChanged, nonce, queues, toServer, toClient>>

\* tryQueueingUndecryptablePacket.
QueuesPacket ==
    /\ loop = "open" /\ ~Locked /\ ~Opens(packet.level)
    /\ IF HandshakeComplete THEN UNCHANGED <<undecryptablePackets, closeChan>>
       ELSE /\ undecryptablePackets' = undecryptablePackets \cup {packet}
            /\ closeChan' = IF Cardinality(undecryptablePackets) + 1 >= MaxUndecryptable /\ closeChan = "open"
                            THEN "silent" ELSE closeChan
    /\ packet' = NoPacket /\ loop' = Top(closeChan')
    /\ UNCHANGED <<notLoop, received, streams, writing, aeadChanged, nonce, lost, toServer, toClient>>

\* tryDecryptingQueuedPackets.
TakesAeadChanged ==
    /\ loop = "select" /\ aeadChanged = 1
    /\ aeadChanged' = 0 /\ toServer' = toServer \cup undecryptablePackets /\ undecryptablePackets' = {}
    /\ loop' = "pack"
    /\ UNCHANGED <<notLoop, received, streams, writing, packet, nonce, lost, closeChan, toClient>>

\* The timer, or sending was scheduled.
Wakes ==
    /\ loop = "select" /\ writing \cup lost # {}
    /\ loop' = "pack"
    /\ UNCHANGED <<notLoop, work>>

NothingToSend ==
    /\ loop = "pack" /\ writing \cup lost = {}
    /\ loop' = Top(closeChan)
    /\ UNCHANGED <<notLoop, work>>

\* packPacket: LockForSealing and DiversificationNonce.
Packs ==
    /\ loop \in {"pack", "packClose"} /\ ~Locked /\ (loop = "pack" => writing \cup lost # {})
    /\ nonce' = DiversificationNonce /\ loop' = IF loop = "pack" THEN "seal" ELSE "sealClose"
    /\ UNCHANGED <<notLoop, received, streams, writing, aeadChanged, packet, queues, toServer, toClient>>

\* Frames to be sent again come first; the packet is sealed and sent.
Seals ==
    /\ loop = "seal"
    /\ \E f \in (IF lost # {} THEN lost ELSE writing) :
          /\ toClient' = toClient \cup {[level |-> SealLevel, nonce |-> nonce, frame |-> f]}
          /\ lost' = lost \ {f}
          /\ writing' = IF lost # {} THEN writing ELSE {}
    /\ nonce' = FALSE /\ loop' = "pack"
    /\ UNCHANGED <<notLoop, received, streams, aeadChanged, packet, undecryptablePackets, closeChan, toServer>>

SealsClose ==
    /\ loop = "sealClose"
    /\ toClient' = toClient \cup {[level |-> SealLevel, nonce |-> nonce, frame |-> CONNECTION_CLOSE]}
    /\ nonce' = FALSE /\ loop' = "ended"
    /\ UNCHANGED <<notLoop, received, streams, writing, aeadChanged, packet, queues, toServer>>

LoopStep ==
    LoopTakesClose \/ TakesPacket \/ OpensPacket \/ QueuesPacket \/ TakesAeadChanged \/ Wakes
    \/ NothingToSend \/ Packs \/ Seals \/ SealsClose

-----------------------------------------------------------------------------
(* The client and the network *)

server == <<setup, managed, handler, streams, writing, aeadChanged, runLoop, closeChan>>
BestKey == CHOOSE l \in clientKeys : \A k \in clientKeys : Rank(k) <= Rank(l)

\* A CHLO is not encrypted.  A client that has a token and the server config uses
\* them; once it has seen the proof of the config it also sends a public key, and
\* has the secure key then.
ClientSendsHello ==
    /\ ~waiting /\ shlo = {} /\ hellos < MaxHellos
    /\ \E c \in Hellos :
          /\ c.ok \cap {"SCID", "STK", "PUBS"} = clientHas
          /\ clientHello' = [ok |-> c.ok, offer |-> c.offer, n |-> hellos + 1]
          /\ clientKeys' = IF isInchoateCHLO(c) THEN clientKeys ELSE clientKeys \cup {"secure"}
    /\ toServer' = toServer \cup {[level |-> "null", type |-> "CHLO", hello |-> clientHello', copy |-> 0]}
    /\ waiting' = TRUE /\ hellos' = hellos + 1
    /\ UNCHANGED <<server, lost, toClient, losses, clientHas, shlo, clientSent>>

ClientSendsData ==
    /\ BestKey # "null" /\ BestKey \notin clientSent
    /\ clientSent' = clientSent \cup {BestKey}
    /\ toServer' = toServer \cup {[level |-> BestKey, type |-> "DATA", hello |-> NoHello, copy |-> 0]}
    /\ UNCHANGED <<server, lost, toClient, losses, clientHas, clientKeys, clientHello, hellos, waiting, shlo>>

ClientReceives ==
    /\ \E p \in toClient :
          LET rej   == p.frame.type = "REJ" /\ p.frame.n = hellos
              final == p.frame.type = "SHLO"
          IN  /\ toClient' = toClient \ {p}
              /\ IF p.level \notin clientKeys THEN UNCHANGED <<clientHas, clientKeys, waiting, shlo>>
                 ELSE /\ clientHas' = clientHas \cup (IF ~rej THEN {} ELSE {"SCID", "STK"} \cup (IF p.frame.proof THEN {"PUBS"} ELSE {}))
                      /\ waiting' = (waiting /\ ~rej /\ ~final)
                      /\ shlo' = IF final THEN {p.frame} ELSE shlo
                      /\ clientKeys' = IF final THEN clientKeys \cup {"forward"} ELSE clientKeys
    /\ UNCHANGED <<server, lost, toServer, losses, clientHello, hellos, clientSent>>

\* What is lost after the run loop has ended makes no difference.
CanLose == losses < MaxLosses /\ loop # "ended"

\* A packet is lost, or so late that its frames are sent again.
LosesToClient ==
    /\ CanLose /\ losses' = losses + 1
    /\ \E p \in toClient :
          /\ toClient' \in {toClient, toClient \ {p}}
          /\ lost' = IF p.frame = CONNECTION_CLOSE THEN lost ELSE lost \cup {p.frame}
    /\ UNCHANGED <<server, toServer, client>>

\* The client sends a CHLO again as it was, and data with its best key.  A packet
\* that is sent again as it was is the same as a late one, and any may be late.
LosesToServer ==
    /\ CanLose /\ losses' = losses + 1
    /\ \E p \in toServer :
          /\ p.type = "DATA" /\ p.level # BestKey
          /\ toServer' = (toServer \ {p}) \cup
                         {[level |-> BestKey, type |-> "DATA", hello |-> NoHello, copy |-> 1]}
    /\ UNCHANGED <<server, lost, toClient, client>>

\* The client has seen no answer to its CHLO.  Of a packet, at most two copies are
\* on their way.
ClientSendsHelloAgain ==
    /\ CanLose /\ losses' = losses + 1 /\ waiting
    /\ toServer' = toServer \cup {[level |-> "null", type |-> "CHLO", hello |-> clientHello, copy |-> 1]}
    /\ UNCHANGED <<server, lost, toClient, client>>

\* The application or the server closes the session.
Closes ==
    /\ closeChan = "open" /\ closeChan' = "error"
    /\ UNCHANGED <<setup, managed, handler, streams, writing, aeadChanged, runLoop, lost, network, client>>

ClientStep == ClientSendsHello \/ ClientSendsData \/ ClientReceives

Next ==
    CryptoStep \/ LoopStep \/ ClientStep \/ LosesToClient \/ LosesToServer \/ ClientSendsHelloAgain \/ Closes

Spec ==
    /\ Init /\ [][Next]_vars
    /\ WF_vars(CryptoStep) /\ WF_vars(LoopStep) /\ WF_vars(ClientStep)

-----------------------------------------------------------------------------
(* Properties *)

\* The client has the key of every packet that the server sends, whatever was
\* lost or reordered: Seal uses a new key only when the client has shown that
\* it has the key.  A packet has a diversification nonce if and only if it is
\* sealed with the secure key, which the client cannot derive without: the keys
\* do not change between DiversificationNonce and Seal.
ClientCanOpen == \A p \in toClient : p.level \in clientKeys /\ (p.nonce <=> p.level = "secure")

\* When the client has the SHLO, both sides use the same parameters, the
\* server keeps to what the client offered and allows what it announced.  The
\* handshake is not complete before that.  Once the run loop has opened an
\* encrypted packet, whose frames open streams with the send windows and limits of
\* the client and whose idle timeout may be the negotiated one, it finds every
\* parameter of the CHLO set (unless the CHLO was rejected): the keys and the
\* parameters come under one mutex.
ParametersAgreed ==
    /\ HandshakeComplete => shlo # {}
    /\ received # {} /\ closeChan = "open" /\ crypto # "fails" =>
          \A t \in DOMAIN chlo.offer : params[t] = Negotiated(t, chlo.offer[t])
    /\ \A s \in shlo :
          LET offer == clientHello.offer
              streamTags == (IF version > 34 /\ "MIDS" \in DOMAIN offer THEN {"MIDS"} ELSE {"MSPC"}) \cap DOMAIN offer
          IN  /\ params["ICSL"] = s.ICSL /\ s.ICSL <= Limit["ICSL"]
              /\ "ICSL" \in DOMAIN offer => s.ICSL <= offer["ICSL"]
              /\ \A t \in streamTags : GetMaxOutgoingStreams <= offer[t]
              /\ \A n \in IF version > 34 THEN s.MIDS ELSE {s.MSPC} : n <= GetMaxIncomingStreams
              /\ \A t \in {"SFCW", "CFCW"} \cap DOMAIN offer : params[t] = offer[t]

\* The handshake completes, or the session is closed, although the goroutine
\* signals aeadChanged with the mutex held that the run loop needs.
HandshakeCompletes == <>(HandshakeComplete \/ closeChan # "open")

\* When the session is closed, by whomever, the crypto goroutine ends.
CryptoGoroutineEnds == closeChan # "open" ~> crypto = "done"
=============================================================================
