------------------------- MODULE FlowControlProofs -------------------------
(***************************************************************************)
(* Proofs about FlowControl for any streams, windows and bounds, and about *)
(* its composition with a peer.                                            *)
(***************************************************************************)
EXTENDS FlowControlPeer, SetLemmas

\* The inductive invariant: credit is bounded by the increment and, unless a
\* violation was reported, nothing is received beyond the window.
CreditInv ==
    /\ TypeOK
    /\ \A c \in Controllers :
          /\ window[c] <= bytesRead[c] + increment[c]
          /\ ~violation => highestReceived[c] <= window[c]

LEMMA MinOfTwo ==
    ASSUME NEW a \in Nat, NEW b \in Nat
    PROVE  Min({a, b}) \in {a, b} /\ Min({a, b}) <= a /\ Min({a, b}) <= b
<1>1. \E x \in {a, b} : \A y \in {a, b} : x <= y
    OBVIOUS
<1> QED BY <1>1 DEF Min

\* The increment only grows, up to its maximum.
LEMMA AdjustedGrows ==
    ASSUME TypeOK, NEW c \in Controllers, NEW fast
    PROVE  /\ Adjusted(c, fast) \in Nat
           /\ increment[c] <= Adjusted(c, fast) /\ Adjusted(c, fast) <= MaxIncrement[c]
<1>1. increment[c] \in Nat /\ MaxIncrement[c] \in Nat /\ increment[c] <= MaxIncrement[c]
    BY WindowAssumption DEF TypeOK, increment
<1>2. CASE fast /\ c \in updated
    <2>1. Adjusted(c, fast) = Min({2 * increment[c], MaxIncrement[c]})
        BY <1>2 DEF Adjusted
    <2>2. 2 * increment[c] \in Nat /\ increment[c] <= 2 * increment[c]
        BY <1>1
    <2> QED BY <1>1, <2>1, <2>2, MinOfTwo
<1>3. CASE ~(fast /\ c \in updated)
    BY <1>1, <1>3 DEF Adjusted
<1> QED BY <1>2, <1>3

LEMMA CreditInit == Init => CreditInv
<1> SUFFICES ASSUME Init PROVE CreditInv
    OBVIOUS
<1>1. bytesRead \in [Controllers -> Nat] /\ highestReceived \in [Controllers -> Nat]
    BY DEF Init
<1>2. /\ receiveFlowControlWindow \in [Controllers -> Nat]
      /\ receiveFlowControlWindowIncrement \in [Controllers -> Nat]
      /\ \A c \in Controllers : 2 <= increment[c] /\ increment[c] <= MaxIncrement[c]
    BY WindowAssumption DEF Init, increment
<1>3. live = {} /\ removed = {} /\ updated = {} /\ violation \in BOOLEAN
    BY Zenon DEF Init
<1>4. TypeOK
    BY <1>1, <1>2, <1>3, Zenon DEF TypeOK
<1>5. \A c \in Controllers : window[c] <= bytesRead[c] + increment[c] /\ highestReceived[c] <= window[c]
    BY WindowAssumption DEF Init, window, increment
<1> QED BY <1>4, <1>5, Zenon DEF CreditInv

\* What GetWindowUpdates does to one controller.
LEMMA UpdateOne ==
    ASSUME CreditInv, NEW fast \in SUBSET updated, GetWindowUpdates(fast), NEW c \in Controllers
    PROVE  /\ window[c]' \in Nat /\ window[c] <= window[c]' /\ window[c]' <= bytesRead[c] + increment[c]'
           /\ increment[c]' \in Nat /\ increment[c] <= increment[c]' /\ increment[c]' <= MaxIncrement[c]
<1> DEFINE due == {k \in live \cup {0} : NeedsUpdate(k)}
           fastC == c \in fast
<1>1. /\ receiveFlowControlWindowIncrement'[c] = IF c \in due THEN Adjusted(c, fastC) ELSE increment[c]
      /\ receiveFlowControlWindow'[c] =
            IF c \in due THEN bytesRead[c] + receiveFlowControlWindowIncrement'[c] ELSE window[c]
    BY DEF GetWindowUpdates, NewWindow, increment
<1>2. /\ window[c] \in Nat /\ increment[c] \in Nat /\ bytesRead[c] \in Nat
      /\ increment[c] <= MaxIncrement[c] /\ 2 <= increment[c] /\ window[c] <= bytesRead[c] + increment[c]
      /\ MaxIncrement[c] \in Nat
    BY WindowAssumption DEF CreditInv, TypeOK, window, increment
<1>3. /\ Adjusted(c, fastC) \in Nat
      /\ increment[c] <= Adjusted(c, fastC) /\ Adjusted(c, fastC) <= MaxIncrement[c]
    BY AdjustedGrows DEF CreditInv
<1>4. CASE c \in due
    <2>1. window[c] - bytesRead[c] < increment[c] \div 2
        BY <1>4 DEF NeedsUpdate
    <2>2. increment[c] \div 2 <= increment[c] /\ increment[c] \div 2 \in Nat
        BY <1>2
    <2>3. window[c] < bytesRead[c] + increment[c]
        BY <1>2, <2>1, <2>2
    <2> HIDE DEF due, fastC
    <2> QED BY <1>1, <1>2, <1>3, <1>4, <2>3 DEF window, increment
<1>5. CASE c \notin due
    <2> HIDE DEF due, fastC
    <2> QED BY <1>1, <1>2, <1>5 DEF window, increment
<1> QED BY <1>4, <1>5

LEMMA CreditNext == CreditInv /\ [Next]_vars => CreditInv'
<1> SUFFICES ASSUME CreditInv, [Next]_vars PROVE CreditInv'
    OBVIOUS
<1> USE DEF window, increment
<1>1. ASSUME NEW id \in Streams, NewStream(id) PROVE CreditInv'
    BY <1>1 DEF NewStream, CreditInv, TypeOK
<1>2. ASSUME NEW id \in Streams, RemoveStream(id) PROVE CreditInv'
    BY <1>2 DEF RemoveStream, CreditInv, TypeOK
<1>3. ASSUME NEW id \in Streams, NEW byteOffset \in 0 .. MaxBytes,
             UpdateHighestReceived(id, byteOffset)
      PROVE  CreditInv'
    <2> DEFINE inc == IncrementOf(id, byteOffset)
               charged == IF highestReceived[id] + inc > window[id] THEN {id} ELSE Charged(id)
    <2>1. id \in Controllers /\ byteOffset \in Nat /\ highestReceived \in [Controllers -> Nat]
        BY WindowAssumption DEF CreditInv, TypeOK, Controllers
    <2>2. inc \in Nat
        BY <2>1 DEF IncrementOf
    <2>3. /\ highestReceived' = [c \in Controllers |->
                IF c \in charged THEN highestReceived[c] + inc ELSE highestReceived[c]]
          /\ violation' = (highestReceived[id] + inc > window[id] \/ \E c \in charged : highestReceived'[c] > window[c])
          /\ ~violation
          /\ UNCHANGED <<live, removed, bytesRead, receiveFlowControlWindow,
                         receiveFlowControlWindowIncrement, updated>>
        BY <1>3 DEF UpdateHighestReceived
    <2> HIDE DEF inc, charged
    <2>4. highestReceived' \in [Controllers -> Nat] /\ violation' \in BOOLEAN
        BY <2>1, <2>2, <2>3
    <2>5. TypeOK'
        BY <2>3, <2>4 DEF CreditInv, TypeOK
    <2>6. ASSUME ~violation', NEW c \in Controllers PROVE highestReceived'[c] <= window[c]
        <3>1. CASE c \in charged
            <4>1. ~(highestReceived'[c] > window[c])
                BY <2>3, <2>6, <3>1, Zenon
            <4>2. highestReceived'[c] \in Nat /\ window[c] \in Nat
                BY <2>4 DEF CreditInv, TypeOK
            <4> QED BY <4>1, <4>2
        <3>2. CASE c \notin charged
            BY <2>1, <2>3, <3>2 DEF CreditInv
        <3> QED BY <3>1, <3>2
    <2> QED BY <2>3, <2>5, <2>6 DEF CreditInv
<1>4. ASSUME NEW id \in Streams, NEW n \in 1 .. MaxBytes, AddBytesRead(id, n) PROVE CreditInv'
    <2>1. n \in Nat
        BY WindowAssumption
    <2>2. /\ bytesRead' = [c \in Controllers |-> IF c \in Charged(id) THEN bytesRead[c] + n ELSE bytesRead[c]]
          /\ UNCHANGED <<live, removed, highestReceived, receiveFlowControlWindow,
                         receiveFlowControlWindowIncrement, updated, violation>>
        BY <1>4 DEF AddBytesRead
    <2>3. bytesRead' \in [Controllers -> Nat] /\ \A c \in Controllers : bytesRead[c] <= bytesRead'[c]
        BY <2>1, <2>2 DEF CreditInv, TypeOK
    <2>4. TypeOK'
        BY <2>2, <2>3 DEF CreditInv, TypeOK
    <2>5. \A c \in Controllers : window[c]' <= bytesRead'[c] + increment[c]'
        BY <2>2, <2>3 DEF CreditInv, TypeOK
    <2> QED BY <2>2, <2>4, <2>5 DEF CreditInv
<1>5. ASSUME NEW fast \in SUBSET updated, GetWindowUpdates(fast) PROVE CreditInv'
    <2>1. \A c \in Controllers :
            /\ window[c]' \in Nat /\ window[c] <= window[c]' /\ window[c]' <= bytesRead[c] + increment[c]'
            /\ increment[c]' \in Nat /\ increment[c] <= increment[c]' /\ increment[c]' <= MaxIncrement[c]
        BY <1>5, UpdateOne
    <2>2. UNCHANGED <<live, removed, bytesRead, highestReceived, violation>>
        BY <1>5 DEF GetWindowUpdates
    <2>3. /\ receiveFlowControlWindow' \in [Controllers -> Nat]
          /\ receiveFlowControlWindowIncrement' \in [Controllers -> Nat]
        <3>1. \E f, g : /\ receiveFlowControlWindow' = [c \in Controllers |-> f[c]]
                        /\ receiveFlowControlWindowIncrement' = [c \in Controllers |-> g[c]]
            BY <1>5 DEF GetWindowUpdates
        <3> QED BY <2>1, <3>1
    <2>4. updated' \subseteq Controllers
        BY <1>5 DEF GetWindowUpdates, CreditInv, TypeOK, Controllers
    <2>5. TypeOK'
        <3>1. \A c \in Controllers : 2 <= increment[c]' /\ increment[c]' <= MaxIncrement[c]
            BY <2>1 DEF CreditInv, TypeOK
        <3> QED BY <2>2, <2>3, <2>4, <3>1 DEF CreditInv, TypeOK
    <2>6. \A c \in Controllers : ~violation' => highestReceived'[c] <= window[c]'
        BY <2>1, <2>2 DEF CreditInv, TypeOK
    <2> QED BY <2>1, <2>2, <2>5, <2>6 DEF CreditInv
<1>6. CASE UNCHANGED vars
    BY <1>6 DEF vars, CreditInv, TypeOK
<1> QED BY <1>1, <1>2, <1>3, <1>4, <1>5, <1>6 DEF Next

\* The inductive invariant of the receiving side of flow control.
THEOREM CreditInvariant == Spec => []CreditInv
BY CreditInit, CreditNext, PTL DEF Spec

\* Counters keep their types and increments their limits.
THEOREM FlowControlTypeOK == Spec => []TypeOK
<1>1. CreditInv => TypeOK
    BY DEF CreditInv
<1> QED BY <1>1, CreditInvariant, PTL

\* The peer can never make the server buffer more than the maximum increment,
\* on a stream or on the connection.
THEOREM BufferingIsBounded == Spec => []CreditBounded
<1>1. CreditInv => CreditBounded
    BY WindowAssumption DEF CreditInv, CreditBounded, TypeOK, window, increment
<1> QED BY <1>1, CreditInvariant, PTL

LEMMA CreditStep ==
    CreditInv /\ [Next]_vars =>
        \A c \in Controllers : window[c] <= window'[c] /\ increment[c] <= increment'[c]
<1> DEFINE Grow == \A c \in Controllers : window[c] <= window'[c] /\ increment[c] <= increment'[c]
<1> SUFFICES ASSUME CreditInv, [Next]_vars PROVE Grow
    OBVIOUS
<1>1. CASE UNCHANGED <<receiveFlowControlWindow, receiveFlowControlWindowIncrement>>
    BY <1>1 DEF CreditInv, TypeOK, window, increment
<1>2. ASSUME NEW fast \in SUBSET updated, GetWindowUpdates(fast) PROVE Grow
    BY <1>2, UpdateOne
<1> QED BY <1>1, <1>2 DEF Next, vars, NewStream, RemoveStream, UpdateHighestReceived, AddBytesRead

\* No announced window is ever taken back.
THEOREM WindowsGrow == Spec => WindowsNeverShrink
BY CreditStep, CreditInvariant, PTL DEF Spec, WindowsNeverShrink

-----------------------------------------------------------------------------
(* The connection's counters *)

Contributing == Streams \ NonContributing

LEMMA SumOverIsSum ==
    /\ IsFiniteSet(Contributing) /\ 0 \notin Contributing /\ Contributing \subseteq Controllers
    /\ \A f : SumOver(f) = Sum(f, Contributing)
<1>1. IsFiniteSet(Contributing)
    BY WindowAssumption, FS_Difference DEF Contributing
<1>2. ASSUME NEW f PROVE SumOver(f) = Sum(f, Contributing)
    BY Zenon DEF SumOver, Sum, Contributing
<1> QED BY <1>1, <1>2, WindowAssumption DEF Contributing, Controllers

\* The connection has received and read what its streams have.  After a
\* violation the connection may not have been charged.
SumInv ==
    /\ CreditInv
    /\ bytesRead[0] = SumOver(bytesRead)
    /\ ~violation => highestReceived[0] = SumOver(highestReceived)

\* Charging a stream and the connection keeps the connection's counter the sum.
LEMMA ChargingKeepsSum ==
    ASSUME NEW f \in [Controllers -> Nat], NEW g, NEW id \in Streams, NEW d \in Nat,
           g = [c \in Controllers |-> IF c \in Charged(id) THEN f[c] + d ELSE f[c]],
           f[0] = SumOver(f)
    PROVE  g[0] = SumOver(g)
<1> DEFINE S == Contributing
<1>1. IsFiniteSet(S) /\ 0 \notin S /\ S \subseteq Controllers /\ 0 \in Controllers
      /\ SumOver(f) = Sum(f, S) /\ SumOver(g) = Sum(g, S)
    BY SumOverIsSum DEF Controllers
<1>2. 0 \in Charged(id) <=> id \in S
    BY WindowAssumption DEF Charged, Contributing
<1>3. /\ \A x \in S : f[x] \in Int /\ g[x] \in Int
      /\ \A x \in S \ {id} : g[x] = f[x]
      /\ g[id] - f[id] = d
    BY <1>1, WindowAssumption DEF Charged, Controllers
<1> HIDE DEF S
<1>4. CASE id \in S
    <2>1. Sum(g, S) = Sum(f, S) + (g[id] - f[id])
        BY <1>1, <1>3, <1>4, SumIncreased
    <2> QED BY <1>1, <1>2, <1>3, <1>4, <2>1
<1>5. CASE id \notin S
    <2>1. \A x \in S : f[x] \in Int /\ f[x] = g[x]
        BY <1>3, <1>5
    <2>2. Sum(f, S) = Sum(g, S)
        BY <1>1, <2>1, SumOfEqual
    <2> QED BY <1>1, <1>2, <1>5, <2>2
<1> QED BY <1>4, <1>5

LEMMA SumInit == Init => SumInv
<1> SUFFICES ASSUME Init PROVE SumInv
    OBVIOUS
<1> DEFINE zero == [c \in Controllers |-> 0]
<1>1. Sum(zero, Contributing) = 0
    <2>1. IsFiniteSet(Contributing) /\ \A y \in Contributing : zero[y] = 0
        BY SumOverIsSum DEF Controllers, Contributing
    <2> HIDE DEF zero
    <2> QED BY <2>1, SumOfZeros
<1>2. bytesRead = zero /\ highestReceived = zero /\ zero[0] = 0
    BY DEF Init, Controllers
<1> HIDE DEF zero
<1> QED BY <1>1, <1>2, CreditInit, SumOverIsSum DEF SumInv

LEMMA SumNext == SumInv /\ [Next]_vars => SumInv'
<1> SUFFICES ASSUME SumInv, [Next]_vars PROVE SumInv'
    OBVIOUS
<1>1. CreditInv' /\ TypeOK
    BY CreditNext DEF SumInv, CreditInv
<1> DEFINE Same == UNCHANGED <<bytesRead, highestReceived, violation>>
<1>2. CASE Same
    BY <1>1, <1>2 DEF SumInv
<1>3. ASSUME NEW id \in Streams, NEW byteOffset \in 0 .. MaxBytes,
             UpdateHighestReceived(id, byteOffset)
      PROVE  SumInv'
    <2> DEFINE inc == IncrementOf(id, byteOffset)
               tooMuch == highestReceived[id] + inc > window[id]
    <2>1. inc \in Nat
        BY <1>1, WindowAssumption DEF IncrementOf, TypeOK, Controllers
    <2>2. ~violation /\ UNCHANGED bytesRead
        BY <1>3 DEF UpdateHighestReceived
    <2>3. CASE tooMuch
        <3>1. violation'
            BY <1>3, <2>3 DEF UpdateHighestReceived
        <3> QED BY <1>1, <2>2, <3>1 DEF SumInv
    <2>4. CASE ~tooMuch
        <3>1. highestReceived' = [c \in Controllers |->
                 IF c \in Charged(id) THEN highestReceived[c] + inc ELSE highestReceived[c]]
            BY <1>3, <2>4 DEF UpdateHighestReceived
        <3>2. highestReceived'[0] = SumOver(highestReceived')
            <4>1. highestReceived \in [Controllers -> Nat] /\ highestReceived[0] = SumOver(highestReceived)
                BY <1>1, <2>2 DEF SumInv, TypeOK
            <4> HIDE DEF inc, tooMuch
            <4> QED BY <2>1, <3>1, <4>1, ChargingKeepsSum
        <3>3. SumOver(highestReceived)' = SumOver(highestReceived') /\ SumOver(bytesRead)' = SumOver(bytesRead)
            BY <2>2
        <3> QED BY <1>1, <2>2, <3>2, <3>3 DEF SumInv
    <2> QED BY <2>3, <2>4
<1>4. ASSUME NEW id \in Streams, NEW n \in 1 .. MaxBytes, AddBytesRead(id, n) PROVE SumInv'
    <2>1. n \in Nat
        BY WindowAssumption
    <2>2. /\ bytesRead' = [c \in Controllers |-> IF c \in Charged(id) THEN bytesRead[c] + n ELSE bytesRead[c]]
          /\ UNCHANGED <<highestReceived, violation>>
        BY <1>4 DEF AddBytesRead
    <2>3. bytesRead'[0] = SumOver(bytesRead')
        <3>1. bytesRead \in [Controllers -> Nat] /\ bytesRead[0] = SumOver(bytesRead)
            BY <1>1 DEF SumInv, TypeOK
        <3> QED BY <2>1, <2>2, <3>1, ChargingKeepsSum
    <2>4. SumOver(bytesRead)' = SumOver(bytesRead') /\ SumOver(highestReceived)' = SumOver(highestReceived)
        BY <2>2
    <2> QED BY <1>1, <2>2, <2>3, <2>4 DEF SumInv
<1> QED BY <1>2, <1>3, <1>4 DEF Next, vars, NewStream, RemoveStream, GetWindowUpdates

\* The connection's counters are the sums of the streams' counters, whatever
\* streams there are and however their frames and reads interleave.
THEOREM ConnectionCountsStreams == Spec => []ConnectionIsSum
<1>1. SumInv => ConnectionIsSum
    BY DEF SumInv, ConnectionIsSum
<1> QED BY <1>1, SumInit, SumNext, PTL DEF Spec

-----------------------------------------------------------------------------
(* The peer *)

\* What the peer has sent covers what was received, the windows it knows of
\* were announced, and an honest peer is within them.
PeerInv ==
    /\ SumInv
    /\ honest \in BOOLEAN
    /\ peerSent \in [Streams -> Nat] /\ \A id \in Streams : peerSent[id] <= Total[id]
    /\ peerWindow \in [Controllers -> Nat] /\ \A c \in Controllers : peerWindow[c] <= window[c]
    /\ \A id \in Streams : highestReceived[id] <= peerSent[id]
    /\ honest => /\ ~violation
                 /\ \A id \in Streams : peerSent[id] <= peerWindow[id]
                 /\ SumOver(peerSent) <= peerWindow[0]

\* Every step with the peer is a step of the flow controllers, or leaves them alone.
LEMMA PeerStep == PeerInv /\ [PeerNext]_peerVars => [Next]_vars
<1> SUFFICES ASSUME PeerInv, [PeerNext]_peerVars PROVE [Next]_vars
    OBVIOUS
<1>1. \A id \in Streams : 0 .. peerSent[id] \subseteq 0 .. MaxBytes
    BY PeerAssumption, WindowAssumption DEF PeerInv
<1>2. ASSUME NEW id \in Streams, Arrives(id) PROVE Next
    BY <1>1, <1>2 DEF Arrives, Next
<1> QED BY <1>2 DEF PeerNext, peerVars, PeerSends, PeerLearns, Opens, Reads, Updates, Finishes, Next

\* Below the sum of what the peer has sent while it is below on each stream.
LEMMA SumIsBelow ==
    ASSUME NEW f, NEW g, \A id \in Streams : f[id] \in Nat /\ g[id] \in Nat /\ f[id] <= g[id]
    PROVE  SumOver(f) \in Int /\ SumOver(g) \in Int /\ SumOver(f) <= SumOver(g)
<1> DEFINE S == Contributing
<1>1. IsFiniteSet(S) /\ SumOver(f) = Sum(f, S) /\ SumOver(g) = Sum(g, S)
    BY SumOverIsSum
<1>2. \A id \in S : f[id] \in Int /\ g[id] \in Int /\ f[id] <= g[id]
    BY DEF Contributing
<1> HIDE DEF S
<1>3. Sum(f, S) <= Sum(g, S)
    BY <1>1, <1>2, SumIsMonotone
<1>4. Sum(f, S) \in Int /\ Sum(g, S) \in Int
    BY <1>1, <1>2, SumIsInt
<1> QED BY <1>1, <1>3, <1>4

LEMMA PeerInvInit == PeerInit => PeerInv
<1> SUFFICES ASSUME PeerInit PROVE PeerInv
    OBVIOUS
<1>1. SumInv /\ Init
    BY SumInit DEF PeerInit
<1>2. \A id \in Streams : peerSent[id] \in Nat /\ highestReceived[id] \in Nat /\ peerSent[id] <= highestReceived[id]
    BY DEF PeerInit, Init, Controllers
<1>3. SumOver(peerSent) <= SumOver(highestReceived) /\ SumOver(peerSent) \in Int
    BY <1>2, SumIsBelow
<1>4. SumOver(highestReceived) = 0
    <2>1. ~violation /\ highestReceived[0] = 0
        BY <1>1 DEF Init, Controllers
    <2> QED BY <1>1, <2>1 DEF SumInv
<1>5. SumOver(peerSent) <= peerWindow[0]
    BY <1>3, <1>4, WindowAssumption DEF PeerInit, Controllers
<1> QED BY <1>1, <1>2, <1>5, WindowAssumption, PeerAssumption DEF PeerInv, PeerInit, Init, Controllers, window

LEMMA PeerSendsKeeps == PeerInv /\ (\E id \in Streams : PeerSends(id)) => PeerInv'
<1> SUFFICES ASSUME PeerInv, NEW id \in Streams, PeerSends(id) PROVE PeerInv'
    OBVIOUS
<1>1. SumInv' /\ UNCHANGED <<vars, honest, peerWindow>>
    <2>1. UNCHANGED vars
        BY DEF PeerSends
    <2> QED BY <2>1, SumNext DEF PeerInv, PeerSends
<1>2. /\ peerSent \in [Streams -> Nat]
      /\ peerSent' = [peerSent EXCEPT ![id] = peerSent[id] + 1]
      /\ peerSent' \in [Streams -> Nat]
      /\ \A i \in Streams : peerSent'[i] <= Total[i] /\ peerSent[i] <= peerSent'[i]
    <2>1. \A i \in Streams : Total[i] \in Nat
        BY PeerAssumption, WindowAssumption
    <2>2. /\ peerSent \in [Streams -> Nat] /\ \A i \in Streams : peerSent[i] <= Total[i]
          /\ peerSent' = [peerSent EXCEPT ![id] = peerSent[id] + 1]
          /\ peerSent[id] < Total[id]
        BY DEF PeerInv, PeerSends
    <2> QED BY <2>1, <2>2
<1>3. honest => /\ \A i \in Streams : peerSent'[i] <= peerWindow[i]
                /\ SumOver(peerSent') <= peerWindow[0]
    <2> SUFFICES ASSUME honest PROVE SumOver(peerSent') <= peerWindow[0]
        BY <1>2 DEF PeerInv, PeerSends, Controllers
    <2> DEFINE S == Contributing
    <2>1. IsFiniteSet(S) /\ SumOver(peerSent) = Sum(peerSent, S) /\ SumOver(peerSent') = Sum(peerSent', S)
        BY SumOverIsSum
    <2>2. \A x \in S : peerSent[x] \in Int /\ peerSent'[x] \in Int
        BY <1>2 DEF Contributing
    <2>3. \A x \in S \ {id} : peerSent'[x] = peerSent[x]
        BY <1>2 DEF Contributing
    <2>4. SumOver(peerSent) <= peerWindow[0] /\ peerWindow[0] \in Nat /\ peerSent'[id] - peerSent[id] = 1
        BY <1>2 DEF PeerInv, Controllers
    <2>5. id \in S => SumOver(peerSent) < peerWindow[0]
        BY DEF PeerSends, Contributing
    <2> HIDE DEF S
    <2>6. Sum(peerSent, S) \in Int
        BY <2>1, <2>2, SumIsInt
    <2>7. CASE id \in S
        <3>1. Sum(peerSent', S) = Sum(peerSent, S) + (peerSent'[id] - peerSent[id])
            BY <2>1, <2>2, <2>3, <2>7, SumIncreased
        <3> QED BY <2>1, <2>4, <2>5, <2>6, <2>7, <3>1
    <2>8. CASE id \notin S
        <3>1. \A x \in S : peerSent[x] \in Int /\ peerSent[x] = peerSent'[x]
            BY <2>2, <2>3, <2>8
        <3>2. Sum(peerSent, S) = Sum(peerSent', S)
            BY <2>1, <3>1, SumOfEqual
        <3> QED BY <2>1, <2>4, <3>2
    <2> QED BY <2>7, <2>8
<1>4. /\ \A c \in Controllers : peerWindow'[c] <= window'[c]
      /\ \A i \in Streams : highestReceived'[i] <= peerSent'[i]
      /\ violation' = violation
    <2>1. \A i \in Streams : highestReceived[i] \in Nat
        BY DEF PeerInv, SumInv, CreditInv, TypeOK, Controllers
    <2> QED BY <1>1, <1>2, <2>1 DEF PeerInv, vars, window
<1> QED BY <1>1, <1>2, <1>3, <1>4 DEF PeerInv

LEMMA ArrivesKeeps == PeerInv /\ (\E id \in Streams : Arrives(id)) => PeerInv'
<1> SUFFICES ASSUME PeerInv, NEW id \in Streams, NEW byteOffset \in 0 .. peerSent[id],
                    UpdateHighestReceived(id, byteOffset), UNCHANGED <<honest, peerSent, peerWindow>>
             PROVE  PeerInv'
    BY DEF Arrives
<1>1. TypeOK /\ peerSent \in [Streams -> Nat] /\ peerWindow \in [Controllers -> Nat]
      /\ id \in Controllers /\ 0 \in Controllers /\ Streams \subseteq Controllers
    BY DEF PeerInv, SumInv, CreditInv, Controllers
<1>2. SumInv'
    <2>1. byteOffset \in 0 .. MaxBytes
        BY <1>1, PeerAssumption, WindowAssumption DEF PeerInv
    <2> QED BY <2>1, SumNext DEF PeerInv, Next
<1> DEFINE inc == IncrementOf(id, byteOffset)
           tooMuch == highestReceived[id] + inc > window[id]
           charged == IF tooMuch THEN {id} ELSE Charged(id)
<1>3. /\ inc \in Nat
      /\ highestReceived[id] + inc <= peerSent[id]
      /\ byteOffset <= highestReceived[id] + inc
    BY <1>1 DEF IncrementOf, TypeOK, PeerInv
<1>4. /\ ~violation
      /\ highestReceived' = [c \in Controllers |->
              IF c \in charged THEN highestReceived[c] + inc ELSE highestReceived[c]]
      /\ violation' = (tooMuch \/ \E c \in charged : highestReceived'[c] > window[c])
      /\ UNCHANGED receiveFlowControlWindow
    BY DEF UpdateHighestReceived
<1>5. \A i \in Streams : highestReceived'[i] <= peerSent[i]
    <2> SUFFICES ASSUME NEW i \in Streams PROVE highestReceived'[i] <= peerSent[i]
        OBVIOUS
    <2>1. i \in charged => i = id
        BY WindowAssumption DEF Charged
    <2> HIDE DEF inc, charged
    <2> QED BY <1>1, <1>3, <1>4, <2>1 DEF PeerInv, TypeOK
<1>6. ASSUME honest PROVE ~violation'
    <2>1. ~tooMuch
        <3> HIDE DEF inc
        <3>1. peerSent[id] <= peerWindow[id] /\ peerWindow[id] <= window[id]
            BY <1>1, <1>6 DEF PeerInv
        <3> QED BY <1>1, <1>3, <3>1 DEF TypeOK, window
    <2>2. highestReceived' = [c \in Controllers |->
              IF c \in Charged(id) THEN highestReceived[c] + inc ELSE highestReceived[c]]
        BY <1>4, <2>1
    <2>3. highestReceived'[0] = SumOver(highestReceived')
        <3>1. highestReceived \in [Controllers -> Nat] /\ highestReceived[0] = SumOver(highestReceived)
            BY <1>1, <1>4 DEF PeerInv, SumInv, TypeOK
        <3> HIDE DEF inc, tooMuch, charged
        <3> QED BY <1>3, <2>2, <3>1, ChargingKeepsSum
    <2>4. SumOver(highestReceived') <= SumOver(peerSent) /\ SumOver(highestReceived') \in Int
          /\ SumOver(peerSent) \in Int
        <3>1. \A i \in Streams : highestReceived'[i] \in Nat /\ peerSent[i] \in Nat
            BY <1>1, <1>2 DEF SumInv, CreditInv, TypeOK
        <3> QED BY <1>5, <3>1, SumIsBelow
    <2>5. highestReceived'[0] <= window[0]
        BY <1>1, <1>6, <2>3, <2>4 DEF PeerInv, TypeOK, window
    <2>6. highestReceived'[id] <= window[id]
        <3> HIDE DEF inc
        <3> QED BY <1>1, <1>3, <2>1, <2>2 DEF TypeOK, window, Charged
    <2>7. \A c \in charged : c = id \/ c = 0
        BY DEF Charged
    <2>8. \A c \in Controllers : highestReceived'[c] \in Int /\ window[c] \in Int
        BY <1>1, <1>2 DEF SumInv, CreditInv, TypeOK, window
    <2> HIDE DEF tooMuch, charged
    <2>9. ~ \E c \in charged : highestReceived'[c] > window[c]
        BY <1>1, <2>5, <2>6, <2>7, <2>8
    <2> QED BY <1>4, <2>1, <2>9
<1>7. UNCHANGED window /\ SumOver(peerSent)' = SumOver(peerSent)
    BY <1>4 DEF window
<1> QED BY <1>1, <1>2, <1>5, <1>6, <1>7 DEF PeerInv

LEMMA PeerInvNext == PeerInv /\ [PeerNext]_peerVars => PeerInv'
<1> SUFFICES ASSUME PeerInv, [PeerNext]_peerVars PROVE PeerInv'
    OBVIOUS
<1>1. SumInv' /\ [Next]_vars
    BY PeerStep, SumNext DEF PeerInv
<1>2. TypeOK /\ TypeOK' /\ peerWindow \in [Controllers -> Nat]
    BY <1>1 DEF PeerInv, SumInv, CreditInv
<1>3. \A c \in Controllers : window[c] <= window'[c]
    BY <1>1, CreditStep DEF PeerInv, SumInv
<1>4. CASE UNCHANGED <<highestReceived, violation, honest, peerSent, peerWindow>>
    <2>1. SumOver(peerSent)' = SumOver(peerSent)
        BY <1>4
    <2>2. \A c \in Controllers : peerWindow'[c] <= window'[c]
        BY <1>2, <1>3, <1>4 DEF PeerInv, TypeOK, window
    <2> QED BY <1>1, <1>4, <2>1, <2>2 DEF PeerInv
<1>5. ASSUME NEW c \in Controllers, PeerLearns(c) PROVE PeerInv'
    <2>1. peerWindow' = [peerWindow EXCEPT ![c] = window[c]] /\ UNCHANGED <<vars, honest, peerSent>>
        BY <1>5 DEF PeerLearns
    <2>2. UNCHANGED <<window, highestReceived, violation>> /\ SumOver(peerSent)' = SumOver(peerSent)
        BY <2>1 DEF vars, window
    <2>3. /\ peerWindow' \in [Controllers -> Nat]
          /\ \A d \in Controllers : peerWindow'[d] <= window[d] /\ peerWindow[d] <= peerWindow'[d]
        BY <1>2, <2>1 DEF TypeOK, window, PeerInv
    <2>4. honest => /\ \A id \in Streams : peerSent[id] <= peerWindow'[id]
                    /\ SumOver(peerSent) <= peerWindow'[0]
        <3>1. \A id \in Streams : peerSent[id] \in Nat
            BY DEF PeerInv
        <3>2. SumOver(peerSent) \in Int
            BY <3>1, SumIsBelow
        <3> QED BY <1>2, <2>3, <3>1, <3>2 DEF PeerInv, Controllers
    <2> QED BY <1>1, <2>1, <2>2, <2>3, <2>4 DEF PeerInv
<1> QED BY <1>4, <1>5, PeerSendsKeeps, ArrivesKeeps
       DEF PeerNext, peerVars, vars, Opens, Reads, Updates, Finishes,
           NewStream, AddBytesRead, GetWindowUpdates, RemoveStream

\* A peer that keeps to the windows it was told of, however late, is never
\* accused of a violation by UpdateHighestReceived.
THEOREM HonestPeersPass == PeerSpec => []HonestPeerIsAccepted
<1>1. PeerInv => HonestPeerIsAccepted
    BY DEF PeerInv, HonestPeerIsAccepted
<1> QED BY <1>1, PeerInvInit, PeerInvNext, PTL DEF PeerSpec

\* With the peer, the flow controllers still behave as they do for arbitrary
\* frames: what is proved of Spec holds of PeerSpec.
THEOREM PeerRefinesFlowControl == PeerSpec => Spec
<1>1. PeerInit => Init
    BY DEF PeerInit
<1> QED BY <1>1, PeerInvInit, PeerInvNext, PeerStep, PTL DEF PeerSpec, Spec

=============================================================================
