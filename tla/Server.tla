------------------------------- MODULE Server -------------------------------
(***************************************************************************)
(* The server in front of a session: the goroutine of Serve, which routes  *)
(* the packets of one connection, the map of sessions with its mutex, and  *)
(* Server.Close, which is one of the callers of Session.Close.  Module     *)
(* Session models what happens once a session runs; here it is composed    *)
(* with its beginning, and its closeCallback takes effect.                 *)
(*                                                                         *)
(* A packet is abstracted to what routing depends on: it has no version    *)
(* flag, or it offers a version that is supported or one that is not.  A   *)
(* critical section is one step, so that the mutex would be held between   *)
(* two steps only by code that keeps it while it waits.                    *)
(***************************************************************************)
EXTENDS Session

CONSTANTS
    ServerCloser,                  \* the caller of Session.Close that is Server.Close
    MaxEvents                      \* bound of the model: packets for the session, and calls
                                   \* of Session.Close by others than the server

ASSUME ServerAssumption == ServerCloser \in Callers

VARIABLES
    serve,                         \* where Serve is: at "read", at "insert" or at "deliver"
                                   \* in handlePacket, or "returned"
    entry,                         \* sessions[id]: "absent", "session", or "nil"
    mutexHeld,                     \* sessionsMutex is locked
    serverClose,                   \* where Server.Close is
    connOpen,
    answer                         \* what handlePacket last did about a packet that it did
                                   \* not route to a session

serverVars == <<serve, entry, mutexHeld, serverClose, connOpen, answer>>
allVars == <<vars, serverVars>>

\* Serve reads from an open connection; no session exists.
ServerInit ==
    /\ Init
    /\ serve = "read" /\ entry = "absent" /\ mutexHeld = FALSE
    /\ serverClose = "out" /\ connOpen = TRUE
    /\ answer = "none"

OtherCallers == Callers \ {ServerCloser}
EventsLeft == packets + Cardinality({c \in OtherCallers : callers[c] # "out"}) < MaxEvents

\* The session's goroutine has been started.
Started == answer = "session"

-----------------------------------------------------------------------------
(* Serve and handlePacket *)

\* What handlePacket does about a packet of a connection without a session:
\* newSession may fail, and then nothing is kept.
Unknown(version) ==
    CASE version = "unsupported" -> {"VersionNegotiation"}
      [] version = "none" -> {"PublicReset"}
      [] version = "supported" -> {"session", "none"}

\* A packet for which the map has no entry.  The new session runs before it is
\* in the map.
AnswersPacket(version) ==
    /\ serve = "read" /\ ~mutexHeld
    /\ entry = "absent"
    /\ answer' \in Unknown(version)
    /\ serve' = IF answer' = "session" THEN "insert" ELSE "read"
    /\ UNCHANGED <<vars, entry, mutexHeld, serverClose, connOpen>>

InsertsSession ==
    /\ serve = "insert" /\ ~mutexHeld
    /\ entry' = "session"
    /\ serve' = "deliver"
    /\ UNCHANGED <<vars, mutexHeld, serverClose, connOpen, answer>>

\* Back to ReadFromUDP, which fails once the connection is closed: then Serve
\* returns.
Reads == IF connOpen THEN "read" ELSE "returned"

LoopLeft == pc \in {"ending", "reporting", "ended"}

\* The packet that opened the connection, or a later one, is handed to the
\* session.  A packet with an entry that is nil, or with an old version, is
\* dropped, which changes nothing.
DeliversPacket(kind) ==
    /\ EventsLeft
    /\ \/ serve = "deliver" /\ ~LoopLeft /\ Arrives(kind)
       \/ serve = "read" /\ ~mutexHeld /\ entry = "session" /\ PacketArrives(kind)
    /\ serve' = Reads
    /\ UNCHANGED <<entry, mutexHeld, serverClose, connOpen, answer>>

\* Nobody reads the channel of a session whose loop has been left.
DeliversInVain ==
    /\ serve = "deliver" /\ LoopLeft
    /\ serve' = Reads
    /\ UNCHANGED <<vars, entry, mutexHeld, serverClose, connOpen, answer>>

-----------------------------------------------------------------------------
(* The end of a session *)

BugCloseCallback ==
    /\ ~mutexHeld
    /\ CallsBack
    /\ entry' = "absent"
    /\ UNCHANGED <<serve, mutexHeld, serverClose, connOpen, answer>>
closeCallback ==
    /\ ~mutexHeld
    /\ CallsBack
    /\ entry' = "nil"
    /\ UNCHANGED <<serve, mutexHeld, serverClose, connOpen, answer>>

-----------------------------------------------------------------------------
(* Server.Close *)

\* Close ranges over the map.  For a session it releases the mutex and goes on
\* to close it; nil is skipped.
BugClosesServer ==
    /\ serverClose = "out" /\ ~mutexHeld
    /\ serverClose' = IF entry = "session" THEN "session" ELSE "conn"
    /\ mutexHeld' = (entry = "session")
    /\ UNCHANGED <<vars, serve, entry, connOpen, answer>>
ClosesServer ==
    /\ serverClose = "out" /\ ~mutexHeld
    /\ serverClose' = IF entry = "session" THEN "session" ELSE "conn"
    /\ mutexHeld' = FALSE
    /\ UNCHANGED <<vars, serve, entry, connOpen, answer>>

\* Session.Close(nil) is called, and returns; the mutex is taken again, the map
\* has no other entry, and the mutex is released.
ClosesSession ==
    /\ serverClose = "session"
    /\ CloseCall(ServerCloser)
    /\ UNCHANGED serverVars
SessionClosed ==
    /\ serverClose = "session" /\ callers[ServerCloser] = "returned"
    /\ ~mutexHeld
    /\ serverClose' = "conn"
    /\ UNCHANGED <<vars, serve, entry, mutexHeld, connOpen, answer>>

ClosesConn ==
    /\ serverClose = "conn"
    /\ connOpen' = FALSE
    /\ serve' = IF serve = "read" THEN "returned" ELSE serve
    /\ serverClose' = "returned"
    /\ UNCHANGED <<vars, entry, mutexHeld, answer>>

-----------------------------------------------------------------------------
ServeStep == InsertsSession \/ DeliversInVain \/ \E kind \in Kinds : DeliversPacket(kind)

ServerCloseStep == ClosesSession \/ SessionClosed \/ ClosesConn

\* The steps of a session that has been started, by its loop and by others.
LoopStep ==
    /\ Started
    /\ \/ (Running \/ LoopEnds) /\ UNCHANGED serverVars
       \/ closeCallback
CallerStep(c) == Closing(c) /\ UNCHANGED serverVars
OtherStep ==
    /\ Started
    /\ \/ KeysDerived \/ Tick
       \/ \E id \in StreamIDs : OpenStream(id)
       \/ EventsLeft /\ \E c \in OtherCallers : CloseCall(c)
    /\ UNCHANGED serverVars

ServerNext ==
    \/ \E version \in {"none", "supported", "unsupported"} : AnswersPacket(version)
    \/ ServeStep
    \/ ClosesServer \/ ServerCloseStep
    \/ LoopStep
    \/ \E c \in Callers : CallerStep(c)
    \/ OtherStep

\* The goroutines run: the loop, the callers of Session.Close, Server.Close,
\* and Serve as far as it depends on no further packet.
ServerSpec ==
    /\ ServerInit /\ [][ServerNext]_allVars
    /\ WF_allVars(LoopStep) /\ \A c \in Callers : WF_allVars(CallerStep(c))
    /\ WF_allVars(ServerCloseStep) /\ WF_allVars(ServeStep)

-----------------------------------------------------------------------------
(* Properties *)

\* Once a connection has a session, its packets go to that session or are
\* dropped: no packet, however late, and whether the session runs, is closing
\* or has ended, is answered with a public reset or a version negotiation, or
\* opens a second session.
OneSessionPerConnection == [][Started => answer' = answer /\ serve' # "insert"]_<<answer, serve>>

\* Server.Close returns, and so does Serve, also when the session that Close is
\* closing ends by itself, or is closed by others, at that moment.
ServerCloses == serverClose # "out" ~> serverClose = "returned" /\ serve = "returned"
=============================================================================
