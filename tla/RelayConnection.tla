--------------------------- MODULE RelayConnection ---------------------------
(***************************************************************************)
(* The life of a connection in SignalWire::Relay::Client: connect(),       *)
(* authenticate(), run() with its auto-reconnect, disconnect(), and the    *)
(* session state (protocol, authorization_state) that survives from one    *)
(* connection to the next.                                                 *)
(*                                                                         *)
(* The only request in this module is signalwire.connect; how a request    *)
(* waits, and what nested waits do, is RelayRpc.  Frames are handled one   *)
(* by one, and neither authenticate() nor run() looks at its own loop      *)
(* condition before every frame of a chunk has been handled.               *)
(***************************************************************************)
EXTENDS Naturals, Sequences

CONSTANTS MaxAttempts,   \* _max_reconnect_attempts (10 in the code)
          MaxConnects,   \* bound: TCP connections the host accepts
          MaxPushes,     \* bound: frames the server sends unasked
          MaxSessions    \* bound: sessions the server creates

ASSUME ConnectionBounds == MaxAttempts \in Nat /\ MaxConnects \in Nat
                           /\ MaxPushes \in Nat /\ MaxSessions \in Nat

VARIABLES
  pc,          \* "main" user code, "auth" authenticate(), "run" run()'s loops
  by,          \* who called authenticate(): "connect" or "run"
  connected,   \* $self->connected
  closing,     \* $self->_closing
  attempts,    \* $self->_reconnect_attempts
  protocol,    \* $self->protocol, 0 when empty, else a session's number
  authState,   \* $self->authorization_state, 0 when empty
  reply,       \* the closures of the connect request: 0 none yet, a session,
               \* or "refused" / "dropped"
  link,        \* the socket: "none", "up", "eof"
  wire, frames,\* sent and unread frames, read and unhandled frames
  inbox,       \* the connect request the server holds, or NoRequest
  sessions,    \* sessions the server has created
  pushes, connects, reachable,
  request,     \* history: the last connect request, and what it owed
  owed,        \* history: the session last accepted and not ended by a restart
  failures,    \* history: consecutive reconnects of run() that failed
  torndown     \* history: disconnect_ws was called on this connection

clientVars  == <<pc, by, connected, closing, attempts, protocol, authState, reply>>
serverVars  == <<sessions, pushes, reachable>>
historyVars == <<request, owed, failures, torndown>>
vars == <<clientVars, link, wire, frames, inbox, connects, serverVars, historyVars>>

NoRequest == [protocol |-> 0, auth |-> 0, owed |-> 0]
SessionIds == 1..MaxSessions
Frames == [kind : {"accept", "auth"}, session : SessionIds]
          \cup [kind : {"refuse", "leave", "restart"}]

TypeOK ==
  /\ pc \in {"main", "auth", "run"} /\ by \in {"connect", "run"}
  /\ connected \in BOOLEAN /\ closing \in BOOLEAN
  /\ attempts \in 0..MaxAttempts
  /\ protocol \in 0..MaxSessions /\ authState \in 0..MaxSessions
  /\ reply \in [settled : {"none", "refused", "dropped"}]
               \cup [settled : {"accepted"}, session : SessionIds]
  /\ link \in {"none", "up", "eof"}
  /\ wire \in Seq(Frames) /\ frames \in Seq(Frames)
  /\ inbox \in BOOLEAN
  /\ sessions \in 0..MaxSessions /\ pushes \in 0..MaxPushes
  /\ connects \in 0..MaxConnects /\ reachable \in BOOLEAN
  /\ request \in [protocol : 0..MaxSessions, auth : 0..MaxSessions, owed : 0..MaxSessions]
  /\ owed \in 0..MaxSessions /\ failures \in 0..(MaxAttempts + 1)
  /\ torndown \in BOOLEAN

Unsettled == [settled |-> "none"]

Init ==
  /\ pc = "main" /\ by = "connect"
  /\ connected = FALSE /\ closing = FALSE
  /\ attempts = 0 /\ protocol = 0 /\ authState = 0
  /\ reply = Unsettled
  /\ link = "none" /\ wire = <<>> /\ frames = <<>> /\ inbox = FALSE
  /\ sessions = 0 /\ pushes = 0 /\ connects = 0 /\ reachable = TRUE
  /\ request = NoRequest /\ owed = 0 /\ failures = 0 /\ torndown = FALSE

-----------------------------------------------------------------------------
(* Opening a connection.                                                   *)

(* connect_ws reaches the host: fresh socket and frame buffer, connected,  *)
(* and the attempt counter starts again, all before authentication.        *)
SocketOpened ==
  /\ reachable /\ connects < MaxConnects
  /\ connects' = connects + 1
  /\ link' = "up" /\ wire' = <<>> /\ frames' = <<>>
  /\ connected' = TRUE /\ attempts' = 0
  /\ torndown' = FALSE

(* authenticate() sends signalwire.connect with the session it remembers   *)
(* and waits.                                                              *)
SendConnect(caller) ==
  /\ request' = [protocol |-> protocol, auth |-> authState, owed |-> owed]
  /\ inbox' = TRUE
  /\ reply' = Unsettled
  /\ pc' = "auth" /\ by' = caller

(* The main program calls connect(); it dies when the host is unreachable, *)
(* which leaves everything as it was.                                      *)
Connect ==
  /\ pc = "main" /\ ~connected
  /\ SocketOpened
  /\ SendConnect("connect")
  /\ UNCHANGED <<closing, protocol, authState, serverVars, owed, failures>>

-----------------------------------------------------------------------------
(* Reading.  authenticate() and run() both pump the socket.                *)

Pumping == /\ connected /\ link # "none" /\ frames = <<>>
           /\ pc = "run" \/ (pc = "auth" /\ reply = Unsettled)

ReadChunk ==
  /\ Pumping /\ wire # <<>>
  /\ \E n \in 1..Len(wire) : /\ frames' = SubSeq(wire, 1, n)
                             /\ wire' = SubSeq(wire, n + 1, Len(wire))
  /\ UNCHANGED <<clientVars, link, inbox, connects, serverVars, historyVars>>

(* Rejecting the pending requests: a connect request that is already       *)
(* settled is no longer in the table.                                      *)
DropPending == reply' = IF pc = "auth" /\ reply = Unsettled
                        THEN [settled |-> "dropped"] ELSE reply

ReadEof ==
  /\ Pumping /\ wire = <<>> /\ link = "eof"
  /\ connected' = FALSE
  /\ DropPending
  /\ UNCHANGED <<pc, by, closing, attempts, protocol, authState, link, wire, frames,
                 inbox, connects, serverVars, historyVars>>

NextFrame(kind) == /\ frames # <<>> /\ Head(frames).kind = kind
                   /\ frames' = Tail(frames)

(* The answer to signalwire.connect settles the request, if authenticate() *)
(* still waits for it and no rejection came first; else it is ignored.     *)
HandleAnswer ==
  /\ NextFrame("accept") \/ NextFrame("refuse")
  /\ IF pc # "auth" \/ reply # Unsettled THEN UNCHANGED <<reply, owed>>
     ELSE \/ /\ Head(frames).kind = "accept"
             /\ reply' = [settled |-> "accepted", session |-> Head(frames).session]
             /\ owed' = Head(frames).session
          \/ /\ Head(frames).kind = "refuse"
             /\ reply' = [settled |-> "refused"] /\ UNCHANGED owed
  /\ UNCHANGED <<pc, by, connected, closing, attempts, protocol, authState, link,
                 wire, inbox, connects, serverVars, request, failures, torndown>>

(* Mutant of TearDown: the intent to close is not recorded.                *)
TearDownForgetsClosing ==
  /\ UNCHANGED closing /\ connected' = FALSE
  /\ DropPending
  /\ link' = "none" /\ wire' = <<>> /\ inbox' = FALSE
  /\ torndown' = TRUE

(* What disconnect_ws does, from user code or from a callback. *)
TearDown ==
  /\ closing' = TRUE /\ connected' = FALSE
  /\ DropPending
  /\ link' = "none" /\ wire' = <<>> /\ inbox' = FALSE
  /\ torndown' = TRUE

(* An event: on_event may call disconnect(), then authorization_state is   *)
(* stored.                                                                 *)
HandleAuthState ==
  /\ NextFrame("auth")
  /\ authState' = Head(frames).session
  /\ \/ TearDown
     \/ UNCHANGED <<closing, connected, reply, link, wire, inbox, torndown>>
  /\ UNCHANGED <<pc, by, attempts, protocol, connects, serverVars, request, owed,
                 failures>>

(* Mutant of HandleDisconnect: the restart flag is not looked at.          *)
HandleDisconnectClears ==
  /\ \/ NextFrame("leave") /\ UNCHANGED owed
     \/ NextFrame("restart") /\ owed' = 0
  /\ protocol' = 0 /\ authState' = 0
  /\ connected' = FALSE
  /\ UNCHANGED <<pc, by, closing, attempts, reply, link, wire, inbox, connects,
                 serverVars, request, failures, torndown>>

(* signalwire.disconnect with or without restart. *)
HandleDisconnect ==
  /\ \/ NextFrame("leave") /\ UNCHANGED <<protocol, authState, owed>>
     \/ NextFrame("restart") /\ protocol' = 0 /\ authState' = 0 /\ owed' = 0
  /\ connected' = FALSE
  /\ UNCHANGED <<pc, by, closing, attempts, reply, link, wire, inbox, connects,
                 serverVars, request, failures, torndown>>

-----------------------------------------------------------------------------
(* authenticate() returns or dies.                                         *)

Failed == failures' = IF failures > MaxAttempts THEN failures ELSE failures + 1

(* connect() returns or dies to the main program; reconnect() returns or   *)
(* dies to run(), which counts a success only if it is still connected.    *)
AuthLeave(ok) ==
  /\ pc' = IF by = "connect" THEN "main" ELSE "run"
  /\ IF by = "run" /\ ok /\ connected
     THEN attempts' = 0 /\ failures' = 0
     ELSE /\ UNCHANGED attempts
          /\ IF by = "run" THEN Failed ELSE UNCHANGED failures
  /\ UNCHANGED <<by, connected, closing, authState, reply, link, wire, frames, inbox,
                 connects, serverVars, request, owed, torndown>>

AuthSucceeds ==
  /\ pc = "auth" /\ frames = <<>> /\ reply.settled = "accepted"
  /\ protocol' = reply.session
  /\ AuthLeave(TRUE)

(* Refused, dropped, or connected() went false without a rejection.        *)
AuthFails ==
  /\ pc = "auth" /\ frames = <<>> /\ reply.settled # "accepted"
  /\ reply # Unsettled \/ ~connected
  /\ UNCHANGED protocol
  /\ AuthLeave(FALSE)

AuthTimeout ==
  /\ pc = "auth" /\ frames = <<>> /\ reply = Unsettled /\ connected
  /\ UNCHANGED protocol
  /\ AuthLeave(FALSE)

-----------------------------------------------------------------------------
(* run().                                                                  *)

RunStart ==
  /\ pc = "main" /\ pc' = "run"
  /\ UNCHANGED <<by, connected, closing, attempts, protocol, authState, reply, link,
                 wire, frames, inbox, connects, serverVars, historyVars>>

(* The inner loop has ended. *)
Lost == pc = "run" /\ frames = <<>> /\ ~connected

(* Mutant of RunStop: gives up one attempt early. *)
RunStopEarly ==
  /\ Lost /\ (closing \/ attempts + 1 >= MaxAttempts)
  /\ pc' = "main"
  /\ UNCHANGED <<by, connected, closing, attempts, protocol, authState, reply, link,
                 wire, frames, inbox, connects, serverVars, historyVars>>

RunStop ==
  /\ Lost /\ (closing \/ attempts >= MaxAttempts)
  /\ pc' = "main"
  /\ UNCHANGED <<by, connected, closing, attempts, protocol, authState, reply, link,
                 wire, frames, inbox, connects, serverVars, historyVars>>

(* Mutant of ReconnectFails: the attempt is not counted. *)
ReconnectFailsUncounted ==
  /\ Lost /\ ~closing /\ attempts < MaxAttempts
  /\ Failed
  /\ UNCHANGED <<clientVars, link, wire, frames, inbox, connects, serverVars, request,
                 owed, torndown>>

(* reconnect(): sleep, count the attempt, and fail to reach the host ...   *)
ReconnectFails ==
  /\ Lost /\ ~closing /\ attempts < MaxAttempts
  /\ attempts' = attempts + 1
  /\ Failed
  /\ UNCHANGED <<pc, by, connected, closing, protocol, authState, reply, link, wire,
                 frames, inbox, connects, serverVars, request, owed, torndown>>

(* ... or reach it, which clears the count, and authenticate again.        *)
ReconnectReaches ==
  /\ Lost /\ ~closing /\ attempts < MaxAttempts
  /\ SocketOpened
  /\ SendConnect("run")
  /\ UNCHANGED <<closing, protocol, authState, serverVars, owed, failures>>

(* disconnect() by the main program. *)
Disconnect ==
  /\ pc = "main"
  /\ TearDown
  /\ UNCHANGED <<pc, by, attempts, protocol, authState, frames, connects, serverVars,
                 request, owed, failures>>

-----------------------------------------------------------------------------
(* The RELAY server and the network (not under src/).                      *)

Send(f) == link = "up" /\ wire' = Append(wire, f)

(* A known session is resumed or replaced; no session, a new one.          *)
ServerAnswers ==
  /\ inbox /\ inbox' = FALSE
  /\ \/ /\ request.protocol # 0
        /\ Send([kind |-> "accept", session |-> request.protocol])
        /\ UNCHANGED sessions
     \/ /\ sessions < MaxSessions /\ sessions' = sessions + 1
        /\ Send([kind |-> "accept", session |-> sessions + 1])
     \/ Send([kind |-> "refuse"]) /\ UNCHANGED sessions
  /\ UNCHANGED <<clientVars, link, frames, connects, pushes, reachable, historyVars>>

ServerPushes ==
  /\ pushes < MaxPushes /\ pushes' = pushes + 1
  /\ \/ sessions > 0 /\ Send([kind |-> "auth", session |-> sessions])
     \/ \E kind \in {"leave", "restart"} : Send([kind |-> kind])
  /\ UNCHANGED <<clientVars, link, frames, inbox, connects, sessions, reachable,
                 historyVars>>

ServerCloses ==
  /\ link = "up" /\ link' = "eof" /\ inbox' = FALSE
  /\ UNCHANGED <<clientVars, wire, frames, connects, serverVars, historyVars>>

(* The host goes away for good. *)
HostGone ==
  /\ reachable /\ reachable' = FALSE
  /\ UNCHANGED <<clientVars, link, wire, frames, inbox, connects, sessions, pushes,
                 historyVars>>

-----------------------------------------------------------------------------
Handle == HandleAnswer \/ HandleAuthState \/ HandleDisconnect
AuthReturn == AuthSucceeds \/ AuthFails \/ AuthTimeout
RunStep == RunStop \/ ReconnectFails \/ ReconnectReaches

Next == \/ Connect \/ RunStart \/ Disconnect
        \/ ReadChunk \/ ReadEof \/ Handle
        \/ AuthReturn \/ RunStep
        \/ ServerAnswers \/ ServerPushes \/ ServerCloses \/ HostGone

(* The thread keeps going: frames are handled, data and EOF are noticed by *)
(* whoever pumps, authenticate() has a deadline, run() goes round.  The    *)
(* server and the network owe nothing.                                     *)
Fairness == /\ WF_vars(Handle) /\ WF_vars(ReadChunk \/ ReadEof)
            /\ WF_vars(AuthReturn) /\ WF_vars(RunStep)

Spec == Init /\ [][Next]_vars /\ Fairness

-----------------------------------------------------------------------------
(* A session the client has accepted is resumed by the next                *)
(* signalwire.connect, unless the server asked for a restart meanwhile: no *)
(* drop, refusal or timeout of an attempt in between loses it.             *)
ResumesSession == request.owed # 0 => request.protocol = request.owed
ConnectionInv == TypeOK /\ ResumesSession

\* What makes it so: the session owed is the one remembered, or is about
\* to be when authenticate() goes on.
SessionKept ==
  owed # 0 => owed = IF pc = "auth" /\ reply.settled = "accepted" THEN reply.session
                                                                 ELSE protocol
AttemptsFailed == attempts <= failures
TornDownCloses == torndown => closing
SessionInv == ConnectionInv /\ SessionKept /\ AttemptsFailed /\ TornDownCloses

(* Once the application has called disconnect(), from a callback or while  *)
(* run() was authenticating again, run() opens no further connection.      *)
NoReconnectAfterDisconnect ==
  [][pc # "main" /\ torndown => torndown']_vars

(* run() ends by itself only when it was told to or when as many reconnects*)
(* as the cap allows have failed one after the other.                      *)
RunEndsForAReason ==
  [][pc = "run" /\ pc' = "main" => closing \/ failures >= MaxAttempts]_vars

(* After disconnect(), run() returns; and when the host has gone and the   *)
(* connection is down, run() gives up.                                     *)
DisconnectEndsRun == (torndown /\ pc # "main") ~> pc = "main"
GivesUp == (~reachable /\ pc # "main" /\ (link # "up" \/ ~connected)) ~> pc = "main"
RunEnds == DisconnectEndsRun /\ GivesUp

-----------------------------------------------------------------------------
(* What the documentation says and the code does not do.                   *)

(* client-reference.md: run is "bounded by a maximum consecutive-attempt   *)
(* cap so it never reconnects forever".                                    *)
ReconnectsAreCapped == failures <= MaxAttempts
=============================================================================
