------------------------ MODULE RelayConnectionProofs ------------------------
(***************************************************************************)
(* Proofs about RelayConnection for any number of attempts, connections,   *)
(* pushes and sessions.                                                    *)
(***************************************************************************)
EXTENDS RelayConnection, StackLemmas

USE ConnectionBounds

-----------------------------------------------------------------------------
(* Type correctness.                                                       *)

LEMMA TypeInit == Init => TypeOK
<1> SUFFICES ASSUME Init PROVE TypeOK
  OBVIOUS
<1> USE DEF Init, NoRequest, Unsettled
<1>1. wire \in Seq(Frames) /\ frames \in Seq(Frames)
  BY EmptySeq
<1>2. /\ attempts \in 0..MaxAttempts /\ protocol \in 0..MaxSessions
      /\ authState \in 0..MaxSessions /\ sessions \in 0..MaxSessions
      /\ pushes \in 0..MaxPushes /\ connects \in 0..MaxConnects
      /\ owed \in 0..MaxSessions /\ failures \in 0..(MaxAttempts + 1)
  OBVIOUS
<1>3. request \in [protocol : 0..MaxSessions, auth : 0..MaxSessions,
                   owed : 0..MaxSessions]
  OBVIOUS
<1> QED
  BY <1>1, <1>2, <1>3 DEF TypeOK

(* What an opened socket leaves.                                           *)
LEMMA OpenedType ==
  ASSUME TypeOK, SocketOpened
  PROVE  /\ connects' \in 0..MaxConnects /\ link' \in {"none", "up", "eof"}
         /\ wire' \in Seq(Frames) /\ frames' \in Seq(Frames)
         /\ connected' \in BOOLEAN /\ attempts' \in 0..MaxAttempts
         /\ torndown' \in BOOLEAN
<1>1. wire' \in Seq(Frames) /\ frames' \in Seq(Frames)
  BY EmptySeq DEF SocketOpened
<1>2. connects' \in 0..MaxConnects
  BY DEF SocketOpened, TypeOK
<1>3. attempts' \in 0..MaxAttempts
  BY DEF SocketOpened
<1> QED
  BY <1>1, <1>2, <1>3 DEF SocketOpened

LEMMA RequestType ==
  ASSUME TypeOK, NEW caller \in {"connect", "run"}, SendConnect(caller)
  PROVE  /\ request' \in [protocol : 0..MaxSessions, auth : 0..MaxSessions,
                          owed : 0..MaxSessions]
         /\ inbox' \in BOOLEAN /\ pc' = "auth" /\ by' \in {"connect", "run"}
         /\ reply' = Unsettled
  BY DEF SendConnect, TypeOK

Replies == [settled : {"none", "refused", "dropped"}]
           \cup [settled : {"accepted"}, session : SessionIds]

LEMMA DroppedType ==
  ASSUME TypeOK, DropPending
  PROVE  reply' \in Replies
<1>1. [settled |-> "dropped"] \in [settled : {"none", "refused", "dropped"}]
  OBVIOUS
<1>2. reply' = [settled |-> "dropped"] \/ reply' = reply
  BY DEF DropPending
<1>3. reply \in Replies
  BY DEF TypeOK, Replies
<1> QED
  BY <1>1, <1>2, <1>3, Zenon DEF Replies

LEMMA TornType ==
  ASSUME TypeOK, TearDown
  PROVE  /\ closing' \in BOOLEAN /\ connected' \in BOOLEAN /\ reply' \in Replies
         /\ link' \in {"none", "up", "eof"} /\ wire' \in Seq(Frames)
         /\ inbox' \in BOOLEAN /\ torndown' \in BOOLEAN
<1>1. wire' \in Seq(Frames)
  BY EmptySeq DEF TearDown
<1> QED
  BY <1>1, DroppedType DEF TearDown

(* A frame taken from the buffer carries a session the server created.     *)
LEMMA FrameTaken ==
  ASSUME TypeOK, NEW kind, NextFrame(kind)
  PROVE  /\ frames' \in Seq(Frames) /\ Head(frames) \in Frames
         /\ Head(frames).kind = kind
         /\ kind \in {"accept", "auth"} => Head(frames).session \in SessionIds
<1>1. frames' \in Seq(Frames) /\ Head(frames) \in Frames
  BY TakeType DEF NextFrame, TypeOK
<1>2. Head(frames).kind = kind
  BY DEF NextFrame
<1>3. ASSUME NEW f \in Frames, f.kind \in {"accept", "auth"}
      PROVE  f.session \in SessionIds
  BY <1>3 DEF Frames
<1> QED
  BY <1>1, <1>2, <1>3

LEMMA SentType ==
  ASSUME TypeOK, NEW f \in Frames, Send(f)
  PROVE  wire' \in Seq(Frames)
  BY AppendProperties DEF Send, TypeOK

(* Leaving authenticate(), successfully or not.                            *)
LEMMA LeftType ==
  ASSUME TypeOK, NEW ok, AuthLeave(ok), protocol' \in 0..MaxSessions
  PROVE  TypeOK'
<1>1. attempts' \in 0..MaxAttempts /\ failures' \in 0..(MaxAttempts + 1)
  BY DEF AuthLeave, Failed, TypeOK
<1>2. pc' \in {"main", "run"}
  BY DEF AuthLeave
<1> QED
  BY <1>1, <1>2 DEF AuthLeave, TypeOK, serverVars

LEMMA HandleType == TypeOK /\ Handle => TypeOK'
<1> SUFFICES ASSUME TypeOK, Handle PROVE TypeOK'
  OBVIOUS
<1>1. CASE HandleAnswer
  <2>1. frames' \in Seq(Frames)
    BY <1>1, FrameTaken DEF HandleAnswer
  <2>2. reply' \in Replies /\ owed' \in 0..MaxSessions
    <3>1. CASE UNCHANGED <<reply, owed>>
      BY <3>1 DEF TypeOK, Replies
    <3>2. CASE /\ Head(frames).kind = "accept"
               /\ reply' = [settled |-> "accepted", session |-> Head(frames).session]
               /\ owed' = Head(frames).session
      <4>1. NextFrame("accept") \/ NextFrame("refuse")
        BY <1>1 DEF HandleAnswer
      <4>2. NextFrame("accept")
        BY <3>2, <4>1 DEF NextFrame
      <4>3. Head(frames).session \in SessionIds
        BY <4>2, FrameTaken
      <4> QED
        BY <3>2, <4>3 DEF Replies, SessionIds
    <3>3. CASE reply' = [settled |-> "refused"] /\ UNCHANGED owed
      BY <3>3 DEF Replies, TypeOK
    <3> QED
      BY <1>1, <3>1, <3>2, <3>3 DEF HandleAnswer
  <2> QED
    BY <1>1, <2>1, <2>2 DEF HandleAnswer, TypeOK, Replies, serverVars
<1>2. CASE HandleAuthState
  <2>1. frames' \in Seq(Frames) /\ authState' \in 0..MaxSessions
    BY <1>2, FrameTaken DEF HandleAuthState, SessionIds
  <2>2. /\ closing' \in BOOLEAN /\ connected' \in BOOLEAN /\ reply' \in Replies
        /\ link' \in {"none", "up", "eof"} /\ wire' \in Seq(Frames)
        /\ inbox' \in BOOLEAN /\ torndown' \in BOOLEAN
    <3>1. CASE TearDown
      BY <3>1, TornType
    <3>2. CASE UNCHANGED <<closing, connected, reply, link, wire, inbox, torndown>>
      BY <3>2 DEF TypeOK, Replies
    <3> QED
      BY <1>2, <3>1, <3>2 DEF HandleAuthState
  <2> QED
    BY <1>2, <2>1, <2>2 DEF HandleAuthState, TypeOK, Replies, serverVars
<1>3. CASE HandleDisconnect
  <2>1. frames' \in Seq(Frames)
    BY <1>3, FrameTaken DEF HandleDisconnect
  <2>2. /\ protocol' \in 0..MaxSessions /\ authState' \in 0..MaxSessions
        /\ owed' \in 0..MaxSessions
    BY <1>3 DEF HandleDisconnect, TypeOK
  <2> QED
    BY <1>3, <2>1, <2>2 DEF HandleDisconnect, TypeOK, serverVars
<1> QED
  BY <1>1, <1>2, <1>3 DEF Handle

LEMMA ServerType == TypeOK /\ (ServerAnswers \/ ServerPushes) => TypeOK'
<1> SUFFICES ASSUME TypeOK, ServerAnswers \/ ServerPushes PROVE TypeOK'
  OBVIOUS
<1>1. CASE ServerAnswers
  <2>1. CASE request.protocol # 0
             /\ Send([kind |-> "accept", session |-> request.protocol])
             /\ UNCHANGED sessions
    <3>1. [kind |-> "accept", session |-> request.protocol] \in Frames
      BY <2>1 DEF Frames, TypeOK, SessionIds
    <3>2. wire' \in Seq(Frames)
      BY <2>1, <3>1, SentType
    <3> QED
      BY <1>1, <2>1, <3>2 DEF ServerAnswers, TypeOK, clientVars, historyVars
  <2>2. CASE sessions < MaxSessions /\ sessions' = sessions + 1
             /\ Send([kind |-> "accept", session |-> sessions + 1])
    <3>1. sessions' \in 0..MaxSessions
          /\ [kind |-> "accept", session |-> sessions + 1] \in Frames
      BY <2>2 DEF Frames, TypeOK, SessionIds
    <3>2. wire' \in Seq(Frames)
      BY <2>2, <3>1, SentType
    <3> QED
      BY <1>1, <3>1, <3>2 DEF ServerAnswers, TypeOK, clientVars, historyVars
  <2>3. CASE Send([kind |-> "refuse"]) /\ UNCHANGED sessions
    <3>1. [kind |-> "refuse"] \in Frames
      BY DEF Frames
    <3>2. wire' \in Seq(Frames)
      BY <2>3, <3>1, SentType
    <3> QED
      BY <1>1, <2>3, <3>2 DEF ServerAnswers, TypeOK, clientVars, historyVars
  <2> QED
    BY <1>1, <2>1, <2>2, <2>3 DEF ServerAnswers
<1>2. CASE ServerPushes
  <2>1. CASE sessions > 0 /\ Send([kind |-> "auth", session |-> sessions])
    <3>1. [kind |-> "auth", session |-> sessions] \in Frames
      BY <2>1 DEF Frames, TypeOK, SessionIds
    <3>2. wire' \in Seq(Frames)
      BY <2>1, <3>1, SentType
    <3> QED
      BY <1>2, <3>2 DEF ServerPushes, TypeOK, clientVars, historyVars
  <2>2. ASSUME NEW kind \in {"leave", "restart"}, Send([kind |-> kind]) PROVE TypeOK'
    <3>1. [kind |-> kind] \in Frames
      BY DEF Frames
    <3>2. wire' \in Seq(Frames)
      BY <2>2, <3>1, SentType
    <3> QED
      BY <1>2, <3>2 DEF ServerPushes, TypeOK, clientVars, historyVars
  <2> QED
    BY <1>2, <2>1, <2>2 DEF ServerPushes
<1> QED
  BY <1>1, <1>2

LEMMA TypeStep == TypeOK /\ [Next]_vars => TypeOK'
<1> SUFFICES ASSUME TypeOK, [Next]_vars PROVE TypeOK'
  OBVIOUS
<1>1. CASE Connect
  <2>1. SendConnect("connect") /\ SocketOpened
    BY <1>1 DEF Connect
  <2> QED
    BY <1>1, <2>1, OpenedType, RequestType DEF Connect, TypeOK, serverVars, Unsettled
<1>2. CASE RunStart
  BY <1>2 DEF RunStart, TypeOK, serverVars, historyVars
<1>3. CASE Disconnect
  BY <1>3, TornType DEF Disconnect, TypeOK, Replies, serverVars
<1>4. CASE ReadChunk
  <2>1. PICK n \in 1..Len(wire) : /\ frames' = SubSeq(wire, 1, n)
                                  /\ wire' = SubSeq(wire, n + 1, Len(wire))
    BY <1>4 DEF ReadChunk
  <2>2. frames' \in Seq(Frames) /\ wire' \in Seq(Frames)
    BY <2>1, SplitType DEF TypeOK
  <2> QED
    BY <1>4, <2>2 DEF ReadChunk, TypeOK, clientVars, serverVars, historyVars
<1>5. CASE ReadEof
  BY <1>5, DroppedType DEF ReadEof, TypeOK, Replies, serverVars, historyVars
<1>6. CASE Handle
  BY <1>6, HandleType
<1>7. CASE AuthSucceeds
  <2>1. reply.session \in SessionIds
    BY <1>7 DEF AuthSucceeds, TypeOK
  <2>2. AuthLeave(TRUE) /\ protocol' = reply.session
    BY <1>7, Zenon DEF AuthSucceeds
  <2>3. protocol' \in 0..MaxSessions
    BY <2>1, <2>2 DEF SessionIds
  <2> QED
    BY <2>2, <2>3, LeftType
<1>8. CASE AuthFails
  BY <1>8, LeftType DEF AuthFails, TypeOK
<1>9. CASE AuthTimeout
  BY <1>9, LeftType DEF AuthTimeout, TypeOK
<1>10. CASE RunStop
  BY <1>10 DEF RunStop, TypeOK, serverVars, historyVars
<1>11. CASE ReconnectFails
  <2>1. attempts' \in 0..MaxAttempts /\ failures' \in 0..(MaxAttempts + 1)
    BY <1>11 DEF ReconnectFails, Failed, TypeOK
  <2> QED
    BY <1>11, <2>1 DEF ReconnectFails, TypeOK, serverVars
<1>12. CASE ReconnectReaches
  <2>1. SendConnect("run") /\ SocketOpened
    BY <1>12 DEF ReconnectReaches
  <2> QED
    BY <1>12, <2>1, OpenedType, RequestType
    DEF ReconnectReaches, TypeOK, serverVars, Unsettled
<1>13. CASE ServerAnswers \/ ServerPushes
  BY <1>13, ServerType
<1>14. CASE ServerCloses
  BY <1>14 DEF ServerCloses, TypeOK, clientVars, serverVars, historyVars
<1>15. CASE HostGone
  BY <1>15 DEF HostGone, TypeOK, clientVars, historyVars
<1>16. CASE UNCHANGED vars
  BY <1>16 DEF vars, TypeOK, clientVars, serverVars, historyVars
<1> QED
  BY <1>1, <1>2, <1>3, <1>4, <1>5, <1>6, <1>7, <1>8, <1>9, <1>10, <1>11, <1>12,
     <1>13, <1>14, <1>15, <1>16
  DEF Next, AuthReturn, RunStep

-----------------------------------------------------------------------------
(* The strengthened invariant.                                             *)

LEMMA KeptStep == SessionInv /\ [Next]_vars => SessionKept'
<1> SUFFICES ASSUME SessionInv, [Next]_vars PROVE SessionKept'
  OBVIOUS
<1>1. TypeOK /\ SessionKept
  BY DEF SessionInv, ConnectionInv
<1> USE <1>1 DEF SessionKept
<1>2. CASE Connect
  BY <1>2 DEF Connect, SendConnect, Unsettled
<1>3. CASE RunStart
  BY <1>3 DEF RunStart, historyVars
<1>4. ASSUME DropPending, UNCHANGED <<pc, protocol, owed>> PROVE SessionKept'
  BY <1>4 DEF DropPending, Unsettled
<1>5. CASE Disconnect
  BY <1>4, <1>5 DEF Disconnect, TearDown
<1>6. CASE ReadChunk
  BY <1>6 DEF ReadChunk, clientVars, historyVars
<1>7. CASE ReadEof
  BY <1>4, <1>7 DEF ReadEof, historyVars
<1>8. CASE HandleAnswer
  <2>1. CASE UNCHANGED <<reply, owed>>
    BY <1>8, <2>1 DEF HandleAnswer
  <2>2. CASE /\ pc = "auth" /\ reply = Unsettled
             /\ reply' = [settled |-> "accepted", session |-> Head(frames).session]
             /\ owed' = Head(frames).session
    BY <1>8, <2>2 DEF HandleAnswer
  <2>3. CASE /\ pc = "auth" /\ reply = Unsettled
             /\ reply' = [settled |-> "refused"] /\ UNCHANGED owed
    BY <1>8, <2>3 DEF HandleAnswer, Unsettled
  <2> QED
    BY <1>8, <2>1, <2>2, <2>3 DEF HandleAnswer
<1>9. CASE HandleAuthState
  BY <1>4, <1>9 DEF HandleAuthState, TearDown
<1>10. CASE HandleDisconnect
  BY <1>10 DEF HandleDisconnect
<1>11. CASE AuthSucceeds
  BY <1>11 DEF AuthSucceeds, AuthLeave
<1>12. CASE AuthFails \/ AuthTimeout
  BY <1>12 DEF AuthFails, AuthTimeout, AuthLeave, Unsettled
<1>13. CASE RunStop
  BY <1>13 DEF RunStop, Lost, historyVars
<1>14. CASE ReconnectFails
  BY <1>14 DEF ReconnectFails
<1>15. CASE ReconnectReaches
  BY <1>15 DEF ReconnectReaches, Lost, SendConnect, Unsettled
<1>16. CASE ServerAnswers \/ ServerPushes \/ ServerCloses \/ HostGone
  BY <1>16 DEF ServerAnswers, ServerPushes, ServerCloses, HostGone, clientVars,
     historyVars
<1>17. CASE UNCHANGED vars
  BY <1>17 DEF vars, clientVars, historyVars
<1> QED
  BY <1>2, <1>3, <1>5, <1>6, <1>7, <1>8, <1>9, <1>10, <1>11, <1>12, <1>13, <1>14,
     <1>15, <1>16, <1>17
  DEF Next, Handle, AuthReturn, RunStep

(* Only sending the connect request writes down what it owed, and it sends *)
(* the session that is remembered then.                                    *)
LEMMA ResumesStep == SessionInv /\ [Next]_vars => ResumesSession'
<1> SUFFICES ASSUME SessionInv, [Next]_vars PROVE ResumesSession'
  OBVIOUS
<1> USE DEF SessionInv, ConnectionInv, ResumesSession
<1>1. CASE Connect
  BY <1>1 DEF Connect, SendConnect, SessionKept
<1>2. CASE ReconnectReaches
  BY <1>2 DEF ReconnectReaches, Lost, SendConnect, SessionKept
<1>3. CASE UNCHANGED request
  BY <1>3
<1>4. \/ Connect \/ ReconnectReaches \/ UNCHANGED request
  BY DEF Next, vars, historyVars, RunStart, Disconnect, ReadChunk, ReadEof, Handle,
     HandleAnswer, HandleAuthState, HandleDisconnect, AuthReturn, AuthSucceeds,
     AuthFails, AuthTimeout, AuthLeave, RunStep, RunStop, ReconnectFails,
     ServerAnswers, ServerPushes, ServerCloses, HostGone
<1> QED
  BY <1>1, <1>2, <1>3, <1>4

(* The counter of attempts never exceeds the failures in a row: a reconnect*)
(* that fails counts in both, and reaching the host clears only the first. *)
LEMMA AttemptsStep == TypeOK /\ AttemptsFailed /\ [Next]_vars => AttemptsFailed'
<1> SUFFICES ASSUME TypeOK, AttemptsFailed, [Next]_vars PROVE AttemptsFailed'
  OBVIOUS
<1>1. /\ attempts \in Nat /\ failures \in Nat /\ attempts <= failures
      /\ attempts <= MaxAttempts /\ failures <= MaxAttempts + 1
  BY DEF TypeOK, AttemptsFailed
<1> USE <1>1 DEF AttemptsFailed
<1>2. CASE SocketOpened /\ UNCHANGED failures
  BY <1>2 DEF SocketOpened
<1>3. ASSUME NEW ok, AuthLeave(ok) PROVE AttemptsFailed'
  BY <1>3 DEF AuthLeave, Failed
<1>4. CASE ReconnectFails
  BY <1>4 DEF ReconnectFails, Failed
<1>5. CASE UNCHANGED <<attempts, failures>>
  BY <1>5
<1>6. \/ SocketOpened /\ UNCHANGED failures
      \/ AuthLeave(TRUE) \/ AuthLeave(FALSE)
      \/ ReconnectFails
      \/ UNCHANGED <<attempts, failures>>
  BY DEF Next, vars, clientVars, historyVars, Connect, RunStart, Disconnect, ReadChunk,
     ReadEof, Handle, HandleAnswer, HandleAuthState, HandleDisconnect, AuthReturn,
     AuthSucceeds, AuthFails, AuthTimeout, RunStep, RunStop, ReconnectReaches,
     ServerAnswers, ServerPushes, ServerCloses, HostGone
<1> QED
  BY <1>2, <1>3, <1>4, <1>5, <1>6

(* Nothing forgets that the client is closing.                             *)
LEMMA TornStep == TornDownCloses /\ [Next]_vars => TornDownCloses'
<1> SUFFICES ASSUME TornDownCloses, [Next]_vars PROVE TornDownCloses'
  OBVIOUS
<1>1. \/ TearDown
      \/ SocketOpened
      \/ UNCHANGED <<closing, torndown>>
  BY DEF Next, vars, clientVars, historyVars, Connect, RunStart, Disconnect, ReadChunk,
     ReadEof, Handle, HandleAnswer, HandleAuthState, HandleDisconnect, AuthReturn,
     AuthSucceeds, AuthFails, AuthTimeout, AuthLeave, RunStep, RunStop, ReconnectFails,
     ReconnectReaches, ServerAnswers, ServerPushes, ServerCloses, HostGone
<1> QED
  BY <1>1 DEF TornDownCloses, TearDown, SocketOpened

LEMMA SessionStep == SessionInv /\ [Next]_vars => SessionInv'
  BY TypeStep, KeptStep, ResumesStep, AttemptsStep, TornStep, Zenon
  DEF SessionInv, ConnectionInv

-----------------------------------------------------------------------------
(* A session the client accepted is what the next signalwire.connect asks  *)
(* to resume, whatever drops, refusals and timeouts come between (the      *)
(* session authenticate() stores and handle_event's restart clears), with  *)
(* everything that makes it so.                                            *)
THEOREM InvCorrect == Spec => []SessionInv
<1>1. Init => SessionInv
  BY TypeInit DEF Init, SessionInv, ConnectionInv, ResumesSession, SessionKept,
     AttemptsFailed, TornDownCloses, NoRequest
<1> QED
  BY <1>1, SessionStep, PTL DEF Spec

(* The part of it the run checks.                                          *)
THEOREM ConnectionCorrect == Spec => []ConnectionInv
<1>1. SessionInv => ConnectionInv
  BY DEF SessionInv
<1> QED
  BY <1>1, InvCorrect, PTL

(* After disconnect(), run() and authenticate() open no connection.        *)
THEOREM NoReconnectCorrect == Spec => NoReconnectAfterDisconnect
<1>1. SessionInv /\ [Next]_vars
      => [pc # "main" /\ torndown => torndown']_vars
  <2> SUFFICES ASSUME SessionInv, Next, pc # "main", torndown PROVE torndown'
    OBVIOUS
  <2>1. closing
    BY DEF SessionInv, TornDownCloses
  <2>2. ~Connect /\ ~ReconnectReaches
    BY <2>1 DEF Connect, ReconnectReaches
  <2> QED
    BY <2>2 DEF Next, historyVars, RunStart, Disconnect, TearDown, ReadChunk, ReadEof,
       Handle, HandleAnswer, HandleAuthState, HandleDisconnect, AuthReturn,
       AuthSucceeds, AuthFails, AuthTimeout, AuthLeave, RunStep, RunStop,
       ReconnectFails, ServerAnswers, ServerPushes, ServerCloses, HostGone
<1> QED
  BY <1>1, InvCorrect, PTL DEF Spec, NoReconnectAfterDisconnect

(* run() returns only when it is closing or as many reconnects in a row as *)
(* the cap allows have failed.                                             *)
THEOREM RunEndsCorrect == Spec => RunEndsForAReason
<1>1. SessionInv /\ [Next]_vars
      => [pc = "run" /\ pc' = "main" => closing \/ failures >= MaxAttempts]_vars
  <2> SUFFICES ASSUME SessionInv, Next, pc = "run", pc' = "main"
               PROVE  closing \/ failures >= MaxAttempts
    OBVIOUS
  <2>1. RunStop
    BY DEF Next, clientVars, Connect, RunStart, Disconnect, ReadChunk, ReadEof, Handle,
       HandleAnswer, HandleAuthState, HandleDisconnect, AuthReturn, AuthSucceeds,
       AuthFails, AuthTimeout, RunStep, ReconnectFails, ReconnectReaches, SendConnect,
       ServerAnswers, ServerPushes, ServerCloses, HostGone
  <2>2. attempts \in Nat /\ failures \in Nat /\ attempts <= failures
    BY DEF SessionInv, ConnectionInv, TypeOK, AttemptsFailed
  <2> QED
    BY <2>1, <2>2 DEF RunStop, Lost
<1> QED
  BY <1>1, InvCorrect, PTL DEF Spec, RunEndsForAReason
==============================================================================
