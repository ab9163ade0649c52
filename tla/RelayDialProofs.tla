--------------------------- MODULE RelayDialProofs ---------------------------
(***************************************************************************)
(* Proofs about RelayDial for any dials, legs and inbound calls, any cap   *)
(* on active calls and any bound on drops and frames in flight.            *)
(***************************************************************************)
EXTENDS RelayDial, StackLemmas, FiniteSetTheorems

(* The entries of the call stack, by what is running.                      *)
LEMMA EntryKinds ==
  /\ \A t \in Tags : <<"dial", t>> \in Entries
  /\ \A c \in Calls : <<"on_call", c>> \in Entries /\ <<"listeners", c>> \in Entries
  /\ <<"request">> \in Entries
  /\ \A e \in Entries : e # <<"run">>
<1>1. /\ \A t \in Tags : <<"dial", t>> \in Entries
      /\ \A c \in Calls : <<"on_call", c>> \in Entries /\ <<"listeners", c>> \in Entries
      /\ <<"request">> \in Entries
  BY DEF Entries
<1>2. \A e \in Entries : e[1] \in {"dial", "on_call", "listeners", "request"}
  BY DEF Entries
<1>3. <<"run">>[1] = "run"
  OBVIOUS
<1> QED
  BY <1>1, <1>2, <1>3

LEMMA EntryShapes ==
  ASSUME NEW t, NEW u, NEW c, NEW d
  PROVE  /\ <<"dial", t>> # <<"on_call", c>> /\ <<"dial", t>> # <<"listeners", c>>
         /\ <<"dial", t>> # <<"request">>
         /\ <<"listeners", c>> # <<"on_call", d>> /\ <<"listeners", c>> # <<"request">>
         /\ <<"dial", t>> = <<"dial", u>> => t = u
         /\ <<"listeners", c>> = <<"listeners", d>> => c = d
<1>1. /\ <<"dial", t>>[1] = "dial" /\ <<"on_call", d>>[1] = "on_call"
      /\ <<"on_call", c>>[1] = "on_call" /\ <<"listeners", c>>[1] = "listeners"
      /\ <<"request">>[1] = "request"
  OBVIOUS
<1>2. /\ <<"dial", t>> = <<"dial", u>> => t = u
      /\ <<"listeners", c>> = <<"listeners", d>> => c = d
  OBVIOUS
<1> QED
  BY <1>1, <1>2

(* The entry that TopIs names is the last of a non-empty stack. *)
LEMMA TopEntry ==
  ASSUME NEW e \in Entries, TopIs(e)
  PROVE  stack # <<>> /\ stack[Len(stack)] = e
  BY EntryKinds DEF TopIs, Top

LEMMA PopBelow ==
  ASSUME TypeOK, NEW e \in Entries, TopIs(e)
  PROVE  /\ Below \in Seq(Entries) /\ Len(Below) = Len(stack) - 1
         /\ Len(stack) \in Nat \ {0} /\ stack[Len(stack)] = e
         /\ \A p \in 1..Len(Below) : Below[p] = stack[p]
  BY TopEntry, PopType DEF Below, TypeOK

LEMMA PushOnto ==
  ASSUME TypeOK, NEW e \in Entries
  PROVE  /\ Append(stack, e) \in Seq(Entries) /\ Len(stack) \in Nat
         /\ Len(Append(stack, e)) = Len(stack) + 1
         /\ \A p \in 1..Len(stack) : Append(stack, e)[p] = stack[p]
         /\ Append(stack, e)[Len(stack) + 1] = e
  BY PushType DEF TypeOK

(* The frames, by their kind.                                              *)
LEMMA FrameFields ==
  ASSUME NEW f \in Frames
  PROVE  /\ f.kind \in {"rpc", "state", "answered", "failed", "receive"}
         /\ f.kind = "rpc" => f.tag \in Tags /\ f.answer \in {"ok", "refused"}
         /\ f.kind = "state" => f.call \in Calls /\ f.state \in CallStates
         /\ f.kind = "answered" => f.tag \in Tags /\ f.call \in Outbound /\ f.call \in Calls
         /\ f.kind = "failed" => f.tag \in Tags
         /\ f.kind = "receive" => f.call \in Inbound /\ f.call \in Calls
  BY DEF Frames, Calls

(* What reading the next frame does to the wire.                           *)
LEMMA Taken ==
  ASSUME TypeOK, NEW kind, Arrives(kind)
  PROVE  /\ wire' \in Seq(Frames) /\ Len(wire) \in Nat \ {0} /\ Len(wire') = Len(wire) - 1
         /\ \A p \in Positions' : p \in Nat /\ p + 1 \in Positions /\ wire'[p] = wire[p + 1]
         /\ 1 \in Positions /\ Head(wire) = wire[1] /\ wire[1] \in Frames
         /\ Head(wire).kind = kind
<1>1. wire # <<>> /\ wire' = Tail(wire) /\ wire \in Seq(Frames) /\ Head(wire).kind = kind
  BY Zenon DEF Arrives, TypeOK
<1>2. /\ wire' \in Seq(Frames) /\ Len(wire) \in Nat \ {0} /\ Len(wire') = Len(wire) - 1
      /\ \A p \in 1..(Len(wire) - 1) : wire'[p] = wire[p + 1]
      /\ Head(wire) = wire[1] /\ wire[1] \in Frames
  BY <1>1, TakeType
<1> QED
  BY <1>1, <1>2 DEF Positions

(* What sending frames does to the wire: the frames it had stay where they *)
(* were, those behind them are the ones that were sent.                    *)
LEMMA Sent ==
  ASSUME TypeOK, NEW fs \in Seq(Frames), Send(fs)
  PROVE  /\ wire' \in Seq(Frames) /\ Len(wire) \in Nat /\ Len(wire') \in Nat
         /\ Len(wire) <= Len(wire')
         /\ \A p \in Positions : p \in Positions' /\ wire'[p] = wire[p]
         /\ \A p \in Positions' :
              p \in Positions \/ \E k \in 1..Len(fs) : p = Len(wire) + k /\ wire'[p] = fs[k]
         /\ link = "up" => /\ Len(wire') = Len(wire) + Len(fs)
                           /\ \A k \in 1..Len(fs) : wire'[Len(wire) + k] = fs[k]
<1>1. wire \in Seq(Frames) /\ Len(wire) \in Nat /\ Len(fs) \in Nat
  BY LenProperties DEF TypeOK
<1>2. CASE link # "up"
  <2>1. wire' = wire
    BY <1>2 DEF Send
  <2> QED
    BY <1>1, <1>2, <2>1 DEF Positions
<1>3. CASE link = "up"
  <2>1. wire' = wire \o fs
    BY <1>3 DEF Send
  <2>2. /\ wire' \in Seq(Frames) /\ Len(wire') = Len(wire) + Len(fs)
        /\ \A p \in 1..(Len(wire) + Len(fs)) :
             wire'[p] = IF p <= Len(wire) THEN wire[p] ELSE fs[p - Len(wire)]
    BY <1>1, <2>1, ConcatProperties
  <2>3. \A p \in Positions : p \in Positions' /\ wire'[p] = wire[p]
    BY <1>1, <2>2 DEF Positions
  <2>4. ASSUME NEW k \in 1..Len(fs) PROVE wire'[Len(wire) + k] = fs[k]
    <3>1. Len(wire) + k \in 1..(Len(wire) + Len(fs)) /\ ~(Len(wire) + k <= Len(wire))
      BY <1>1
    <3>2. (Len(wire) + k) - Len(wire) = k
      BY <1>1
    <3> QED
      BY <2>2, <3>1, <3>2
  <2>5. ASSUME NEW p \in Positions', p \notin Positions
        PROVE  \E k \in 1..Len(fs) : p = Len(wire) + k /\ wire'[p] = fs[k]
    <3>1. p - Len(wire) \in 1..Len(fs) /\ p = Len(wire) + (p - Len(wire))
      BY <1>1, <2>2, <2>5 DEF Positions
    <3> QED
      BY <2>4, <3>1
  <2> QED
    BY <1>1, <2>2, <2>3, <2>4, <2>5 DEF Positions
<1> QED
  BY <1>2, <1>3

(* The frames the server sends are frames.                                 *)
LEMMA FramesSent ==
  /\ \A t \in Tags, answer \in {"ok", "refused"} :
       <<[kind |-> "rpc", tag |-> t, answer |-> answer]>> \in Seq(Frames)
  /\ \A c \in Calls, s \in CallStates : <<StateFrame(c, s)>> \in Seq(Frames)
  /\ \A t \in Tags : <<[kind |-> "failed", tag |-> t]>> \in Seq(Frames)
  /\ \A c \in Inbound : <<[kind |-> "receive", call |-> c]>> \in Seq(Frames)
  /\ \A t \in Tags, c \in Outbound :
       LET dialed == [kind |-> "answered", tag |-> t, call |-> c]
       IN  /\ <<StateFrame(c, "answered"), dialed>> \in Seq(Frames)
           /\ <<dialed, StateFrame(c, "answered")>> \in Seq(Frames)
<1>1. /\ \A t \in Tags, answer \in {"ok", "refused"} :
           [kind |-> "rpc", tag |-> t, answer |-> answer] \in Frames
      /\ \A c \in Calls, s \in CallStates : StateFrame(c, s) \in Frames
      /\ \A t \in Tags : [kind |-> "failed", tag |-> t] \in Frames
      /\ \A c \in Inbound : [kind |-> "receive", call |-> c] \in Frames
      /\ \A t \in Tags, c \in Outbound : [kind |-> "answered", tag |-> t, call |-> c] \in Frames
  BY DEF Frames, StateFrame
<1>2. \A c \in Outbound : StateFrame(c, "answered") \in Frames
  BY <1>1 DEF Calls, CallStates
<1> QED
  BY <1>1, <1>2

LEMMA LegsAreCalls ==
  /\ \A t \in Tags : \A c \in Legs[t] : c \in Outbound
  /\ \A c \in Outbound : c \in Calls /\ c \notin Inbound
  /\ \A c \in Inbound : c \in Calls
  BY CallIds DEF Outbound, Calls

(* The steps of the specification, one by one. *)
LEMMA NextCases ==
  ASSUME [Next]_vars
  PROVE  \/ Request \/ RequestEnds
         \/ \E t \in Tags : \/ Dial(t) \/ DialAccepted(t) \/ DialRaises(t) \/ DialReturns(t)
                            \/ ServerFailsDial(t)
         \/ \E c \in Calls : \/ ListenersReturn(c) \/ OnCallReturns(c)
                             \/ ServerEnds(c) \/ ServerReceives(c)
         \/ HandleRpc \/ HandleState \/ HandleAnswered \/ HandleFailed \/ HandleReceive
         \/ ReadEof \/ Reconnect \/ Drop
         \/ \E t \in Tags, answer \in {"ok", "refused"} : ServerAcksDial(t, answer)
         \/ \E t \in Tags, c \in Outbound : ServerRings(t, c) \/ ServerConnectsDial(t, c)
         \/ UNCHANGED vars
  BY Zenon DEF Next, CallReturns, CallbackReturns, Handle, Idle

-----------------------------------------------------------------------------
(* What the steps do, by the part of the state they touch.                 *)

(* A step of the server changes nothing of the client and sends frames.    *)
ServerStep ==
  \/ \E t \in Tags : ServerFailsDial(t)
  \/ \E c \in Calls : ServerEnds(c) \/ ServerReceives(c)
  \/ \E t \in Tags, answer \in {"ok", "refused"} : ServerAcksDial(t, answer)
  \/ \E t \in Tags, c \in Outbound : ServerRings(t, c) \/ ServerConnectsDial(t, c)

LEMMA ServerStepClient ==
  ASSUME ServerStep
  PROVE  UNCHANGED <<clientVars, link, drops>>
  BY Zenon DEF ServerStep, ServerFailsDial, ServerEnds, ServerReceives, ServerAcksDial,
               ServerRings, ServerConnectsDial

(* A step of dial(), a request or a callback leaves the socket alone, and  *)
(* all it does to the calls is to hold, to watch or to drop one.           *)
AppStep ==
  \/ Request \/ RequestEnds
  \/ \E t \in Tags : DialAccepted(t) \/ DialRaises(t) \/ DialReturns(t)
  \/ \E c \in Calls : ListenersReturn(c) \/ OnCallReturns(c)

LEMMA AppStepKeeps ==
  ASSUME AppStep
  PROVE  UNCHANGED <<connected, rpc, winner, error, state, ends, link, wire, remoteDial, remote, drops>>
<1>1. CASE Request \/ RequestEnds
  BY <1>1, Zenon DEF Request, RequestEnds, callsUnchanged, serverUnchanged
<1>2. ASSUME NEW t \in Tags, DialAccepted(t) \/ DialRaises(t) \/ DialReturns(t)
      PROVE  UNCHANGED <<connected, rpc, winner, error, state, ends, link, wire, remoteDial, remote, drops>>
  BY <1>2, Zenon DEF DialAccepted, DialRaises, DialReturns, callsUnchanged, serverUnchanged
<1>3. ASSUME NEW c \in Calls, ListenersReturn(c) \/ OnCallReturns(c)
      PROVE  UNCHANGED <<connected, rpc, winner, error, state, ends, link, wire, remoteDial, remote, drops>>
  BY <1>3, Zenon DEF ListenersReturn, OnCallReturns, callsUnchanged, serverUnchanged
<1> QED
  BY <1>1, <1>2, <1>3, Zenon DEF AppStep

(* What handling each frame does, with the frame as the wire's first.      *)
LEMMA StateCases ==
  ASSUME TypeOK, HandleState
  PROVE  LET c == wire[1].call
             s == wire[1].state
         IN  /\ c \in Calls /\ s \in CallStates /\ wire[1].kind = "state"
             /\ UNCHANGED <<pending, rpc, winner, error, held, connected, dial, watched, link,
                            remoteDial, remote, drops>>
             /\ \/ /\ Known(c)
                   /\ calls' = calls \cup {c} /\ state' = [state EXCEPT ![c] = s]
                   /\ stack' = Append(stack, <<"listeners", c>>)
                   /\ ends' = IF c \in watched /\ s = "ended" THEN [ends EXCEPT ![c] = @ + 1]
                              ELSE ends
                \/ UNCHANGED <<calls, state, ends, stack>>
<1>1. wire[1] \in Frames /\ Head(wire) = wire[1] /\ Head(wire).kind = "state"
  BY Taken, Zenon DEF HandleState
<1>2. wire[1].call \in Calls /\ wire[1].state \in CallStates /\ wire[1].kind = "state"
  BY <1>1, FrameFields
<1>3. UNCHANGED <<pending, rpc, winner, error, held, connected, dial, watched, link,
                  remoteDial, remote, drops>>
  BY Zenon DEF HandleState, frameUnchanged
<1> QED
  BY <1>1, <1>2, <1>3, Zenon DEF HandleState

LEMMA AnsweredCases ==
  ASSUME TypeOK, HandleAnswered
  PROVE  LET t == wire[1].tag
             c == wire[1].call
         IN  /\ t \in Tags /\ c \in Outbound /\ c \in Calls /\ wire[1].kind = "answered"
             /\ UNCHANGED <<stack, pending, rpc, error, held, ends, connected, dial, watched, link,
                            remoteDial, remote, drops>>
             /\ \/ /\ t \in pending
                   /\ calls' = calls \cup {c} /\ state' = [state EXCEPT ![c] = "answered"]
                   /\ winner' = [winner EXCEPT ![t] = c]
                \/ UNCHANGED <<calls, state, winner>>
<1>1. wire[1] \in Frames /\ Head(wire) = wire[1] /\ Head(wire).kind = "answered"
  BY Taken, Zenon DEF HandleAnswered
<1>2. /\ wire[1].tag \in Tags /\ wire[1].call \in Outbound /\ wire[1].call \in Calls
      /\ wire[1].kind = "answered"
  BY <1>1, FrameFields
<1>3. UNCHANGED <<stack, pending, rpc, error, held, ends, connected, dial, watched, link,
                  remoteDial, remote, drops>>
  BY Zenon DEF HandleAnswered, frameUnchanged
<1> QED
  BY <1>1, <1>2, <1>3, Zenon DEF HandleAnswered

LEMMA ReceiveCases ==
  ASSUME TypeOK, HandleReceive
  PROVE  LET c == wire[1].call
         IN  /\ c \in Inbound /\ c \in Calls /\ wire[1].kind = "receive"
             /\ UNCHANGED <<pending, rpc, winner, error, ends, connected, dial, watched, link,
                            remoteDial, remote, drops>>
             /\ \/ /\ ~(Cardinality(calls) >= MaxActiveCalls)
                   /\ calls' = calls \cup {c} /\ state' = [state EXCEPT ![c] = "ringing"]
                   /\ held' = held \cup {c}
                   /\ stack' = Append(stack, <<"on_call", c>>)
                \/ UNCHANGED <<calls, state, held, stack>>
<1>1. wire[1] \in Frames /\ Head(wire) = wire[1] /\ Head(wire).kind = "receive"
  BY Taken, Zenon DEF HandleReceive
<1>2. wire[1].call \in Inbound /\ wire[1].call \in Calls /\ wire[1].kind = "receive"
  BY <1>1, FrameFields
<1>3. UNCHANGED <<pending, rpc, winner, error, ends, connected, dial, watched, link,
                  remoteDial, remote, drops>>
  BY Zenon DEF HandleReceive, frameUnchanged
<1> QED
  BY <1>1, <1>2, <1>3, Zenon DEF HandleReceive

LEMMA RpcCases ==
  ASSUME TypeOK, HandleRpc
  PROVE  LET t == wire[1].tag
         IN  /\ t \in Tags /\ wire[1].kind = "rpc" /\ wire[1].answer \in {"ok", "refused"}
             /\ UNCHANGED <<stack, pending, winner, error, calls, state, held, ends, connected, dial,
                            watched, link, remoteDial, remote, drops>>
             /\ rpc' = IF dial[t] = "asking" THEN [rpc EXCEPT ![t] = wire[1].answer] ELSE rpc
<1>1. wire[1] \in Frames /\ Head(wire) = wire[1] /\ Head(wire).kind = "rpc"
  BY Taken, Zenon DEF HandleRpc
<1>2. wire[1].tag \in Tags /\ wire[1].kind = "rpc" /\ wire[1].answer \in {"ok", "refused"}
  BY <1>1, FrameFields
<1>3. UNCHANGED <<stack, pending, winner, error, calls, state, held, ends, connected, dial,
                  watched, link, remoteDial, remote, drops>>
  BY Zenon DEF HandleRpc, frameUnchanged
<1> QED
  BY <1>1, <1>2, <1>3, Zenon DEF HandleRpc

LEMMA FailedCases ==
  ASSUME TypeOK, HandleFailed
  PROVE  /\ wire[1].tag \in Tags /\ wire[1].kind = "failed"
         /\ error' = error \cup ({wire[1].tag} \cap pending)
         /\ UNCHANGED <<stack, pending, rpc, winner, calls, state, held, ends, connected, dial,
                        watched, link, remoteDial, remote, drops>>
<1>1. wire[1] \in Frames /\ Head(wire) = wire[1] /\ Head(wire).kind = "failed"
  BY Taken, Zenon DEF HandleFailed
<1>2. wire[1].tag \in Tags /\ wire[1].kind = "failed"
  BY <1>1, FrameFields
<1> QED
  BY <1>1, <1>2, Zenon DEF HandleFailed, frameUnchanged

-----------------------------------------------------------------------------
(* The end of a call is the last frame about it.                           *)

LEMMA EndTaken ==
  ASSUME TypeOK, EndIsLast, NEW kind, Arrives(kind), NEW c \in Calls
  PROVE  /\ \A p \in Positions' : IsEnd(wire'[p], c) =>
              remote[c] = "ended" /\ \A q \in Positions' : About(wire'[q], c) => q <= p
         /\ state[c] = "ended" => remote[c] = "ended" /\ \A p \in Positions' : ~About(wire'[p], c)
         /\ About(wire[1], c) => state[c] # "ended" /\ ends[c] # 1
         /\ IsEnd(wire[1], c) => remote[c] = "ended" /\ \A p \in Positions' : ~About(wire'[p], c)
<1>0. /\ \A p \in Positions : IsEnd(wire[p], c) =>
           remote[c] = "ended" /\ \A q \in Positions : About(wire[q], c) => q <= p
      /\ state[c] = "ended" => remote[c] = "ended" /\ \A p \in Positions : ~About(wire[p], c)
      /\ ends[c] = 1 => state[c] = "ended"
  BY DEF EndIsLast
<1>1. /\ \A p \in Positions' : p \in Nat /\ p + 1 \in Positions /\ wire'[p] = wire[p + 1]
      /\ 1 \in Positions
  BY Taken
<1>2. \A p \in Positions' : p \in Nat /\ p >= 1
  BY DEF Positions
<1>3. ASSUME NEW p \in Positions', IsEnd(wire'[p], c)
      PROVE  remote[c] = "ended" /\ \A q \in Positions' : About(wire'[q], c) => q <= p
  <2>1. IsEnd(wire[p + 1], c) /\ p + 1 \in Positions
    BY <1>1, <1>3
  <2>2. \A q \in Positions' : About(wire'[q], c) => q + 1 <= p + 1
    BY <1>0, <1>1, <2>1
  <2> QED
    BY <1>0, <1>2, <2>1, <2>2
<1>4. state[c] = "ended" => remote[c] = "ended" /\ \A p \in Positions' : ~About(wire'[p], c)
  BY <1>0, <1>1
<1>5. About(wire[1], c) => state[c] # "ended" /\ ends[c] # 1
  BY <1>0, <1>1
<1>6. ASSUME IsEnd(wire[1], c)
      PROVE  remote[c] = "ended" /\ \A p \in Positions' : ~About(wire'[p], c)
  <2>1. \A q \in Positions : About(wire[q], c) => q <= 1
    BY <1>0, <1>1, <1>6
  <2>2. ASSUME NEW p \in Positions', About(wire'[p], c) PROVE FALSE
    <3>1. p + 1 <= 1 /\ p \in Nat /\ p >= 1
      BY <1>1, <1>2, <2>1, <2>2
    <3> QED
      BY <3>1
  <2> QED
    BY <1>0, <1>1, <1>6, <2>2
<1> QED
  BY <1>3, <1>4, <1>5, <1>6

(* Sending keeps it when nothing is sent about a call that has ended, and  *)
(* an end is sent behind everything else.                                  *)
LEMMA EndSent ==
  ASSUME TypeOK, EndIsLast, NEW fs \in Seq(Frames), Send(fs), UNCHANGED <<state, ends>>,
         \A c \in Calls : remote[c] = "ended" => remote'[c] = "ended",
         \A c \in Calls, k \in 1..Len(fs) : About(fs[k], c) => remote[c] # "ended",
         \A c \in Calls, k \in 1..Len(fs) : IsEnd(fs[k], c) => k = Len(fs) /\ remote'[c] = "ended"
  PROVE  EndIsLast'
<1> SUFFICES ASSUME NEW c \in Calls
             PROVE  /\ \A p \in Positions' : IsEnd(wire'[p], c) =>
                         /\ remote'[c] = "ended"
                         /\ \A q \in Positions' : About(wire'[q], c) => q <= p
                    /\ state[c] = "ended" =>
                         remote'[c] = "ended" /\ \A p \in Positions' : ~About(wire'[p], c)
                    /\ ends[c] = 1 => state[c] = "ended"
  BY Zenon DEF EndIsLast, About, IsEnd
<1>0. /\ \A p \in Positions : IsEnd(wire[p], c) =>
           remote[c] = "ended" /\ \A q \in Positions : About(wire[q], c) => q <= p
      /\ state[c] = "ended" => remote[c] = "ended" /\ \A p \in Positions : ~About(wire[p], c)
      /\ ends[c] = 1 => state[c] = "ended"
  BY DEF EndIsLast
<1>1. /\ Len(wire) \in Nat /\ Len(wire') \in Nat
      /\ \A p \in Positions : p \in Positions' /\ wire'[p] = wire[p]
      /\ \A p \in Positions' :
           p \in Positions \/ \E k \in 1..Len(fs) : p = Len(wire) + k /\ wire'[p] = fs[k]
      /\ link = "up" => Len(wire') = Len(wire) + Len(fs)
      /\ Len(fs) \in Nat
  BY Sent, LenProperties
<1>2. link # "up" => Positions' = Positions
  <2>1. link # "up" => wire' = wire
    BY DEF Send
  <2> QED
    BY <2>1 DEF Positions
<1>3. ASSUME NEW p \in Positions', About(wire'[p], c), remote[c] = "ended"
      PROVE  p \in Positions /\ About(wire[p], c)
  BY <1>1, <1>3
<1>4. ASSUME NEW p \in Positions', IsEnd(wire'[p], c), p \in Positions
      PROVE  /\ remote'[c] = "ended"
             /\ \A q \in Positions' : About(wire'[q], c) => q <= p
  BY <1>0, <1>1, <1>3, <1>4
<1>5. ASSUME NEW p \in Positions', IsEnd(wire'[p], c), p \notin Positions
      PROVE  /\ remote'[c] = "ended"
             /\ \A q \in Positions' : About(wire'[q], c) => q <= p
  <2>1. PICK k \in 1..Len(fs) : p = Len(wire) + k /\ wire'[p] = fs[k]
    BY <1>1, <1>5
  <2>2. k = Len(fs) /\ remote'[c] = "ended"
    BY <1>5, <2>1
  <2>3. link = "up"
    BY <1>2, <1>5
  <2> QED
    BY <1>1, <2>1, <2>2, <2>3 DEF Positions
<1> QED
  BY <1>0, <1>1, <1>3, <1>4, <1>5

LEMMA EndServer == TypeOK /\ EndIsLast /\ ServerStep => EndIsLast'
<1> SUFFICES ASSUME TypeOK, EndIsLast, ServerStep PROVE EndIsLast'
  OBVIOUS
<1>0. UNCHANGED <<state, ends>>
  BY ServerStepClient, Zenon DEF clientVars
<1>1. ASSUME NEW t \in Tags, ServerFailsDial(t) PROVE EndIsLast'
  <2> DEFINE fs == <<[kind |-> "failed", tag |-> t]>>
  <2>1. Send(fs) /\ fs \in Seq(Frames) /\ remote' = remote
    BY <1>1, FramesSent, Zenon DEF ServerFailsDial
  <2>2. \A c \in Calls, k \in 1..Len(fs) : ~About(fs[k], c) /\ ~IsEnd(fs[k], c)
    BY DEF About, IsEnd
  <2> QED
    BY <1>0, <2>1, <2>2, EndSent
<1>2. ASSUME NEW t \in Tags, NEW answer \in {"ok", "refused"}, ServerAcksDial(t, answer)
      PROVE  EndIsLast'
  <2> DEFINE fs == <<[kind |-> "rpc", tag |-> t, answer |-> answer]>>
  <2>1. Send(fs) /\ fs \in Seq(Frames) /\ remote' = remote
    BY <1>2, FramesSent, Zenon DEF ServerAcksDial
  <2>2. \A c \in Calls, k \in 1..Len(fs) : ~About(fs[k], c) /\ ~IsEnd(fs[k], c)
    BY DEF About, IsEnd
  <2> QED
    BY <1>0, <2>1, <2>2, EndSent
<1>3. ASSUME NEW d \in Calls, ServerReceives(d) PROVE EndIsLast'
  <2> DEFINE fs == <<[kind |-> "receive", call |-> d]>>
  <2>1. /\ Send(fs) /\ fs \in Seq(Frames) /\ remote[d] = "none"
        /\ remote' = [remote EXCEPT ![d] = "ringing"]
    BY <1>3, FramesSent, Zenon DEF ServerReceives
  <2>2. \A c \in Calls, k \in 1..Len(fs) : ~IsEnd(fs[k], c) /\ (About(fs[k], c) => c = d)
    BY DEF About, IsEnd
  <2>3. \A c \in Calls : remote[c] = "ended" => remote'[c] = "ended"
    BY <2>1 DEF TypeOK
  <2> QED
    BY <1>0, <2>1, <2>2, <2>3, EndSent
<1>4. ASSUME NEW d \in Calls, ServerEnds(d) PROVE EndIsLast'
  <2> DEFINE fs == <<StateFrame(d, "ended")>>
  <2>1. /\ Send(fs) /\ fs \in Seq(Frames) /\ remote[d] # "ended"
        /\ remote' = [remote EXCEPT ![d] = "ended"]
    BY <1>4, FramesSent DEF ServerEnds, CallStates
  <2>2. \A c \in Calls, k \in 1..Len(fs) : k = Len(fs) /\ (About(fs[k], c) => c = d)
    BY DEF About, StateFrame
  <2>3. \A c \in Calls, k \in 1..Len(fs) : IsEnd(fs[k], c) => c = d
    BY DEF IsEnd, StateFrame
  <2>4. remote'[d] = "ended" /\ \A c \in Calls : remote[c] = "ended" => remote'[c] = "ended"
    BY <2>1 DEF TypeOK
  <2> QED
    BY <1>0, <2>1, <2>2, <2>3, <2>4, EndSent
<1>5. ASSUME NEW t \in Tags, NEW d \in Outbound, ServerRings(t, d) PROVE EndIsLast'
  <2> DEFINE fs == <<StateFrame(d, "ringing")>>
  <2>1. /\ Send(fs) /\ remote[d] = "none"
        /\ remote' = [remote EXCEPT ![d] = "ringing"]
    BY <1>5, Zenon DEF ServerRings
  <2>2. fs \in Seq(Frames)
    BY FramesSent, LegsAreCalls DEF CallStates
  <2>3. \A c \in Calls, k \in 1..Len(fs) : About(fs[k], c) => c = d
    BY DEF About, StateFrame
  <2>4. \A c \in Calls, k \in 1..Len(fs) : ~IsEnd(fs[k], c)
    BY DEF IsEnd, StateFrame
  <2>5. \A c \in Calls : remote[c] = "ended" => remote'[c] = "ended"
    BY <2>1 DEF TypeOK
  <2> QED
    BY <1>0, <2>1, <2>2, <2>3, <2>4, <2>5, EndSent
<1>6. ASSUME NEW t \in Tags, NEW d \in Outbound, ServerConnectsDial(t, d) PROVE EndIsLast'
  <2> DEFINE dialed == [kind |-> "answered", tag |-> t, call |-> d]
             one    == <<StateFrame(d, "answered"), dialed>>
             other  == <<dialed, StateFrame(d, "answered")>>
  <2>1. /\ Send(one) \/ Send(other)
        /\ remote[d] # "ended" /\ remote' = [remote EXCEPT ![d] = "answered"]
    BY <1>6 DEF ServerConnectsDial
  <2>2. one \in Seq(Frames) /\ other \in Seq(Frames)
    BY FramesSent
  <2>3. /\ \A c \in Calls : About(dialed, c) => c = d
        /\ \A c \in Calls : About(StateFrame(d, "answered"), c) => c = d
        /\ \A c \in Calls : ~IsEnd(dialed, c)
        /\ \A c \in Calls : ~IsEnd(StateFrame(d, "answered"), c)
    BY DEF About, IsEnd, StateFrame
  <2>4. /\ \A k \in 1..Len(one) : one[k] \in {dialed, StateFrame(d, "answered")}
        /\ \A k \in 1..Len(other) : other[k] \in {dialed, StateFrame(d, "answered")}
    OBVIOUS
  <2>5. \A c \in Calls : remote[c] = "ended" => remote'[c] = "ended"
    BY <2>1 DEF TypeOK
  <2> HIDE DEF dialed, one, other
  <2>6. /\ \A c \in Calls, k \in 1..Len(one) :
             ~IsEnd(one[k], c) /\ (About(one[k], c) => remote[c] # "ended")
        /\ \A c \in Calls, k \in 1..Len(other) :
             ~IsEnd(other[k], c) /\ (About(other[k], c) => remote[c] # "ended")
    BY <2>1, <2>3, <2>4
  <2>7. CASE Send(one)
    BY <1>0, <2>2, <2>5, <2>6, <2>7, EndSent
  <2>8. CASE Send(other)
    BY <1>0, <2>2, <2>5, <2>6, <2>8, EndSent
  <2> QED
    BY <2>1, <2>7, <2>8
<1> QED
  BY <1>1, <1>2, <1>3, <1>4, <1>5, <1>6, Zenon DEF ServerStep

(* Steps that take a frame and change the state of its call, if any.       *)
LEMMA EndChanged ==
  ASSUME TypeOK, EndIsLast, NEW kind, Arrives(kind), remote' = remote,
         \/ UNCHANGED <<state, ends>>
         \/ \E d \in Calls, s \in CallStates :
              /\ About(wire[1], d) /\ state' = [state EXCEPT ![d] = s]
              /\ s = "ended" => IsEnd(wire[1], d)
              /\ ends' = ends \/ (s = "ended" /\ ends' = [ends EXCEPT ![d] = @ + 1])
  PROVE  EndIsLast'
<1> SUFFICES ASSUME NEW c \in Calls
             PROVE  /\ \A p \in Positions' : IsEnd(wire'[p], c) =>
                         /\ remote[c] = "ended"
                         /\ \A q \in Positions' : About(wire'[q], c) => q <= p
                    /\ state'[c] = "ended" =>
                         remote[c] = "ended" /\ \A p \in Positions' : ~About(wire'[p], c)
                    /\ ends'[c] = 1 => state'[c] = "ended"
  BY Zenon DEF EndIsLast, About, IsEnd
<1>1. /\ \A p \in Positions' : IsEnd(wire'[p], c) =>
           remote[c] = "ended" /\ \A q \in Positions' : About(wire'[q], c) => q <= p
      /\ state[c] = "ended" => remote[c] = "ended" /\ \A p \in Positions' : ~About(wire'[p], c)
      /\ About(wire[1], c) => state[c] # "ended" /\ ends[c] # 1
      /\ IsEnd(wire[1], c) => remote[c] = "ended" /\ \A p \in Positions' : ~About(wire'[p], c)
  BY EndTaken
<1>2. ends[c] = 1 => state[c] = "ended"
  BY DEF EndIsLast
<1>3. CASE UNCHANGED <<state, ends>>
  BY <1>1, <1>2, <1>3
<1>4. ASSUME NEW d \in Calls, NEW s \in CallStates,
             About(wire[1], d), state' = [state EXCEPT ![d] = s],
             s = "ended" => IsEnd(wire[1], d),
             ends' = ends \/ (s = "ended" /\ ends' = [ends EXCEPT ![d] = @ + 1])
      PROVE  /\ state'[c] = "ended" =>
                  remote[c] = "ended" /\ \A p \in Positions' : ~About(wire'[p], c)
             /\ ends'[c] = 1 => state'[c] = "ended"
  <2>1. /\ c # d => state'[c] = state[c] /\ ends'[c] = ends[c]
        /\ c = d => state'[c] = s
        /\ c = d => ends'[c] = ends[c] \/ s = "ended"
    BY <1>4 DEF TypeOK
  <2>2. CASE c # d
    BY <1>1, <1>2, <2>1, <2>2
  <2>3. CASE c = d
    BY <1>1, <1>4, <2>1, <2>3
  <2> QED
    BY <2>2, <2>3
<1> QED
  BY <1>1, <1>3, <1>4

LEMMA EndStep == TypeOK /\ EndIsLast /\ [Next]_vars => EndIsLast'
<1> SUFFICES ASSUME TypeOK, EndIsLast, [Next]_vars PROVE EndIsLast'
  OBVIOUS
<1>0. ASSUME UNCHANGED <<wire, remote, state, ends>> PROVE EndIsLast'
  BY <1>0, Zenon DEF EndIsLast, Positions, About, IsEnd
<1>1. CASE AppStep
  BY <1>0, <1>1, AppStepKeeps
<1>2. CASE ServerStep
  BY <1>2, EndServer
<1>3. CASE HandleRpc
  <2>1. Arrives("rpc") /\ UNCHANGED <<state, ends, remote>>
    BY <1>3, Zenon DEF HandleRpc, frameUnchanged
  <2> QED
    BY <2>1, EndChanged, Zenon
<1>4. CASE HandleFailed
  <2>1. Arrives("failed") /\ UNCHANGED <<state, ends, remote>>
    BY <1>4, Zenon DEF HandleFailed, frameUnchanged
  <2> QED
    BY <2>1, EndChanged, Zenon
<1>5. CASE HandleState
  <2>1. Arrives("state")
    BY <1>5, Zenon DEF HandleState
  <2> DEFINE d == wire[1].call
             s == wire[1].state
  <2>2. /\ d \in Calls /\ s \in CallStates /\ wire[1].kind = "state" /\ remote' = remote
        /\ \/ UNCHANGED <<state, ends>>
           \/ /\ state' = [state EXCEPT ![d] = s]
              /\ ends' = ends \/ (s = "ended" /\ ends' = [ends EXCEPT ![d] = @ + 1])
    BY <1>5, StateCases
  <2>3. About(wire[1], d) /\ (s = "ended" => IsEnd(wire[1], d))
    BY <2>2 DEF About, IsEnd
  <2> QED
    BY <2>1, <2>2, <2>3, EndChanged
<1>6. CASE HandleAnswered
  <2>1. Arrives("answered")
    BY <1>6, Zenon DEF HandleAnswered
  <2> DEFINE d == wire[1].call
  <2>2. /\ d \in Calls /\ wire[1].kind = "answered" /\ remote' = remote /\ ends' = ends
        /\ state' = state \/ state' = [state EXCEPT ![d] = "answered"]
    BY <1>6, AnsweredCases
  <2>3. About(wire[1], d) /\ "answered" \in CallStates
    BY <2>2 DEF About, CallStates
  <2> QED
    BY <2>1, <2>2, <2>3, EndChanged
<1>7. CASE HandleReceive
  <2>1. Arrives("receive")
    BY <1>7, Zenon DEF HandleReceive
  <2> DEFINE d == wire[1].call
  <2>2. /\ d \in Calls /\ wire[1].kind = "receive" /\ remote' = remote /\ ends' = ends
        /\ state' = state \/ state' = [state EXCEPT ![d] = "ringing"]
    BY <1>7, ReceiveCases
  <2>3. About(wire[1], d) /\ "ringing" \in CallStates
    BY <2>2 DEF About, CallStates
  <2> QED
    BY <2>1, <2>2, <2>3, EndChanged
<1>8. ASSUME NEW t \in Tags, Dial(t) PROVE EndIsLast'
  BY <1>0, <1>8, Zenon DEF Dial, callsUnchanged
<1>9. CASE ReadEof \/ Reconnect
  BY <1>0, <1>9, Zenon DEF ReadEof, Reconnect, callsUnchanged, serverUnchanged
<1>10. CASE Drop
  BY <1>0, <1>10, Zenon DEF Drop, clientVars
<1>11. CASE UNCHANGED vars
  BY <1>0, <1>11, Zenon DEF vars, clientVars
<1> QED
  BY <1>1, <1>2, <1>3, <1>4, <1>5, <1>6, <1>7, <1>8, <1>9, <1>10, <1>11, NextCases, Zenon
     DEF AppStep, ServerStep

-----------------------------------------------------------------------------
(* Type correctness.  That dial's listener calls back at most once is of   *)
(* the type, and rests on the end of a call being the last frame about it. *)

LEMMA TypeInit == Init => TypeOK
<1> SUFFICES ASSUME Init PROVE TypeOK
  OBVIOUS
<1>1. stack \in Seq(Entries) /\ wire \in Seq(Frames)
  BY EmptySeq DEF Init
<1>2. drops \in 0..MaxDrops
  BY CallIds DEF Init
<1> QED
  BY <1>1, <1>2 DEF Init, TypeOK

LEMMA TypeServer == TypeOK /\ ServerStep => TypeOK'
<1> SUFFICES ASSUME TypeOK, ServerStep PROVE TypeOK'
  OBVIOUS
<1> USE DEF TypeOK
<1>0. /\ stack' = stack /\ connected' = connected /\ dial' = dial /\ pending' = pending
      /\ rpc' = rpc /\ winner' = winner /\ error' = error /\ calls' = calls /\ state' = state
      /\ held' = held /\ watched' = watched /\ ends' = ends /\ link' = link /\ drops' = drops
  BY ServerStepClient, Zenon DEF clientVars
<1>1. SUFFICES wire' \in Seq(Frames)
               /\ remoteDial' \in [Tags -> {"none", "asked", "dialing", "answered", "failed"}]
               /\ remote' \in [Calls -> CallStates \cup {"none"}]
  BY <1>0
<1>2. ASSUME NEW t \in Tags, ServerFailsDial(t) PROVE TypeOK'
  <2>1. wire' \in Seq(Frames)
    BY <1>2, FramesSent, Sent DEF ServerFailsDial
  <2> QED
    BY <1>0, <1>2, <2>1 DEF ServerFailsDial
<1>3. ASSUME NEW t \in Tags, NEW answer \in {"ok", "refused"}, ServerAcksDial(t, answer)
      PROVE  TypeOK'
  <2>1. wire' \in Seq(Frames)
    BY <1>3, FramesSent, Sent DEF ServerAcksDial
  <2> QED
    BY <1>0, <1>3, <2>1 DEF ServerAcksDial
<1>4. ASSUME NEW d \in Calls, ServerReceives(d) PROVE TypeOK'
  <2>1. wire' \in Seq(Frames)
    BY <1>4, FramesSent, Sent DEF ServerReceives
  <2> QED
    BY <1>0, <1>4, <2>1 DEF ServerReceives, CallStates
<1>5. ASSUME NEW d \in Calls, ServerEnds(d) PROVE TypeOK'
  <2>1. wire' \in Seq(Frames)
    BY <1>5, FramesSent, Sent DEF ServerEnds, CallStates
  <2> QED
    BY <1>0, <1>5, <2>1 DEF ServerEnds, CallStates
<1>6. ASSUME NEW t \in Tags, NEW d \in Outbound, ServerRings(t, d) PROVE TypeOK'
  <2>1. wire' \in Seq(Frames)
    BY <1>6, FramesSent, Sent, LegsAreCalls DEF ServerRings, CallStates
  <2> QED
    BY <1>0, <1>6, <2>1 DEF ServerRings, CallStates
<1>7. ASSUME NEW t \in Tags, NEW d \in Outbound, ServerConnectsDial(t, d) PROVE TypeOK'
  <2>1. wire' \in Seq(Frames)
    BY <1>7, FramesSent, Sent DEF ServerConnectsDial
  <2>2. /\ remote' \in [Calls -> CallStates \cup {"none"}]
        /\ remoteDial' \in [Tags -> {"none", "asked", "dialing", "answered", "failed"}]
    BY <1>7 DEF ServerConnectsDial, CallStates
  <2> QED
    BY <1>0, <2>1, <2>2
<1> QED
  BY <1>2, <1>3, <1>4, <1>5, <1>6, <1>7, Zenon DEF ServerStep

LEMMA TypeApp == TypeOK /\ AppStep => TypeOK'
<1> SUFFICES ASSUME TypeOK, AppStep PROVE TypeOK'
  OBVIOUS
<1>0. /\ connected' = connected /\ rpc' = rpc /\ winner' = winner /\ error' = error
      /\ state' = state /\ ends' = ends /\ link' = link /\ wire' = wire
      /\ remoteDial' = remoteDial /\ remote' = remote /\ drops' = drops
  BY AppStepKeeps
<1>1. SUFFICES /\ stack' \in Seq(Entries) /\ pending' \subseteq Tags
               /\ dial' \in [Tags -> {"idle", "asking", "waiting", "returned", "raised"}]
               /\ calls' \subseteq Calls /\ held' \subseteq Calls /\ watched' \subseteq Outbound
  BY <1>0 DEF TypeOK
<1> DEFINE Goal == /\ stack' \in Seq(Entries) /\ pending' \subseteq Tags
                   /\ dial' \in [Tags -> {"idle", "asking", "waiting", "returned", "raised"}]
                   /\ calls' \subseteq Calls /\ held' \subseteq Calls /\ watched' \subseteq Outbound
<1>2. CASE Request
  <2>1. stack' \in Seq(Entries)
    BY <1>2, EntryKinds, PushOnto DEF Request
  <2> QED
    BY <1>2, <2>1 DEF Request, callsUnchanged, TypeOK
<1>3. CASE RequestEnds
  <2>1. stack' \in Seq(Entries)
    BY <1>3, EntryKinds, PopBelow DEF RequestEnds
  <2> QED
    BY <1>3, <2>1 DEF RequestEnds, callsUnchanged, TypeOK
<1>4. ASSUME NEW t \in Tags, DialAccepted(t) PROVE Goal
  BY <1>4 DEF DialAccepted, callsUnchanged, TypeOK
<1>5. ASSUME NEW t \in Tags, DialRaises(t) PROVE Goal
  <2>1. stack' \in Seq(Entries)
    BY <1>5, EntryKinds, PopBelow DEF DialRaises
  <2> QED
    BY <1>5, <2>1 DEF DialRaises, callsUnchanged, TypeOK
<1>6. ASSUME NEW t \in Tags, DialReturns(t) PROVE Goal
  <2>1. stack' \in Seq(Entries)
    BY <1>6, EntryKinds, PopBelow DEF DialReturns
  <2>2. winner[t] \in Outbound /\ winner[t] \in Calls
    BY <1>6, LegsAreCalls DEF DialReturns, TypeOK
  <2> QED
    BY <1>6, <2>1, <2>2 DEF DialReturns, TypeOK
<1>7. ASSUME NEW c \in Calls, ListenersReturn(c) PROVE Goal
  <2>1. stack' \in Seq(Entries)
    BY <1>7, EntryKinds, PopBelow DEF ListenersReturn
  <2> QED
    BY <1>7, <2>1 DEF ListenersReturn, TypeOK
<1>8. ASSUME NEW c \in Calls, OnCallReturns(c) PROVE Goal
  <2>1. stack' \in Seq(Entries)
    BY <1>8, EntryKinds, PopBelow DEF OnCallReturns
  <2> QED
    BY <1>8, <2>1 DEF OnCallReturns, callsUnchanged, TypeOK
<1> QED
  BY <1>2, <1>3, <1>4, <1>5, <1>6, <1>7, <1>8, Zenon DEF AppStep

LEMMA TypeStep == TypeOK /\ EndIsLast /\ [Next]_vars => TypeOK'
<1> SUFFICES ASSUME TypeOK, EndIsLast, [Next]_vars PROVE TypeOK'
  OBVIOUS
<1>1. CASE AppStep
  BY <1>1, TypeApp
<1>2. CASE ServerStep
  BY <1>2, TypeServer
<1>3. CASE HandleRpc
  <2>1. wire' \in Seq(Frames)
    BY <1>3, Taken, Zenon DEF HandleRpc
  <2>2. rpc' = rpc \/ rpc' = [rpc EXCEPT ![wire[1].tag] = wire[1].answer]
    BY <1>3, RpcCases, Zenon
  <2>3. wire[1].tag \in Tags /\ wire[1].answer \in {"ok", "refused"}
    BY <1>3, RpcCases, Zenon
  <2>4. rpc' \in [Tags -> {"none", "ok", "refused"}]
    BY <2>2, <2>3 DEF TypeOK
  <2>5. UNCHANGED <<stack, pending, winner, error, calls, state, held, ends, connected, dial,
                    watched, link, remoteDial, remote, drops>>
    BY <1>3, RpcCases, Zenon
  <2> QED
    BY <2>1, <2>4, <2>5 DEF TypeOK
<1>4. CASE HandleFailed
  <2>1. wire' \in Seq(Frames)
    BY <1>4, Taken, Zenon DEF HandleFailed
  <2> QED
    BY <1>4, <2>1, FailedCases DEF TypeOK
<1>5. CASE HandleState
  <2> DEFINE d == wire[1].call
             s == wire[1].state
  <2>1. wire' \in Seq(Frames) /\ Arrives("state")
    BY <1>5, Taken, Zenon DEF HandleState
  <2>2. d \in Calls /\ s \in CallStates /\ wire[1].kind = "state"
    BY <1>5, StateCases
  <2>3. About(wire[1], d)
    BY <2>2 DEF About
  <2>4. ends[d] # 1
    BY <2>1, <2>2, <2>3, EndTaken
  <2>5. [ends EXCEPT ![d] = @ + 1] \in [Calls -> 0..1]
    <3>1. ends[d] = 0
      BY <2>2, <2>4 DEF TypeOK
    <3> QED
      BY <2>2, <3>1 DEF TypeOK
  <2>6. Append(stack, <<"listeners", d>>) \in Seq(Entries)
    BY <2>2, EntryKinds, PushOnto
  <2>7. /\ stack' \in Seq(Entries) /\ calls' \subseteq Calls
        /\ state' \in [Calls -> CallStates \cup {"none"}] /\ ends' \in [Calls -> 0..1]
    BY <1>5, <2>2, <2>5, <2>6, StateCases DEF TypeOK
  <2> QED
    BY <1>5, <2>1, <2>7, StateCases DEF TypeOK
<1>6. CASE HandleAnswered
  <2>1. wire' \in Seq(Frames)
    BY <1>6, Taken, Zenon DEF HandleAnswered
  <2> QED
    BY <1>6, <2>1, AnsweredCases DEF TypeOK, CallStates
<1>7. CASE HandleReceive
  <2> DEFINE d == wire[1].call
  <2>1. wire' \in Seq(Frames)
    BY <1>7, Taken, Zenon DEF HandleReceive
  <2>2. d \in Calls
    BY <1>7, ReceiveCases
  <2>3. Append(stack, <<"on_call", d>>) \in Seq(Entries)
    BY <2>2, EntryKinds, PushOnto
  <2>4. /\ stack' \in Seq(Entries) /\ calls' \subseteq Calls /\ held' \subseteq Calls
        /\ state' \in [Calls -> CallStates \cup {"none"}]
    BY <1>7, <2>2, <2>3, ReceiveCases DEF TypeOK, CallStates
  <2> QED
    BY <1>7, <2>1, <2>4, ReceiveCases DEF TypeOK
<1>8. ASSUME NEW t \in Tags, Dial(t) PROVE TypeOK'
  <2>1. stack' \in Seq(Entries)
    BY <1>8, EntryKinds, PushOnto DEF Dial
  <2> QED
    BY <1>8, <2>1 DEF Dial, callsUnchanged, TypeOK
<1>9. CASE ReadEof
  BY <1>9 DEF ReadEof, callsUnchanged, serverUnchanged, TypeOK
<1>10. CASE Reconnect
  BY <1>10 DEF Reconnect, callsUnchanged, TypeOK
<1>11. CASE Drop
  <2>1. drops' \in 0..MaxDrops
    BY <1>11, CallIds DEF Drop, TypeOK
  <2> QED
    BY <1>11, <2>1 DEF Drop, clientVars, TypeOK
<1>12. CASE UNCHANGED vars
  BY <1>12 DEF vars, clientVars, TypeOK
<1> QED
  BY <1>1, <1>2, <1>3, <1>4, <1>5, <1>6, <1>7, <1>8, <1>9, <1>10, <1>11, <1>12, NextCases, Zenon
     DEF AppStep, ServerStep

(* What the client knows of an ended call never changes again.             *)
LEMMA EndedStep ==
  TypeOK /\ EndIsLast /\ [Next]_vars => \A c \in Calls : state[c] = "ended" => state'[c] = "ended"
<1> SUFFICES ASSUME TypeOK, EndIsLast, [Next]_vars, NEW c \in Calls, state[c] = "ended"
             PROVE  state'[c] = "ended"
  OBVIOUS
<1>1. CASE AppStep
  BY <1>1, AppStepKeeps
<1>2. CASE ServerStep
  BY <1>2, ServerStepClient, Zenon DEF clientVars
<1>3. CASE HandleRpc
  BY <1>3, RpcCases
<1>4. CASE HandleFailed
  BY <1>4, FailedCases
<1>5. CASE HandleState
  <2>1. Arrives("state")
    BY <1>5, Zenon DEF HandleState
  <2>2. wire[1].call # c
    BY <1>5, <2>1, EndTaken, StateCases DEF About
  <2> QED
    BY <1>5, <2>2, StateCases DEF TypeOK
<1>6. CASE HandleAnswered
  <2>1. Arrives("answered")
    BY <1>6, Zenon DEF HandleAnswered
  <2>2. wire[1].call # c
    BY <1>6, <2>1, EndTaken, AnsweredCases DEF About
  <2> QED
    BY <1>6, <2>2, AnsweredCases DEF TypeOK
<1>7. CASE HandleReceive
  <2>1. Arrives("receive")
    BY <1>7, Zenon DEF HandleReceive
  <2>2. wire[1].call # c
    BY <1>7, <2>1, EndTaken, ReceiveCases DEF About
  <2> QED
    BY <1>7, <2>2, ReceiveCases DEF TypeOK
<1>8. ASSUME NEW t \in Tags, Dial(t) PROVE state' = state
  BY <1>8, Zenon DEF Dial, callsUnchanged
<1>9. CASE ReadEof \/ Reconnect
  BY <1>9, Zenon DEF ReadEof, Reconnect, callsUnchanged
<1>10. CASE Drop \/ UNCHANGED vars
  BY <1>10, Zenon DEF Drop, vars, clientVars
<1> QED
  BY <1>1, <1>2, <1>3, <1>4, <1>5, <1>6, <1>7, <1>8, <1>9, <1>10, NextCases, Zenon
     DEF AppStep, ServerStep

-----------------------------------------------------------------------------
(* A dial is pending while its dial() is on the stack.                     *)

LEMMA StackInit == Init => StackInv
  BY DEF Init, StackInv, DialsDistinct, PendingMatchesStack, PendingRuns, OnStack

(* Pushing or popping an entry that is no dial()'s disturbs nothing.       *)
LEMMA StackPushed ==
  ASSUME TypeOK, StackInv, NEW e \in Entries, \A t \in Tags : e # <<"dial", t>>,
         stack' = Append(stack, e), UNCHANGED <<pending, dial>>
  PROVE  StackInv'
<1>1. /\ Len(stack) \in Nat /\ Len(stack') = Len(stack) + 1
      /\ \A p \in 1..Len(stack) : stack'[p] = stack[p]
      /\ stack'[Len(stack) + 1] = e
  BY PushOnto
<1>2. /\ \A p \in 1..Len(stack') : p \in 1..Len(stack) \/ p = Len(stack) + 1
      /\ \A p \in 1..Len(stack) : p \in 1..Len(stack')
  BY <1>1
<1>3. \A t \in Tags : OnStack(<<"dial", t>>)' <=> OnStack(<<"dial", t>>)
  BY <1>1, <1>2 DEF OnStack
<1>4. DialsDistinct'
  <2> SUFFICES ASSUME NEW t \in Tags, NEW p \in 1..Len(stack'), NEW q \in 1..Len(stack'),
                      stack'[p] = <<"dial", t>>, stack'[q] = <<"dial", t>>
               PROVE  p = q
    BY DEF DialsDistinct
  <2>1. p \in 1..Len(stack) /\ q \in 1..Len(stack)
    BY <1>1, <1>2
  <2> QED
    BY <1>1, <2>1 DEF StackInv, DialsDistinct
<1> QED
  BY <1>3, <1>4, Zenon DEF StackInv, PendingMatchesStack, PendingRuns

LEMMA StackPopped ==
  ASSUME TypeOK, StackInv, NEW e \in Entries, \A t \in Tags : e # <<"dial", t>>,
         TopIs(e), stack' = Below, UNCHANGED <<pending, dial>>
  PROVE  StackInv'
<1>1. /\ Len(stack) \in Nat \ {0} /\ Len(stack') = Len(stack) - 1
      /\ stack[Len(stack)] = e
      /\ \A p \in 1..Len(stack') : stack'[p] = stack[p]
  BY PopBelow
<1>2. /\ \A p \in 1..Len(stack) : p \in 1..Len(stack') \/ p = Len(stack)
      /\ \A p \in 1..Len(stack') : p \in 1..Len(stack)
  BY <1>1
<1>3. \A t \in Tags : OnStack(<<"dial", t>>)' <=> OnStack(<<"dial", t>>)
  BY <1>1, <1>2 DEF OnStack
<1>4. DialsDistinct'
  <2> SUFFICES ASSUME NEW t \in Tags, NEW p \in 1..Len(stack'), NEW q \in 1..Len(stack'),
                      stack'[p] = <<"dial", t>>, stack'[q] = <<"dial", t>>
               PROVE  p = q
    BY DEF DialsDistinct
  <2>1. p \in 1..Len(stack) /\ q \in 1..Len(stack)
    BY <1>1, <1>2
  <2> QED
    BY <1>1, <2>1 DEF StackInv, DialsDistinct
<1> QED
  BY <1>3, <1>4, Zenon DEF StackInv, PendingMatchesStack, PendingRuns

LEMMA StackDial ==
  ASSUME TypeOK, StackInv, NEW t \in Tags, Dial(t)
  PROVE  StackInv'
<1>0. /\ stack' = Append(stack, <<"dial", t>>) /\ pending' = pending \cup {t}
      /\ dial' = [dial EXCEPT ![t] = "asking"] /\ dial[t] = "idle"
      /\ <<"dial", t>> \in Entries
  BY EntryKinds DEF Dial
<1>1. /\ Len(stack) \in Nat /\ Len(stack') = Len(stack) + 1
      /\ \A p \in 1..Len(stack) : stack'[p] = stack[p]
      /\ stack'[Len(stack) + 1] = <<"dial", t>>
  BY <1>0, PushOnto
<1>2. /\ \A p \in 1..Len(stack') : p \in 1..Len(stack) \/ p = Len(stack) + 1
      /\ \A p \in 1..Len(stack) : p \in 1..Len(stack')
      /\ Len(stack) + 1 \in 1..Len(stack')
  BY <1>1
<1>3. t \notin pending /\ ~OnStack(<<"dial", t>>)
  BY <1>0 DEF StackInv, PendingMatchesStack, PendingRuns
<1>4. \A u \in Tags : u # t => <<"dial", u>> # <<"dial", t>>
  BY EntryShapes
<1>5. \A u \in Tags : OnStack(<<"dial", u>>)' <=> u = t \/ OnStack(<<"dial", u>>)
  BY <1>1, <1>2, <1>4 DEF OnStack
<1>6. DialsDistinct'
  <2> SUFFICES ASSUME NEW u \in Tags, NEW p \in 1..Len(stack'), NEW q \in 1..Len(stack'),
                      stack'[p] = <<"dial", u>>, stack'[q] = <<"dial", u>>
               PROVE  p = q
    BY DEF DialsDistinct
  <2>1. CASE u = t
    BY <1>1, <1>2, <1>3, <2>1 DEF OnStack
  <2>2. CASE u # t
    <3>1. p \in 1..Len(stack) /\ q \in 1..Len(stack)
      BY <1>1, <1>2, <1>4, <2>2
    <3> QED
      BY <1>1, <3>1 DEF StackInv, DialsDistinct
  <2> QED
    BY <2>1, <2>2
<1>7. PendingMatchesStack'
  BY <1>0, <1>5 DEF StackInv, PendingMatchesStack
<1>8. PendingRuns'
  BY <1>0, <1>3 DEF StackInv, PendingRuns, TypeOK
<1> QED
  BY <1>6, <1>7, <1>8 DEF StackInv

LEMMA StackDialEnds ==
  ASSUME TypeOK, StackInv, NEW t \in Tags, DialRaises(t) \/ DialReturns(t)
  PROVE  StackInv'
<1>0. /\ TopIs(<<"dial", t>>) /\ stack' = Below /\ pending' = pending \ {t}
      /\ \/ dial' = [dial EXCEPT ![t] = "raised"]
         \/ dial' = [dial EXCEPT ![t] = "returned"]
      /\ <<"dial", t>> \in Entries
  BY EntryKinds DEF DialRaises, DialReturns
<1>1. /\ Len(stack) \in Nat \ {0} /\ Len(stack') = Len(stack) - 1
      /\ stack[Len(stack)] = <<"dial", t>>
      /\ \A p \in 1..Len(stack') : stack'[p] = stack[p]
  BY <1>0, PopBelow
<1>2. /\ \A p \in 1..Len(stack) : p \in 1..Len(stack') \/ p = Len(stack)
      /\ \A p \in 1..Len(stack') : p \in 1..Len(stack) /\ p # Len(stack)
      /\ Len(stack) \in 1..Len(stack)
  BY <1>1
<1>3. \A u \in Tags : u # t => <<"dial", u>> # <<"dial", t>>
  BY EntryShapes
<1>4. ~OnStack(<<"dial", t>>)'
  BY <1>1, <1>2 DEF OnStack, StackInv, DialsDistinct
<1>5. \A u \in Tags : OnStack(<<"dial", u>>)' <=> u # t /\ OnStack(<<"dial", u>>)
  BY <1>1, <1>2, <1>3, <1>4 DEF OnStack
<1>6. DialsDistinct'
  BY <1>1, <1>2 DEF StackInv, DialsDistinct
<1>7. PendingMatchesStack'
  BY <1>0, <1>5 DEF StackInv, PendingMatchesStack
<1>8. PendingRuns'
  BY <1>0 DEF StackInv, PendingRuns, TypeOK
<1> QED
  BY <1>6, <1>7, <1>8 DEF StackInv

LEMMA StackStep == TypeOK /\ StackInv /\ [Next]_vars => StackInv'
<1> SUFFICES ASSUME TypeOK, StackInv, [Next]_vars PROVE StackInv'
  OBVIOUS
<1>0. ASSUME UNCHANGED <<stack, pending, dial>> PROVE StackInv'
  BY <1>0, Zenon DEF StackInv, DialsDistinct, PendingMatchesStack, PendingRuns, OnStack
<1>1. CASE Request
  BY <1>1, EntryKinds, EntryShapes, StackPushed DEF Request
<1>2. CASE RequestEnds
  BY <1>2, EntryKinds, EntryShapes, StackPopped DEF RequestEnds
<1>3. ASSUME NEW t \in Tags, Dial(t) PROVE StackInv'
  BY <1>3, StackDial
<1>4. ASSUME NEW t \in Tags, DialAccepted(t) PROVE StackInv'
  <2>1. /\ UNCHANGED <<stack, pending>> /\ dial' = [dial EXCEPT ![t] = "waiting"]
        /\ dial[t] = "asking"
    BY <1>4 DEF DialAccepted
  <2>2. PendingRuns'
    BY <2>1 DEF StackInv, PendingRuns, TypeOK
  <2> QED
    BY <2>1, <2>2, Zenon DEF StackInv, DialsDistinct, PendingMatchesStack, OnStack
<1>5. ASSUME NEW t \in Tags, DialRaises(t) \/ DialReturns(t) PROVE StackInv'
  BY <1>5, StackDialEnds
<1>6. ASSUME NEW c \in Calls, ListenersReturn(c) PROVE StackInv'
  <2>1. TopIs(<<"listeners", c>>) /\ stack' = Below /\ UNCHANGED <<pending, dial>>
    BY <1>6 DEF ListenersReturn
  <2> QED
    BY <2>1, EntryKinds, EntryShapes, StackPopped
<1>7. ASSUME NEW c \in Calls, OnCallReturns(c) PROVE StackInv'
  <2>1. TopIs(<<"on_call", c>>) /\ stack' = Below /\ UNCHANGED <<pending, dial>>
    BY <1>7 DEF OnCallReturns
  <2> QED
    BY <2>1, EntryKinds, EntryShapes, StackPopped
<1>8. CASE HandleState
  <2> DEFINE d == wire[1].call
  <2>1. /\ d \in Calls /\ UNCHANGED <<pending, dial>>
        /\ stack' = stack \/ stack' = Append(stack, <<"listeners", d>>)
    BY <1>8, StateCases
  <2> HIDE DEF d
  <2>2. <<"listeners", d>> \in Entries /\ \A t \in Tags : <<"listeners", d>> # <<"dial", t>>
    BY <2>1, EntryKinds, EntryShapes
  <2> QED
    BY <1>0, <2>1, <2>2, StackPushed
<1>9. CASE HandleReceive
  <2> DEFINE d == wire[1].call
  <2>1. /\ d \in Calls /\ UNCHANGED <<pending, dial>>
        /\ stack' = stack \/ stack' = Append(stack, <<"on_call", d>>)
    BY <1>9, ReceiveCases
  <2> HIDE DEF d
  <2>2. <<"on_call", d>> \in Entries /\ \A t \in Tags : <<"on_call", d>> # <<"dial", t>>
    BY <2>1, EntryKinds, EntryShapes
  <2> QED
    BY <1>0, <2>1, <2>2, StackPushed
<1>10. CASE HandleRpc \/ HandleAnswered \/ HandleFailed
  BY <1>0, <1>10, RpcCases, AnsweredCases, FailedCases, Zenon
<1>11. CASE ServerStep
  BY <1>0, <1>11, ServerStepClient, Zenon DEF clientVars
<1>12. CASE ReadEof \/ Reconnect
  BY <1>0, <1>12, Zenon DEF ReadEof, Reconnect
<1>13. CASE Drop \/ UNCHANGED vars
  BY <1>0, <1>13, Zenon DEF Drop, vars, clientVars
<1> QED
  BY <1>1, <1>2, <1>3, <1>4, <1>5, <1>6, <1>7, <1>8, <1>9, <1>10, <1>11, <1>12, <1>13, NextCases,
     Zenon DEF ServerStep

-----------------------------------------------------------------------------
(* The table of calls.                                                     *)

LEMMA TableInit == Init => TableInv
<1> SUFFICES ASSUME Init PROVE TableInv
  OBVIOUS
<1>1. calls = {} /\ held = {} /\ calls \cap Inbound = {}
  BY DEF Init
<1>2. IsFiniteSet(calls) /\ InboundCapped
  BY <1>1, FS_EmptySet, CallIds DEF InboundCapped
<1>3. OpenCallsListed /\ HeldWereSeen /\ EndedCallsLeave
  BY <1>1 DEF Init, OpenCallsListed, HeldWereSeen, EndedCallsLeave
<1> QED
  BY <1>2, <1>3 DEF TableInv

(* An outbound call, or one that is in the table already, costs no slot.   *)
LEMMA SlotKept ==
  ASSUME TypeOK, IsFiniteSet(calls), InboundCapped, NEW c, c \in calls \/ c \notin Inbound,
         calls' = calls \cup {c}
  PROVE  IsFiniteSet(calls') /\ InboundCapped'
<1>1. IsFiniteSet(calls')
  BY FS_AddElement
<1>2. calls' \cap Inbound = calls \cap Inbound
  OBVIOUS
<1> QED
  BY <1>1, <1>2, Zenon DEF InboundCapped

(* A call that is accepted took a slot that was free.                      *)
LEMMA SlotTaken ==
  ASSUME TypeOK, IsFiniteSet(calls), NEW c, ~(Cardinality(calls) >= MaxActiveCalls),
         calls' = calls \cup {c}
  PROVE  IsFiniteSet(calls') /\ InboundCapped'
<1>1. /\ IsFiniteSet(calls') /\ Cardinality(calls) \in Nat
      /\ Cardinality(calls') = Cardinality(calls) \/ Cardinality(calls') = Cardinality(calls) + 1
  BY FS_AddElement, FS_CardinalityType
<1>2. Cardinality(calls') <= MaxActiveCalls
  BY <1>1, CallIds
<1>3. /\ IsFiniteSet(calls' \cap Inbound) /\ Cardinality(calls' \cap Inbound) <= Cardinality(calls')
  BY <1>1, FS_Subset
<1>4. Cardinality(calls' \cap Inbound) \in Nat /\ Cardinality(calls') \in Nat
  BY <1>1, <1>3, FS_CardinalityType
<1>5. Cardinality(calls' \cap Inbound) <= MaxActiveCalls
  BY <1>2, <1>3, <1>4, CallIds
<1> QED
  BY <1>1, <1>5 DEF InboundCapped

(* An entry that is no listeners' may come and go.                         *)
LEMMA ListenersStay ==
  ASSUME TypeOK, EndedCallsLeave, UNCHANGED <<calls, state>>,
         NEW e \in Entries, \A c \in Calls : e # <<"listeners", c>>,
         stack' = Append(stack, e) \/ (TopIs(e) /\ stack' = Below)
  PROVE  EndedCallsLeave'
<1> SUFFICES ASSUME NEW c \in calls, state[c] = "ended"
             PROVE  OnStack(<<"listeners", c>>)'
  BY DEF EndedCallsLeave
<1>1. PICK p \in 1..Len(stack) : stack[p] = <<"listeners", c>>
  BY DEF EndedCallsLeave, OnStack
<1>2. c \in Calls
  BY DEF TypeOK
<1>3. CASE stack' = Append(stack, e)
  <2>1. p \in 1..Len(stack') /\ stack'[p] = <<"listeners", c>>
    BY <1>1, <1>3, PushOnto
  <2> QED
    BY <2>1 DEF OnStack
<1>4. CASE TopIs(e) /\ stack' = Below
  <2>0. /\ Len(stack) \in Nat \ {0} /\ stack[Len(stack)] = e
        /\ Len(stack') = Len(stack) - 1
        /\ \A q \in 1..Len(stack') : stack'[q] = stack[q]
    BY <1>4, PopBelow
  <2>1. p # Len(stack)
    BY <1>1, <1>2, <2>0
  <2>2. p \in 1..Len(stack') /\ stack'[p] = <<"listeners", c>>
    BY <1>1, <2>0, <2>1
  <2> QED
    BY <2>2 DEF OnStack
<1> QED
  BY <1>3, <1>4

LEMMA TableUnchanged ==
  ASSUME TableInv, UNCHANGED <<stack, calls, state, held, winner>>
  PROVE  TableInv'
  BY Zenon DEF TableInv, InboundCapped, OpenCallsListed, HeldWereSeen, EndedCallsLeave, OnStack

LEMMA TableStack ==
  ASSUME TypeOK, TableInv, UNCHANGED <<calls, state, held, winner>>,
         NEW e \in Entries, \A c \in Calls : e # <<"listeners", c>>,
         stack' = Append(stack, e) \/ (TopIs(e) /\ stack' = Below)
  PROVE  TableInv'
<1>1. EndedCallsLeave'
  BY ListenersStay DEF TableInv
<1> QED
  BY <1>1, Zenon DEF TableInv, InboundCapped, OpenCallsListed, HeldWereSeen

LEMMA TableState == TypeOK /\ TableInv /\ HandleState => TableInv'
<1> SUFFICES ASSUME TypeOK, TableInv, HandleState PROVE TableInv'
  OBVIOUS
<1> DEFINE c == wire[1].call
           s == wire[1].state
<1>1. /\ c \in Calls /\ s \in CallStates /\ held' = held /\ winner' = winner
      /\ pending' = pending
      /\ \/ /\ Known(c) /\ calls' = calls \cup {c} /\ state' = [state EXCEPT ![c] = s]
            /\ stack' = Append(stack, <<"listeners", c>>)
         \/ UNCHANGED <<calls, state, stack>>
  BY StateCases
<1> HIDE DEF c, s
<1>2. CASE UNCHANGED <<calls, state, stack>>
  BY <1>1, <1>2, TableUnchanged
<1>3. CASE /\ Known(c) /\ calls' = calls \cup {c} /\ state' = [state EXCEPT ![c] = s]
           /\ stack' = Append(stack, <<"listeners", c>>)
  <2>1. c \in calls \/ c \notin Inbound
    BY <1>3, LegsAreCalls DEF Known
  <2>2. IsFiniteSet(calls') /\ InboundCapped'
    BY <1>3, <2>1, SlotKept DEF TableInv
  <2>3. /\ state'[c] = s /\ \A d \in Calls : d # c => state'[d] = state[d]
        /\ s # "none"
    BY <1>1, <1>3 DEF TypeOK, CallStates
  <2>4. OpenCallsListed'
    BY <1>3, <2>3 DEF TableInv, OpenCallsListed
  <2>5. HeldWereSeen'
    <3>1. held \subseteq Calls /\ \A t \in Tags : winner[t] # NoCall => winner[t] \in Calls
      BY LegsAreCalls DEF TypeOK
    <3> QED
      BY <1>1, <2>3, <3>1 DEF TableInv, HeldWereSeen
  <2>6. EndedCallsLeave'
    <3> SUFFICES ASSUME NEW d \in calls', state'[d] = "ended"
                 PROVE  OnStack(<<"listeners", d>>)'
      BY DEF EndedCallsLeave
    <3>1. <<"listeners", c>> \in Entries
      BY <1>1, EntryKinds
    <3>2. /\ Len(stack) \in Nat /\ Len(stack') = Len(stack) + 1
          /\ \A p \in 1..Len(stack) : stack'[p] = stack[p]
          /\ stack'[Len(stack) + 1] = <<"listeners", c>>
      BY <1>3, <3>1, PushOnto
    <3>3. Len(stack) + 1 \in 1..Len(stack') /\ \A p \in 1..Len(stack) : p \in 1..Len(stack')
      BY <3>2
    <3>4. CASE d = c
      BY <3>2, <3>3, <3>4 DEF OnStack
    <3>5. CASE d # c
      <4>1. d \in calls /\ d \in Calls /\ state[d] = "ended"
        BY <1>3, <2>3, <3>5 DEF TypeOK
      <4>2. PICK p \in 1..Len(stack) : stack[p] = <<"listeners", d>>
        BY <4>1 DEF TableInv, EndedCallsLeave, OnStack
      <4> QED
        BY <3>2, <3>3, <4>2 DEF OnStack
    <3> QED
      BY <3>4, <3>5
  <2> QED
    BY <2>2, <2>4, <2>5, <2>6 DEF TableInv
<1> QED
  BY <1>1, <1>2, <1>3

LEMMA TableAnswered == TypeOK /\ TableInv /\ HandleAnswered => TableInv'
<1> SUFFICES ASSUME TypeOK, TableInv, HandleAnswered PROVE TableInv'
  OBVIOUS
<1> DEFINE c == wire[1].call
           t == wire[1].tag
<1>1. /\ c \in Calls /\ c \in Outbound /\ t \in Tags /\ held' = held /\ stack' = stack
      /\ \/ /\ calls' = calls \cup {c} /\ state' = [state EXCEPT ![c] = "answered"]
            /\ winner' = [winner EXCEPT ![t] = c]
         \/ UNCHANGED <<calls, state, winner>>
  BY AnsweredCases
<1> HIDE DEF c, t
<1>2. CASE UNCHANGED <<calls, state, winner>>
  BY <1>1, <1>2, TableUnchanged
<1>3. CASE /\ calls' = calls \cup {c} /\ state' = [state EXCEPT ![c] = "answered"]
           /\ winner' = [winner EXCEPT ![t] = c]
  <2>1. IsFiniteSet(calls') /\ InboundCapped'
    BY <1>1, <1>3, SlotKept, LegsAreCalls DEF TableInv
  <2>2. state'[c] = "answered" /\ \A d \in Calls : d # c => state'[d] = state[d]
    BY <1>1, <1>3 DEF TypeOK
  <2>3. OpenCallsListed'
    BY <1>3, <2>2 DEF TableInv, OpenCallsListed
  <2>4. HeldWereSeen'
    <3>1. held \subseteq Calls /\ \A u \in Tags : winner[u] # NoCall => winner[u] \in Calls
      BY LegsAreCalls DEF TypeOK
    <3>2. winner'[t] = c /\ \A u \in Tags : u # t => winner'[u] = winner[u]
      BY <1>1, <1>3 DEF TypeOK
    <3> QED
      BY <1>1, <2>2, <3>1, <3>2 DEF TableInv, HeldWereSeen
  <2>5. EndedCallsLeave'
    <3>1. \A d \in calls' : state'[d] = "ended" => d \in calls /\ state[d] = "ended"
      BY <1>3, <2>2 DEF TypeOK
    <3> QED
      BY <1>1, <3>1 DEF TableInv, EndedCallsLeave, OnStack
  <2> QED
    BY <2>1, <2>3, <2>4, <2>5 DEF TableInv
<1> QED
  BY <1>1, <1>2, <1>3

LEMMA TableReceive == TypeOK /\ TableInv /\ HandleReceive => TableInv'
<1> SUFFICES ASSUME TypeOK, TableInv, HandleReceive PROVE TableInv'
  OBVIOUS
<1> DEFINE c == wire[1].call
<1>1. /\ c \in Calls /\ winner' = winner
      /\ \/ /\ ~(Cardinality(calls) >= MaxActiveCalls)
            /\ calls' = calls \cup {c} /\ state' = [state EXCEPT ![c] = "ringing"]
            /\ held' = held \cup {c} /\ stack' = Append(stack, <<"on_call", c>>)
         \/ UNCHANGED <<calls, state, held, stack>>
  BY ReceiveCases
<1> HIDE DEF c
<1>2. CASE UNCHANGED <<calls, state, held, stack>>
  BY <1>1, <1>2, TableUnchanged
<1>3. CASE /\ ~(Cardinality(calls) >= MaxActiveCalls)
           /\ calls' = calls \cup {c} /\ state' = [state EXCEPT ![c] = "ringing"]
           /\ held' = held \cup {c} /\ stack' = Append(stack, <<"on_call", c>>)
  <2>1. IsFiniteSet(calls') /\ InboundCapped'
    BY <1>3, SlotTaken DEF TableInv
  <2>2. state'[c] = "ringing" /\ \A d \in Calls : d # c => state'[d] = state[d]
    BY <1>1, <1>3 DEF TypeOK
  <2>3. OpenCallsListed'
    BY <1>3, <2>2 DEF TableInv, OpenCallsListed
  <2>4. HeldWereSeen'
    <3>1. held \subseteq Calls /\ \A u \in Tags : winner[u] # NoCall => winner[u] \in Calls
      BY LegsAreCalls DEF TypeOK
    <3> QED
      BY <1>1, <1>3, <2>2, <3>1 DEF TableInv, HeldWereSeen
  <2>5. EndedCallsLeave'
    <3> SUFFICES ASSUME NEW d \in calls', state'[d] = "ended"
                 PROVE  OnStack(<<"listeners", d>>)'
      BY DEF EndedCallsLeave
    <3>1. d \in calls /\ state[d] = "ended"
      BY <1>3, <2>2 DEF TypeOK
    <3>2. PICK p \in 1..Len(stack) : stack[p] = <<"listeners", d>>
      BY <3>1 DEF TableInv, EndedCallsLeave, OnStack
    <3>3. <<"on_call", c>> \in Entries
      BY <1>1, EntryKinds
    <3>4. p \in 1..Len(stack') /\ stack'[p] = <<"listeners", d>>
      BY <1>3, <3>2, <3>3, PushOnto
    <3> QED
      BY <3>4 DEF OnStack
  <2> QED
    BY <2>1, <2>3, <2>4, <2>5 DEF TableInv
<1> QED
  BY <1>1, <1>2, <1>3

LEMMA TableLeaves ==
  ASSUME TypeOK, TableInv, NEW c \in Calls, ListenersReturn(c)
  PROVE  TableInv'
<1>1. /\ TopIs(<<"listeners", c>>) /\ stack' = Below
      /\ UNCHANGED <<state, held, winner>>
      /\ calls' = IF state[c] = "ended" THEN calls \ {c} ELSE calls
  BY Zenon DEF ListenersReturn
<1>2. calls' \subseteq calls /\ \A d \in calls : d \in calls' \/ (d = c /\ state[c] = "ended")
  BY <1>1
<1>3. IsFiniteSet(calls') /\ InboundCapped'
  <2>1. IsFiniteSet(calls') /\ IsFiniteSet(calls \cap Inbound)
    BY <1>2, FS_Subset DEF TableInv
  <2>2. (calls' \cap Inbound) \subseteq (calls \cap Inbound)
    BY <1>2
  <2>3. /\ IsFiniteSet(calls' \cap Inbound)
        /\ Cardinality(calls' \cap Inbound) <= Cardinality(calls \cap Inbound)
    BY <2>1, <2>2, FS_Subset
  <2>4. Cardinality(calls' \cap Inbound) \in Nat /\ Cardinality(calls \cap Inbound) \in Nat
    BY <2>1, <2>3, FS_CardinalityType
  <2>5. Cardinality(calls' \cap Inbound) <= MaxActiveCalls
    BY <2>3, <2>4, CallIds DEF TableInv, InboundCapped
  <2> QED
    BY <2>1, <2>5 DEF InboundCapped
<1>4. OpenCallsListed' /\ HeldWereSeen'
  BY <1>1, <1>2 DEF TableInv, OpenCallsListed, HeldWereSeen
<1>5. EndedCallsLeave'
  <2> SUFFICES ASSUME NEW d \in calls', state'[d] = "ended"
               PROVE  OnStack(<<"listeners", d>>)'
    BY DEF EndedCallsLeave
  <2>1. d \in calls /\ state[d] = "ended" /\ d # c
    BY <1>1
  <2>2. PICK p \in 1..Len(stack) : stack[p] = <<"listeners", d>>
    BY <2>1 DEF TableInv, EndedCallsLeave, OnStack
  <2>3. <<"listeners", c>> \in Entries /\ <<"listeners", d>> # <<"listeners", c>>
    BY <2>1, EntryKinds, EntryShapes
  <2>4. /\ Len(stack) \in Nat \ {0} /\ stack[Len(stack)] = <<"listeners", c>>
        /\ Len(stack') = Len(stack) - 1
        /\ \A q \in 1..Len(stack') : stack'[q] = stack[q]
    BY <1>1, <2>3, PopBelow
  <2>5. p # Len(stack)
    BY <2>2, <2>3, <2>4
  <2>6. p \in 1..Len(stack') /\ stack'[p] = <<"listeners", d>>
    BY <2>2, <2>4, <2>5
  <2> QED
    BY <2>6 DEF OnStack
<1> QED
  BY <1>3, <1>4, <1>5 DEF TableInv

LEMMA TableStep == TypeOK /\ TableInv /\ [Next]_vars => TableInv'
<1> SUFFICES ASSUME TypeOK, TableInv, [Next]_vars PROVE TableInv'
  OBVIOUS
<1>1. CASE Request
  <2>1. /\ stack' = Append(stack, <<"request">>) /\ UNCHANGED <<calls, state, held, winner>>
        /\ <<"request">> \in Entries /\ \A c \in Calls : <<"request">> # <<"listeners", c>>
    BY <1>1, EntryKinds, EntryShapes DEF Request, callsUnchanged
  <2> QED
    BY <2>1, TableStack
<1>2. CASE RequestEnds
  <2>1. /\ TopIs(<<"request">>) /\ stack' = Below /\ UNCHANGED <<calls, state, held, winner>>
        /\ <<"request">> \in Entries /\ \A c \in Calls : <<"request">> # <<"listeners", c>>
    BY <1>2, EntryKinds, EntryShapes DEF RequestEnds, callsUnchanged
  <2> QED
    BY <2>1, TableStack
<1>3. ASSUME NEW t \in Tags, Dial(t) PROVE TableInv'
  <2>1. /\ stack' = Append(stack, <<"dial", t>>) /\ UNCHANGED <<calls, state, held, winner>>
        /\ <<"dial", t>> \in Entries /\ \A c \in Calls : <<"dial", t>> # <<"listeners", c>>
    BY <1>3, EntryKinds, EntryShapes DEF Dial, callsUnchanged
  <2> QED
    BY <2>1, TableStack
<1>4. ASSUME NEW t \in Tags, DialAccepted(t) PROVE TableInv'
  <2>1. UNCHANGED <<stack, calls, state, held, winner>>
    BY <1>4, Zenon DEF DialAccepted, callsUnchanged
  <2> QED
    BY <2>1, TableUnchanged
<1>5. ASSUME NEW t \in Tags, DialRaises(t) PROVE TableInv'
  <2>1. /\ TopIs(<<"dial", t>>) /\ stack' = Below /\ UNCHANGED <<calls, state, held, winner>>
        /\ <<"dial", t>> \in Entries /\ \A c \in Calls : <<"dial", t>> # <<"listeners", c>>
    BY <1>5, EntryKinds, EntryShapes DEF DialRaises, callsUnchanged
  <2> QED
    BY <2>1, TableStack
<1>6. ASSUME NEW t \in Tags, DialReturns(t) PROVE TableInv'
  <2>1. /\ TopIs(<<"dial", t>>) /\ stack' = Below /\ UNCHANGED <<calls, state, winner>>
        /\ <<"dial", t>> \in Entries /\ \A c \in Calls : <<"dial", t>> # <<"listeners", c>>
        /\ held' = held \cup {winner[t]} /\ winner[t] # NoCall
    BY <1>6, EntryKinds, EntryShapes DEF DialReturns
  <2>2. EndedCallsLeave'
    BY <2>1, ListenersStay DEF TableInv
  <2>3. HeldWereSeen'
    BY <2>1 DEF TableInv, HeldWereSeen
  <2> QED
    BY <2>1, <2>2, <2>3, Zenon DEF TableInv, InboundCapped, OpenCallsListed
<1>7. ASSUME NEW c \in Calls, ListenersReturn(c) PROVE TableInv'
  BY <1>7, TableLeaves
<1>8. ASSUME NEW c \in Calls, OnCallReturns(c) PROVE TableInv'
  <2>1. /\ TopIs(<<"on_call", c>>) /\ stack' = Below /\ UNCHANGED <<calls, state, held, winner>>
        /\ <<"on_call", c>> \in Entries /\ \A d \in Calls : <<"on_call", c>> # <<"listeners", d>>
    BY <1>8, EntryKinds, EntryShapes DEF OnCallReturns, callsUnchanged
  <2> QED
    BY <2>1, TableStack
<1>9. CASE HandleState \/ HandleAnswered \/ HandleReceive
  BY <1>9, TableState, TableAnswered, TableReceive
<1>10. CASE HandleRpc \/ HandleFailed
  BY <1>10, RpcCases, FailedCases, TableUnchanged
<1>11. CASE ServerStep
  BY <1>11, ServerStepClient, TableUnchanged DEF clientVars
<1>12. CASE ReadEof \/ Reconnect
  <2>1. UNCHANGED <<stack, calls, state, held, winner>>
    BY <1>12, Zenon DEF ReadEof, Reconnect, callsUnchanged
  <2> QED
    BY <2>1, TableUnchanged
<1>13. CASE Drop \/ UNCHANGED vars
  <2>1. UNCHANGED <<stack, calls, state, held, winner>>
    BY <1>13, Zenon DEF Drop, vars, clientVars
  <2> QED
    BY <2>1, TableUnchanged
<1> QED
  BY <1>1, <1>2, <1>3, <1>4, <1>5, <1>6, <1>7, <1>8, <1>9, <1>10, <1>11, <1>12, <1>13, NextCases,
     Zenon DEF ServerStep

-----------------------------------------------------------------------------
(* What the server says of dials is so and stays so.                       *)

ServerTruth ==
  /\ \A p \in Positions : p \in Positions' /\ wire'[p] = wire[p]
  /\ \A p \in Positions' : p \in Positions \/
       /\ p > Len(wire)
       /\ \A t \in Tags :
            /\ IsAnswered(wire'[p], t) =>
                 /\ remoteDial[t] = "dialing" /\ remoteDial'[t] = "answered"
                 /\ wire'[p].call \in Legs[t] /\ remote'[wire'[p].call] \in {"answered", "ended"}
            /\ IsRefusal(wire'[p], t) => remoteDial'[t] = "failed"
  /\ \A t \in Tags :
       /\ remoteDial[t] \in {"none", "answered", "failed"} => remoteDial'[t] = remoteDial[t]
       /\ remoteDial'[t] \in {"dialing", "answered"} =>
            \/ remoteDial[t] \in {"dialing", "answered"}
            \/ link = "up" => \E p \in Positions' : IsAck(wire'[p], t)
  /\ \A c \in Calls : remote[c] \in {"answered", "ended"} => remote'[c] \in {"answered", "ended"}

LEMMA ServerSays == TypeOK /\ ServerStep => ServerTruth
<1> SUFFICES ASSUME TypeOK, ServerStep PROVE ServerTruth
  OBVIOUS
<1> DEFINE Old == \A p \in Positions : p \in Positions' /\ wire'[p] = wire[p]
           New(fs) == \A p \in Positions' :
                        \/ p \in Positions
                        \/ p > Len(wire) /\ \E k \in 1..Len(fs) : wire'[p] = fs[k]
<1>0. ASSUME NEW fs \in Seq(Frames), Send(fs) PROVE Old /\ New(fs)
  <2>1. /\ Len(wire) \in Nat /\ Len(fs) \in Nat /\ Old
        /\ \A p \in Positions' :
             p \in Positions \/ \E k \in 1..Len(fs) : p = Len(wire) + k /\ wire'[p] = fs[k]
    BY <1>0, Sent, LenProperties
  <2>2. \A k \in 1..Len(fs) : Len(wire) + k > Len(wire)
    BY <2>1
  <2> QED
    BY <2>1, <2>2
<1> HIDE DEF Old, New
<1>1. ASSUME NEW t \in Tags, ServerFailsDial(t) PROVE ServerTruth
  <2> DEFINE f == [kind |-> "failed", tag |-> t]
  <2>1. Old /\ New(<<f>>)
    BY <1>0, <1>1, FramesSent, Zenon DEF ServerFailsDial
  <2>2. /\ remoteDial[t] = "dialing" /\ remoteDial' = [remoteDial EXCEPT ![t] = "failed"]
        /\ remote' = remote
    BY <1>1 DEF ServerFailsDial
  <2>3. /\ \A u \in Tags : ~IsAnswered(f, u)
        /\ \A u \in Tags : IsRefusal(f, u) => u = t
    BY DEF IsAnswered, IsRefusal
  <2>4. \A p \in Positions' : p \in Positions \/ (p > Len(wire) /\ wire'[p] = f)
    BY <2>1 DEF New
  <2>5. remoteDial'[t] = "failed" /\ \A u \in Tags : u # t => remoteDial'[u] = remoteDial[u]
    BY <2>2 DEF TypeOK
  <2> HIDE DEF f
  <2> QED
    BY <2>1, <2>2, <2>3, <2>4, <2>5 DEF ServerTruth, Old
<1>2. ASSUME NEW t \in Tags, NEW answer \in {"ok", "refused"}, ServerAcksDial(t, answer)
      PROVE  ServerTruth
  <2> DEFINE f == [kind |-> "rpc", tag |-> t, answer |-> answer]
  <2>0. Send(<<f>>) /\ <<f>> \in Seq(Frames)
    BY <1>2, FramesSent, Zenon DEF ServerAcksDial
  <2>1. Old /\ New(<<f>>)
    BY <1>0, <2>0
  <2>2. /\ remoteDial[t] = "asked" /\ remote' = remote
        /\ \/ answer = "ok" /\ remoteDial' = [remoteDial EXCEPT ![t] = "dialing"]
           \/ answer # "ok" /\ remoteDial' = [remoteDial EXCEPT ![t] = "failed"]
    BY <1>2 DEF ServerAcksDial
  <2>3. /\ \A u \in Tags : ~IsAnswered(f, u)
        /\ \A u \in Tags : IsRefusal(f, u) => u = t /\ answer = "refused"
        /\ answer = "ok" => IsAck(f, t)
    BY DEF IsAnswered, IsAck, IsRefusal
  <2>4. \A p \in Positions' : p \in Positions \/ (p > Len(wire) /\ wire'[p] = f)
    BY <2>1 DEF New
  <2>5. /\ \/ remoteDial'[t] = "failed" /\ answer # "ok"
           \/ remoteDial'[t] = "dialing" /\ answer = "ok"
        /\ \A u \in Tags : u # t => remoteDial'[u] = remoteDial[u]
    BY <2>2 DEF TypeOK
  <2>6. link = "up" => \E p \in Positions' : wire'[p] = f
    <3>0. Len(<<f>>) = 1 /\ <<f>>[1] = f /\ 1 \in 1..1
      OBVIOUS
    <3>1. link = "up" => Len(wire') = Len(wire) + 1 /\ wire'[Len(wire) + 1] = f
      <4> HIDE DEF f
      <4> QED
        BY <2>0, <3>0, Sent
    <3>2. Len(wire) \in Nat
      BY <2>0, Sent
    <3> QED
      BY <3>1, <3>2 DEF Positions
  <2> HIDE DEF f
  <2> QED
    BY <2>1, <2>2, <2>3, <2>4, <2>5, <2>6 DEF ServerTruth, Old
<1>3. ASSUME NEW d \in Calls, ServerReceives(d) PROVE ServerTruth
  <2> DEFINE f == [kind |-> "receive", call |-> d]
  <2>1. Old /\ New(<<f>>)
    BY <1>0, <1>3, FramesSent, Zenon DEF ServerReceives
  <2>2. /\ remote[d] = "none" /\ remote' = [remote EXCEPT ![d] = "ringing"]
        /\ remoteDial' = remoteDial
    BY <1>3 DEF ServerReceives
  <2>3. \A u \in Tags : ~IsAnswered(f, u) /\ ~IsRefusal(f, u)
    BY DEF IsAnswered, IsRefusal
  <2>4. \A p \in Positions' : p \in Positions \/ (p > Len(wire) /\ wire'[p] = f)
    BY <2>1 DEF New
  <2>5. \A c \in Calls : c # d => remote'[c] = remote[c]
    BY <2>2 DEF TypeOK
  <2> HIDE DEF f
  <2> QED
    BY <2>1, <2>2, <2>3, <2>4, <2>5 DEF ServerTruth, Old
<1>4. ASSUME NEW d \in Calls, ServerEnds(d) PROVE ServerTruth
  <2> DEFINE f == StateFrame(d, "ended")
  <2>0. <<f>> \in Seq(Frames) /\ Send(<<f>>)
    BY <1>4, FramesSent DEF ServerEnds, CallStates
  <2>1. Old /\ New(<<f>>)
    BY <1>0, <2>0, Zenon
  <2>2. remote' = [remote EXCEPT ![d] = "ended"] /\ remoteDial' = remoteDial
    BY <1>4 DEF ServerEnds
  <2>3. \A u \in Tags : ~IsAnswered(f, u) /\ ~IsRefusal(f, u)
    BY DEF IsAnswered, IsRefusal, StateFrame
  <2>4. \A p \in Positions' : p \in Positions \/ (p > Len(wire) /\ wire'[p] = f)
    BY <2>1 DEF New
  <2>5. remote'[d] = "ended" /\ \A c \in Calls : c # d => remote'[c] = remote[c]
    BY <2>2 DEF TypeOK
  <2> HIDE DEF f
  <2> QED
    BY <2>1, <2>2, <2>3, <2>4, <2>5 DEF ServerTruth, Old
<1>5. ASSUME NEW t \in Tags, NEW d \in Outbound, ServerRings(t, d) PROVE ServerTruth
  <2> DEFINE f == StateFrame(d, "ringing")
  <2>0. <<f>> \in Seq(Frames) /\ Send(<<f>>)
    BY <1>5, FramesSent, LegsAreCalls DEF ServerRings, CallStates
  <2>1. Old /\ New(<<f>>)
    BY <1>0, <2>0, Zenon
  <2>2. /\ remote[d] = "none" /\ remote' = [remote EXCEPT ![d] = "ringing"]
        /\ remoteDial' = remoteDial
    BY <1>5 DEF ServerRings
  <2>3. \A u \in Tags : ~IsAnswered(f, u) /\ ~IsRefusal(f, u)
    BY DEF IsAnswered, IsRefusal, StateFrame
  <2>4. \A p \in Positions' : p \in Positions \/ (p > Len(wire) /\ wire'[p] = f)
    BY <2>1 DEF New
  <2>5. \A c \in Calls : c # d => remote'[c] = remote[c]
    BY <2>2 DEF TypeOK
  <2> HIDE DEF f
  <2> QED
    BY <2>1, <2>2, <2>3, <2>4, <2>5 DEF ServerTruth, Old
<1>6. ASSUME NEW t \in Tags, NEW d \in Outbound, ServerConnectsDial(t, d) PROVE ServerTruth
  <2> DEFINE dialed == [kind |-> "answered", tag |-> t, call |-> d]
             ring   == StateFrame(d, "answered")
  <2>1. /\ Send(<<ring, dialed>>) \/ Send(<<dialed, ring>>)
        /\ remoteDial[t] = "dialing" /\ d \in Legs[t]
        /\ remoteDial' = [remoteDial EXCEPT ![t] = "answered"]
        /\ remote' = [remote EXCEPT ![d] = "answered"]
    BY <1>6 DEF ServerConnectsDial
  <2>2. <<ring, dialed>> \in Seq(Frames) /\ <<dialed, ring>> \in Seq(Frames)
    BY FramesSent
  <2>3. Old /\ (New(<<ring, dialed>>) \/ New(<<dialed, ring>>))
    BY <1>0, <2>1, <2>2, Zenon
  <2>4. /\ \A k \in 1..Len(<<ring, dialed>>) : <<ring, dialed>>[k] \in {ring, dialed}
        /\ \A k \in 1..Len(<<dialed, ring>>) : <<dialed, ring>>[k] \in {ring, dialed}
    OBVIOUS
  <2>5. \A p \in Positions' :
          p \in Positions \/ (p > Len(wire) /\ wire'[p] \in {ring, dialed})
    BY <2>3, <2>4 DEF New
  <2>6. /\ \A u \in Tags : ~IsAnswered(ring, u) /\ ~IsRefusal(ring, u)
        /\ \A u \in Tags : IsAnswered(dialed, u) => u = t
        /\ \A u \in Tags : ~IsRefusal(dialed, u)
        /\ dialed.call = d
    BY DEF IsAnswered, IsRefusal, StateFrame
  <2>7. /\ remoteDial'[t] = "answered" /\ \A u \in Tags : u # t => remoteDial'[u] = remoteDial[u]
        /\ remote'[d] = "answered" /\ \A c \in Calls : c # d => remote'[c] = remote[c]
    BY <2>1, LegsAreCalls DEF TypeOK
  <2> HIDE DEF dialed, ring
  <2>8. ASSUME NEW p \in Positions', p \notin Positions, NEW u \in Tags
        PROVE  /\ p > Len(wire)
               /\ IsAnswered(wire'[p], u) =>
                 /\ remoteDial[u] = "dialing" /\ remoteDial'[u] = "answered"
                 /\ wire'[p].call \in Legs[u] /\ remote'[wire'[p].call] \in {"answered", "ended"}
               /\ IsRefusal(wire'[p], u) => remoteDial'[u] = "failed"
    <3>1. CASE wire'[p] = ring
      BY <2>5, <2>6, <2>8, <3>1
    <3>2. CASE wire'[p] = dialed
      BY <2>1, <2>5, <2>6, <2>7, <2>8, <3>2
    <3> QED
      BY <2>5, <2>8, <3>1, <3>2
  <2>9. \A u \in Tags :
       /\ remoteDial[u] \in {"none", "answered", "failed"} => remoteDial'[u] = remoteDial[u]
       /\ remoteDial'[u] \in {"dialing", "answered"} => remoteDial[u] \in {"dialing", "answered"}
    BY <2>1, <2>7
  <2> QED
    BY <2>3, <2>5, <2>7, <2>8, <2>9 DEF ServerTruth, Old
<1> QED
  BY <1>1, <1>2, <1>3, <1>4, <1>5, <1>6, Zenon DEF ServerStep

(* Handling a frame leaves the server, the link and where each dial() is   *)
(* as they are, and answers no pending dial but the frame's own.           *)
LEMMA HandleKeeps ==
  ASSUME TypeOK, Handle
  PROVE  /\ UNCHANGED <<dial, pending, link, remoteDial, remote, drops>>
         /\ \A p \in Positions' : p \in Nat /\ p + 1 \in Positions /\ wire'[p] = wire[p + 1]
         /\ 1 \in Positions
         /\ \A t \in Tags : winner'[t] = winner[t] \/
              (t \in pending /\ IsAnswered(wire[1], t) /\ winner'[t] = wire[1].call)
         /\ \A t \in Tags : t \in error' => t \in error \/ IsRefusal(wire[1], t)
<1>1. UNCHANGED <<dial, pending, link, remoteDial, remote, drops>>
  BY RpcCases, StateCases, AnsweredCases, FailedCases, ReceiveCases, Zenon DEF Handle
<1>2. \E kind : Arrives(kind)
  BY Zenon DEF Handle, HandleRpc, HandleState, HandleAnswered, HandleFailed, HandleReceive
<1>3. /\ \A p \in Positions' : p \in Nat /\ p + 1 \in Positions /\ wire'[p] = wire[p + 1]
      /\ 1 \in Positions
  BY <1>2, Taken
<1>4. \/ winner' = winner
      \/ /\ wire[1].kind = "answered" /\ wire[1].tag \in pending
         /\ winner' = [winner EXCEPT ![wire[1].tag] = wire[1].call]
  BY RpcCases, StateCases, AnsweredCases, FailedCases, ReceiveCases, Zenon DEF Handle
<1>5. \A t \in Tags : winner'[t] = winner[t] \/
        (t \in pending /\ IsAnswered(wire[1], t) /\ winner'[t] = wire[1].call)
  BY <1>4 DEF IsAnswered, TypeOK
<1>6. \/ error' = error
      \/ wire[1].kind = "failed" /\ error' = error \cup ({wire[1].tag} \cap pending)
  BY RpcCases, StateCases, AnsweredCases, FailedCases, ReceiveCases, Zenon DEF Handle
<1>7. \A t \in Tags : t \in error' => t \in error \/ IsRefusal(wire[1], t)
  BY <1>6 DEF IsRefusal
<1> QED
  BY <1>1, <1>3, <1>5, <1>7

LEMMA DialsInit == Init => DialsAnswered /\ DialsFailed /\ AckAhead
<1> SUFFICES ASSUME Init PROVE DialsAnswered /\ DialsFailed /\ AckAhead
  OBVIOUS
<1>1. Positions = {}
  BY DEF Init, Positions
<1>2. /\ drops = 0 /\ link = "up" /\ error = {}
      /\ \A t \in Tags : dial[t] = "idle" /\ winner[t] = NoCall /\ remoteDial[t] = "none"
  BY DEF Init
<1>3. DialsAnswered
  BY <1>1, <1>2 DEF DialsAnswered
<1>4. DialsFailed
  BY <1>1, <1>2 DEF DialsFailed
<1>5. AckAhead
  BY <1>1, <1>2 DEF AckAhead
<1> QED
  BY <1>3, <1>4, <1>5

LEMMA AnsweredHandle == TypeOK /\ StackInv /\ DialsAnswered /\ Handle => DialsAnswered'
<1> SUFFICES ASSUME TypeOK, StackInv, DialsAnswered, Handle, NEW t \in Tags
             PROVE  /\ dial'[t] = "idle" => remoteDial'[t] = "none"
                    /\ \A p \in Positions' : IsAnswered(wire'[p], t) =>
                         /\ remoteDial'[t] = "answered" /\ wire'[p].call \in Legs[t]
                         /\ remote'[wire'[p].call] \in {"answered", "ended"}
                    /\ winner'[t] # NoCall =>
                         /\ remoteDial'[t] = "answered" /\ winner'[t] \in Legs[t]
                         /\ remote'[winner'[t]] \in {"answered", "ended"}
                    /\ dial'[t] = "returned" => winner'[t] # NoCall
  BY Zenon DEF DialsAnswered, Answered, IsAnswered
<1>1. /\ UNCHANGED <<dial, pending, link, remoteDial, remote, drops>>
      /\ \A p \in Positions' : p \in Nat /\ p + 1 \in Positions /\ wire'[p] = wire[p + 1]
      /\ 1 \in Positions
      /\ winner'[t] = winner[t] \/
           (t \in pending /\ IsAnswered(wire[1], t) /\ winner'[t] = wire[1].call)
  BY HandleKeeps
<1>2. /\ dial[t] = "idle" => remoteDial[t] = "none"
      /\ \A p \in Positions : IsAnswered(wire[p], t) =>
           /\ remoteDial[t] = "answered" /\ wire[p].call \in Legs[t]
           /\ remote[wire[p].call] \in {"answered", "ended"}
      /\ winner[t] # NoCall =>
           /\ remoteDial[t] = "answered" /\ winner[t] \in Legs[t]
           /\ remote[winner[t]] \in {"answered", "ended"}
      /\ dial[t] = "returned" => winner[t] # NoCall
  BY DEF DialsAnswered, Answered
<1>3. dial[t] = "returned" => t \notin pending
  BY DEF StackInv, PendingRuns
<1> QED
  BY <1>1, <1>2, <1>3

LEMMA AnsweredServer == TypeOK /\ DialsAnswered /\ ServerStep => DialsAnswered'
<1> SUFFICES ASSUME TypeOK, DialsAnswered, ServerStep, NEW t \in Tags
             PROVE  /\ dial'[t] = "idle" => remoteDial'[t] = "none"
                    /\ \A p \in Positions' : IsAnswered(wire'[p], t) =>
                         /\ remoteDial'[t] = "answered" /\ wire'[p].call \in Legs[t]
                         /\ remote'[wire'[p].call] \in {"answered", "ended"}
                    /\ winner'[t] # NoCall =>
                         /\ remoteDial'[t] = "answered" /\ winner'[t] \in Legs[t]
                         /\ remote'[winner'[t]] \in {"answered", "ended"}
                    /\ dial'[t] = "returned" => winner'[t] # NoCall
  BY Zenon DEF DialsAnswered, Answered, IsAnswered
<1>1. dial' = dial /\ winner' = winner
  BY ServerStepClient, Zenon DEF clientVars
<1>2. /\ dial[t] = "idle" => remoteDial[t] = "none"
      /\ \A p \in Positions : IsAnswered(wire[p], t) =>
           /\ remoteDial[t] = "answered" /\ wire[p].call \in Legs[t]
           /\ remote[wire[p].call] \in {"answered", "ended"}
      /\ winner[t] # NoCall =>
           /\ remoteDial[t] = "answered" /\ winner[t] \in Legs[t]
           /\ remote[winner[t]] \in {"answered", "ended"}
      /\ dial[t] = "returned" => winner[t] # NoCall
  BY DEF DialsAnswered, Answered
<1>3. ServerTruth
  BY ServerSays
<1>4. \A c \in Legs[t] : c \in Calls
  BY LegsAreCalls
<1>5. /\ remoteDial[t] \in {"none", "answered", "failed"} => remoteDial'[t] = remoteDial[t]
      /\ \A c \in Calls : remote[c] \in {"answered", "ended"} => remote'[c] \in {"answered", "ended"}
  BY <1>3 DEF ServerTruth
<1>6. ASSUME NEW p \in Positions', IsAnswered(wire'[p], t)
      PROVE  /\ remoteDial'[t] = "answered" /\ wire'[p].call \in Legs[t]
             /\ remote'[wire'[p].call] \in {"answered", "ended"}
  <2>1. CASE p \in Positions
    <3>1. wire'[p] = wire[p]
      BY <1>3, <2>1 DEF ServerTruth
    <3> QED
      BY <1>2, <1>4, <1>5, <1>6, <2>1, <3>1
  <2>2. CASE p \notin Positions
    BY <1>3, <1>6, <2>2 DEF ServerTruth
  <2> QED
    BY <2>1, <2>2
<1> QED
  BY <1>1, <1>2, <1>4, <1>5, <1>6

LEMMA AnsweredStep == TypeOK /\ StackInv /\ DialsAnswered /\ [Next]_vars => DialsAnswered'
<1> SUFFICES ASSUME TypeOK, StackInv, DialsAnswered, [Next]_vars PROVE DialsAnswered'
  OBVIOUS
<1>0. ASSUME UNCHANGED <<wire, winner, remoteDial, remote, dial>> PROVE DialsAnswered'
  BY <1>0, Zenon DEF DialsAnswered, Answered, IsAnswered, Positions
<1>1. CASE Handle
  BY <1>1, AnsweredHandle
<1>2. CASE ServerStep
  BY <1>2, AnsweredServer
<1>3. ASSUME UNCHANGED <<wire, winner, remoteDial, remote>>,
             NEW t \in Tags, dial[t] # "idle", NEW s \in {"waiting", "raised", "returned"},
             s = "returned" => winner[t] # NoCall, dial' = [dial EXCEPT ![t] = s]
      PROVE  DialsAnswered'
  <2> SUFFICES ASSUME NEW u \in Tags
               PROVE  /\ dial'[u] = "idle" => remoteDial[u] = "none"
                      /\ dial'[u] = "returned" => winner[u] # NoCall
    BY <1>3, Zenon DEF DialsAnswered, Answered, IsAnswered, Positions
  <2>1. dial'[t] = s /\ (u # t => dial'[u] = dial[u])
    BY <1>3 DEF TypeOK
  <2>2. /\ dial[u] = "idle" => remoteDial[u] = "none"
        /\ dial[u] = "returned" => winner[u] # NoCall
    BY DEF DialsAnswered
  <2> QED
    BY <1>3, <2>1, <2>2
<1>4. CASE AppStep
  <2>1. UNCHANGED <<wire, winner, remoteDial, remote>>
    BY <1>4, AppStepKeeps
  <2>2. CASE Request \/ RequestEnds
    BY <1>0, <2>1, <2>2, Zenon DEF Request, RequestEnds
  <2>3. ASSUME NEW t \in Tags, DialAccepted(t) PROVE DialsAnswered'
    BY <1>3, <2>1, <2>3 DEF DialAccepted
  <2>4. ASSUME NEW t \in Tags, DialRaises(t) PROVE DialsAnswered'
    BY <1>3, <2>1, <2>4 DEF DialRaises
  <2>5. ASSUME NEW t \in Tags, DialReturns(t) PROVE DialsAnswered'
    BY <1>3, <2>1, <2>5 DEF DialReturns
  <2>6. ASSUME NEW c \in Calls, ListenersReturn(c) \/ OnCallReturns(c) PROVE DialsAnswered'
    BY <1>0, <2>1, <2>6, Zenon DEF ListenersReturn, OnCallReturns
  <2> QED
    BY <1>4, <2>2, <2>3, <2>4, <2>5, <2>6, Zenon DEF AppStep
<1>5. ASSUME NEW t \in Tags, Dial(t) PROVE DialsAnswered'
  <2>1. /\ dial' = [dial EXCEPT ![t] = "asking"] /\ dial[t] = "idle"
        /\ UNCHANGED <<wire, winner, remote>>
        /\ remoteDial' = remoteDial \/ remoteDial' = [remoteDial EXCEPT ![t] = "asked"]
    BY <1>5 DEF Dial, callsUnchanged
  <2>2. remoteDial[t] = "none"
    BY <2>1 DEF DialsAnswered
  <2> SUFFICES ASSUME NEW u \in Tags
               PROVE  /\ dial'[u] = "idle" => remoteDial'[u] = "none"
                      /\ remoteDial[u] = "answered" => remoteDial'[u] = "answered"
                      /\ dial'[u] = "returned" => winner[u] # NoCall
    BY <2>1, Zenon DEF DialsAnswered, Answered, IsAnswered, Positions
  <2>3. /\ dial'[t] = "asking" /\ (u # t => dial'[u] = dial[u])
        /\ u # t => remoteDial'[u] = remoteDial[u]
    BY <2>1 DEF TypeOK
  <2> QED
    BY <2>2, <2>3 DEF DialsAnswered
<1>6. CASE ReadEof \/ Reconnect
  BY <1>0, <1>6, Zenon DEF ReadEof, Reconnect, serverUnchanged
<1>7. CASE Drop
  <2>1. /\ UNCHANGED <<wire, winner, remote, dial>>
        /\ \A t \in Tags : remoteDial'[t] = IF remoteDial[t] = "asked" THEN "none" ELSE remoteDial[t]
    BY <1>7 DEF Drop, clientVars
  <2>2. \A t \in Tags : /\ remoteDial[t] = "none" => remoteDial'[t] = "none"
                        /\ remoteDial[t] = "answered" => remoteDial'[t] = "answered"
    BY <2>1
  <2> QED
    BY <2>1, <2>2, Zenon DEF DialsAnswered, Answered, IsAnswered, Positions
<1>8. CASE UNCHANGED vars
  BY <1>0, <1>8, Zenon DEF vars, clientVars
<1> QED
  BY <1>1, <1>2, <1>4, <1>5, <1>6, <1>7, <1>8, NextCases, Zenon DEF AppStep, ServerStep, Handle

LEMMA FailedStep == TypeOK /\ DialsAnswered /\ DialsFailed /\ [Next]_vars => DialsFailed'
<1> SUFFICES ASSUME TypeOK, DialsAnswered, DialsFailed, [Next]_vars PROVE DialsFailed'
  OBVIOUS
<1>0. ASSUME UNCHANGED <<wire, link, drops, error, remoteDial>> PROVE DialsFailed'
  BY <1>0, Zenon DEF DialsFailed, Positions, IsRefusal
<1>1. CASE Handle
  <2>1. /\ UNCHANGED <<link, remoteDial, drops>>
        /\ \A p \in Positions' : p \in Nat /\ p + 1 \in Positions /\ wire'[p] = wire[p + 1]
        /\ 1 \in Positions
        /\ \A t \in Tags : t \in error' => t \in error \/ IsRefusal(wire[1], t)
    BY <1>1, HandleKeeps
  <2> QED
    BY <2>1 DEF DialsFailed, IsRefusal
<1>2. CASE ServerStep
  <2>1. link' = link /\ drops' = drops /\ error' = error
    BY <1>2, ServerStepClient, Zenon DEF clientVars
  <2>2. ServerTruth
    BY <1>2, ServerSays
  <2> SUFFICES ASSUME NEW t \in Tags
               PROVE  /\ \A p \in Positions' : IsRefusal(wire'[p], t) =>
                           remoteDial'[t] = "failed"
                      /\ t \in error => remoteDial'[t] = "failed" \/ drops > 0
    BY <2>1, Zenon DEF DialsFailed, IsRefusal
  <2>3. remoteDial[t] = "failed" => remoteDial'[t] = "failed"
    BY <2>2 DEF ServerTruth
  <2>4. ASSUME NEW p \in Positions', IsRefusal(wire'[p], t)
        PROVE  remoteDial'[t] = "failed"
    <3>1. CASE p \in Positions
      BY <2>2, <2>3, <2>4, <3>1 DEF ServerTruth, DialsFailed
    <3>2. CASE p \notin Positions
      BY <2>2, <2>4, <3>2 DEF ServerTruth
    <3> QED
      BY <3>1, <3>2
  <2> QED
    BY <2>3, <2>4 DEF DialsFailed
<1>3. CASE AppStep
  BY <1>0, <1>3, AppStepKeeps
<1>4. ASSUME NEW t \in Tags, Dial(t) PROVE DialsFailed'
  <2>1. /\ dial[t] = "idle" /\ UNCHANGED <<wire, link, drops, error>>
        /\ remoteDial' = remoteDial \/ remoteDial' = [remoteDial EXCEPT ![t] = "asked"]
    BY <1>4 DEF Dial
  <2>2. remoteDial[t] = "none"
    BY <2>1 DEF DialsAnswered
  <2>3. \A u \in Tags : remoteDial[u] = "failed" => remoteDial'[u] = "failed"
    BY <2>1, <2>2 DEF TypeOK
  <2> QED
    BY <2>1, <2>3, Zenon DEF DialsFailed, Positions, IsRefusal
<1>5. CASE ReadEof
  <2>1. /\ link = "eof" /\ UNCHANGED <<wire, link, drops, remoteDial>>
    BY <1>5, Zenon DEF ReadEof, serverUnchanged
  <2>2. drops > 0
    BY <2>1 DEF DialsFailed
  <2> QED
    BY <2>1, <2>2, Zenon DEF DialsFailed, Positions, IsRefusal
<1>6. CASE Reconnect
  <2>1. link' # "eof" /\ UNCHANGED <<wire, drops, error, remoteDial>>
    BY <1>6 DEF Reconnect
  <2> QED
    BY <2>1, Zenon DEF DialsFailed, Positions, IsRefusal
<1>7. CASE Drop
  <2>1. /\ UNCHANGED <<wire, error>> /\ drops' > 0
        /\ \A t \in Tags : remoteDial'[t] = IF remoteDial[t] = "asked" THEN "none" ELSE remoteDial[t]
    BY <1>7 DEF Drop, clientVars, TypeOK
  <2>2. \A t \in Tags : remoteDial[t] = "failed" => remoteDial'[t] = "failed"
    BY <2>1
  <2> QED
    BY <2>1, <2>2, Zenon DEF DialsFailed, Positions, IsRefusal
<1>8. CASE UNCHANGED vars
  BY <1>0, <1>8, Zenon DEF vars, clientVars
<1> QED
  BY <1>1, <1>2, <1>3, <1>4, <1>5, <1>6, <1>7, <1>8, NextCases, Zenon
     DEF AppStep, ServerStep, Handle

-----------------------------------------------------------------------------
(* On a connection that never dropped the answer to calling.dial comes     *)
(* before the dial event.                                                  *)

AckOf(t) ==
  /\ dial[t] = "asking" /\ rpc[t] # "ok" =>
       /\ winner[t] = NoCall
       /\ remoteDial[t] \in {"dialing", "answered"} => \E p \in Positions : IsAck(wire[p], t)
       /\ \A p \in Positions : IsAnswered(wire[p], t) =>
            \E q \in Positions : q < p /\ IsAck(wire[q], t)
  /\ dial[t] = "raised" => winner[t] = NoCall

LEMMA AckFolds ==
  /\ AckAhead <=> (drops = 0 => \A t \in Tags : AckOf(t))
  /\ AckAhead' <=> (drops' = 0 => \A t \in Tags : AckOf(t)')
  BY Zenon DEF AckAhead, AckOf

(* An answer that is handled while the dial still asks was a refusal, of a *)
(* dial that failed and that no leg can have answered.                     *)
LEMMA AckHandle ==
  ASSUME TypeOK, StackInv, DialsAnswered, DialsFailed, Handle, NEW t \in Tags, AckOf(t)
  PROVE  AckOf(t)'
<1>1. /\ UNCHANGED <<dial, pending, link, remoteDial, remote, drops>>
      /\ \A p \in Positions' : p \in Nat /\ p + 1 \in Positions /\ wire'[p] = wire[p + 1]
      /\ 1 \in Positions
      /\ winner'[t] = winner[t] \/
           (t \in pending /\ IsAnswered(wire[1], t) /\ winner'[t] = wire[1].call)
  BY HandleKeeps
<1>2. \A p \in Positions : p \in Nat /\ p >= 1 /\ (p # 1 => p - 1 \in Positions' /\ (p - 1) + 1 = p)
  <2>1. \E kind : Arrives(kind)
    BY <1>1, Zenon DEF Handle, HandleRpc, HandleState, HandleAnswered, HandleFailed, HandleReceive
  <2>2. Len(wire) \in Nat /\ Len(wire') = Len(wire) - 1
    BY <2>1, Taken
  <2> QED
    BY <2>2 DEF Positions
<1>3. dial[t] = "raised" => winner'[t] = NoCall
  <2>1. dial[t] = "raised" => t \notin pending
    BY DEF StackInv, PendingRuns
  <2> QED
    BY <1>1, <2>1 DEF AckOf
<1>4. ASSUME dial[t] = "asking", rpc'[t] # "ok"
      PROVE  IsRefusal(wire[1], t) \/ (rpc[t] # "ok" /\ ~IsAck(wire[1], t))
  <2>1. \/ rpc' = rpc /\ wire[1].kind # "rpc"
        \/ /\ wire[1].kind = "rpc" /\ wire[1].tag \in Tags /\ wire[1].answer \in {"ok", "refused"}
           /\ rpc' = IF dial[wire[1].tag] = "asking" THEN [rpc EXCEPT ![wire[1].tag] = wire[1].answer]
                     ELSE rpc
    BY RpcCases, StateCases, AnsweredCases, FailedCases, ReceiveCases DEF Handle
  <2>2. CASE rpc' = rpc /\ wire[1].kind # "rpc"
    BY <1>4, <2>2 DEF IsAck
  <2>3. CASE wire[1].kind = "rpc" /\ wire[1].tag = t
    <3>1. rpc' = [rpc EXCEPT ![t] = wire[1].answer] /\ wire[1].answer \in {"ok", "refused"}
      BY <1>4, <2>1, <2>3
    <3>2. wire[1].answer = "refused"
      BY <1>4, <3>1 DEF TypeOK
    <3> QED
      BY <2>3, <3>2 DEF IsRefusal
  <2>4. CASE wire[1].kind = "rpc" /\ wire[1].tag # t /\ wire[1].tag \in Tags
    <3>1. rpc'[t] = rpc[t]
      BY <2>1, <2>4 DEF TypeOK
    <3> QED
      BY <1>4, <2>4, <3>1 DEF IsAck
  <2> QED
    BY <2>1, <2>2, <2>3, <2>4
<1>5. SUFFICES ASSUME dial[t] = "asking", rpc'[t] # "ok"
               PROVE  /\ winner'[t] = NoCall
                      /\ remoteDial[t] \in {"dialing", "answered"} =>
                           \E p \in Positions' : IsAck(wire'[p], t)
                      /\ \A p \in Positions' : IsAnswered(wire'[p], t) =>
                           \E q \in Positions' : q < p /\ IsAck(wire'[q], t)
  BY <1>1, <1>3, Zenon DEF AckOf, IsAck, IsAnswered
<1>6. CASE IsRefusal(wire[1], t)
  <2>1. remoteDial[t] = "failed"
    BY <1>1, <1>6 DEF DialsFailed
  <2>2. winner[t] = NoCall /\ \A p \in Positions : ~IsAnswered(wire[p], t)
    BY <2>1 DEF DialsAnswered, Answered
  <2> QED
    BY <1>1, <2>1, <2>2
<1>7. CASE rpc[t] # "ok" /\ ~IsAck(wire[1], t)
  <2>1. /\ winner[t] = NoCall
        /\ remoteDial[t] \in {"dialing", "answered"} => \E p \in Positions : IsAck(wire[p], t)
        /\ \A p \in Positions : IsAnswered(wire[p], t) =>
             \E q \in Positions : q < p /\ IsAck(wire[q], t)
    BY <1>5, <1>7 DEF AckOf
  <2>2. ~IsAnswered(wire[1], t)
    <3>1. \A q \in Positions : ~(q < 1)
      BY <1>2
    <3> QED
      BY <1>1, <2>1, <3>1
  <2>3. ASSUME NEW p \in Positions, IsAck(wire[p], t)
        PROVE  p - 1 \in Positions' /\ IsAck(wire'[p - 1], t) /\ p \in Nat
    <3>1. p - 1 \in Positions' /\ (p - 1) + 1 = p /\ p \in Nat
      BY <1>2, <1>7, <2>3
    <3>2. wire'[p - 1] = wire[p]
      BY <1>1, <3>1
    <3> QED
      BY <2>3, <3>1, <3>2
  <2>4. ASSUME NEW p \in Positions', IsAnswered(wire'[p], t)
        PROVE  \E q \in Positions' : q < p /\ IsAck(wire'[q], t)
    <3>1. p \in Nat /\ p + 1 \in Positions /\ IsAnswered(wire[p + 1], t)
      BY <1>1, <2>4
    <3>2. PICK q \in Positions : q < p + 1 /\ IsAck(wire[q], t)
      BY <2>1, <3>1
    <3>3. q - 1 \in Positions' /\ IsAck(wire'[q - 1], t) /\ q - 1 < p
      BY <2>3, <3>1, <3>2
    <3> QED
      BY <3>3
  <2> QED
    BY <1>1, <2>1, <2>2, <2>3, <2>4
<1> QED
  BY <1>4, <1>5, <1>6, <1>7

(* While the link is up what the server says arrives.                      *)
LEMMA AckServer ==
  ASSUME TypeOK, DialsAnswered, ServerStep, link = "up", NEW t \in Tags, AckOf(t)
  PROVE  AckOf(t)'
<1>1. dial' = dial /\ rpc' = rpc /\ winner' = winner
  BY ServerStepClient, Zenon DEF clientVars
<1>2. ServerTruth
  BY ServerSays
<1>3. SUFFICES ASSUME dial[t] = "asking", rpc[t] # "ok"
               PROVE  /\ remoteDial'[t] \in {"dialing", "answered"} =>
                           \E p \in Positions' : IsAck(wire'[p], t)
                      /\ \A p \in Positions' : IsAnswered(wire'[p], t) =>
                           \E q \in Positions' : q < p /\ IsAck(wire'[q], t)
  BY <1>1, Zenon DEF AckOf, IsAck, IsAnswered
<1>4. /\ remoteDial[t] \in {"dialing", "answered"} => \E p \in Positions : IsAck(wire[p], t)
      /\ \A p \in Positions : IsAnswered(wire[p], t) =>
           \E q \in Positions : q < p /\ IsAck(wire[q], t)
  BY <1>3 DEF AckOf
<1>5. /\ \A p \in Positions : p \in Positions' /\ wire'[p] = wire[p]
      /\ \A p \in Positions' :
           \/ p \in Positions
           \/ p > Len(wire) /\ (IsAnswered(wire'[p], t) => remoteDial[t] = "dialing")
      /\ remoteDial'[t] \in {"dialing", "answered"} =>
            \/ remoteDial[t] \in {"dialing", "answered"}
            \/ \E p \in Positions' : IsAck(wire'[p], t)
  BY <1>2 DEF ServerTruth
<1>6. Len(wire) \in Nat /\ Len(wire') \in Nat
  <2>1. wire \in Seq(Frames) /\ wire' \in Seq(Frames)
    BY TypeServer DEF TypeOK
  <2> QED
    BY <2>1, LenProperties
<1>7. ASSUME NEW p \in Positions', IsAnswered(wire'[p], t)
      PROVE  \E q \in Positions' : q < p /\ IsAck(wire'[q], t)
  <2>1. CASE p \in Positions
    BY <1>4, <1>5, <1>7, <2>1
  <2>2. CASE p \notin Positions
    <3>1. PICK q \in Positions : IsAck(wire[q], t)
      BY <1>4, <1>5, <1>7, <2>2
    <3>2. q < p
      BY <1>5, <1>6, <2>2 DEF Positions
    <3> QED
      BY <1>5, <3>1, <3>2
  <2> QED
    BY <2>1, <2>2
<1> QED
  BY <1>4, <1>5, <1>7

LEMMA AckStep ==
  TypeOK /\ StackInv /\ DialsAnswered /\ DialsFailed /\ AckAhead /\ [Next]_vars => AckAhead'
<1> SUFFICES ASSUME TypeOK, StackInv, DialsAnswered, DialsFailed, AckAhead, [Next]_vars
             PROVE  AckAhead'
  OBVIOUS
<1>1. CASE Drop
  <2>1. drops' # 0
    BY <1>1 DEF Drop, TypeOK
  <2> QED
    BY <2>1, AckFolds
<1>2. CASE ~Drop
  <2>0. drops' = drops
    BY <1>2, NextCases, AppStepKeeps, ServerStepClient, HandleKeeps, Zenon
       DEF AppStep, ServerStep, Handle, Dial, ReadEof, Reconnect, serverUnchanged, vars, clientVars
  <2>1. SUFFICES ASSUME drops = 0, NEW t \in Tags PROVE AckOf(t)'
    BY <2>0, AckFolds
  <2>2. AckOf(t)
    BY <2>1, AckFolds
  <2>3. link = "up"
    BY <2>1 DEF DialsFailed, TypeOK
  <2>4. ASSUME UNCHANGED <<dial, rpc, winner, remoteDial, wire>> PROVE AckOf(t)'
    BY <2>2, <2>4, Zenon DEF AckOf, IsAck, IsAnswered, Positions
  <2>5. CASE Handle
    BY <2>2, <2>5, AckHandle
  <2>6. CASE ServerStep
    BY <2>2, <2>3, <2>6, AckServer
  <2>7. ASSUME UNCHANGED <<rpc, winner, remoteDial, wire>>, NEW u \in Tags,
               NEW s \in {"waiting", "raised", "returned"}, dial' = [dial EXCEPT ![u] = s],
               s = "raised" => winner[u] = NoCall
        PROVE  AckOf(t)'
    <3>1. /\ dial'[t] = "asking" => dial[t] = "asking"
          /\ dial'[t] = "raised" => dial[t] = "raised" \/ winner[t] = NoCall
      BY <2>7 DEF TypeOK
    <3> QED
      BY <2>2, <2>7, <3>1, Zenon DEF AckOf, IsAck, IsAnswered, Positions
  <2>8. CASE AppStep
    <3>1. UNCHANGED <<rpc, winner, remoteDial, wire>>
      BY <2>8, AppStepKeeps
    <3>2. CASE Request \/ RequestEnds
      BY <2>4, <3>1, <3>2, Zenon DEF Request, RequestEnds
    <3>3. ASSUME NEW u \in Tags, DialAccepted(u) PROVE AckOf(t)'
      BY <2>7, <3>1, <3>3 DEF DialAccepted
    <3>4. ASSUME NEW u \in Tags, DialRaises(u) PROVE AckOf(t)'
      <4>1. /\ dial' = [dial EXCEPT ![u] = "raised"]
            /\ \/ dial[u] = "asking" /\ rpc[u] # "ok"
               \/ dial[u] = "waiting" /\ (u \in error \/ winner[u] = NoCall)
        BY <3>4 DEF DialRaises
      <4>2. CASE dial[u] = "asking" /\ rpc[u] # "ok"
        <5>1. winner[u] = NoCall
          BY <2>1, <4>2, AckFolds DEF AckOf
        <5> QED
          BY <2>7, <3>1, <4>1, <5>1
      <4>3. CASE u \in error
        <5>1. remoteDial[u] = "failed"
          BY <2>1, <4>3 DEF DialsFailed
        <5>2. winner[u] = NoCall
          BY <5>1 DEF DialsAnswered, Answered
        <5> QED
          BY <2>7, <3>1, <4>1, <5>2
      <4>4. CASE winner[u] = NoCall
        BY <2>7, <3>1, <4>1, <4>4
      <4> QED
        BY <4>1, <4>2, <4>3, <4>4
    <3>5. ASSUME NEW u \in Tags, DialReturns(u) PROVE AckOf(t)'
      BY <2>7, <3>1, <3>5 DEF DialReturns
    <3>6. ASSUME NEW c \in Calls, ListenersReturn(c) \/ OnCallReturns(c) PROVE AckOf(t)'
      BY <2>4, <3>1, <3>6, Zenon DEF ListenersReturn, OnCallReturns
    <3> QED
      BY <2>8, <3>2, <3>3, <3>4, <3>5, <3>6, Zenon DEF AppStep
  <2>9. ASSUME NEW u \in Tags, Dial(u) PROVE AckOf(t)'
    <3>1. /\ dial' = [dial EXCEPT ![u] = "asking"] /\ dial[u] = "idle"
          /\ UNCHANGED <<rpc, winner, wire>>
          /\ remoteDial' = remoteDial \/ remoteDial' = [remoteDial EXCEPT ![u] = "asked"]
      BY <2>9 DEF Dial
    <3>2. remoteDial[u] = "none" /\ winner[u] = NoCall
          /\ \A p \in Positions : ~IsAnswered(wire[p], u)
      BY <3>1 DEF DialsAnswered, Answered
    <3>3. CASE u = t
      <4>1. dial'[t] = "asking" /\ remoteDial'[t] \in {"none", "asked"}
        BY <3>1, <3>2, <3>3 DEF TypeOK
      <4>2. remoteDial'[t] \notin {"dialing", "answered"}
        BY <4>1
      <4>3. /\ winner'[t] = NoCall /\ dial'[t] # "raised"
            /\ \A p \in Positions' : ~IsAnswered(wire'[p], t)
        BY <3>1, <3>2, <3>3, <4>1 DEF Positions
      <4> QED
        BY <4>2, <4>3, Zenon DEF AckOf, IsAnswered
    <3>4. CASE u # t
      <4>1. dial'[t] = dial[t] /\ remoteDial'[t] = remoteDial[t]
        BY <3>1, <3>4 DEF TypeOK
      <4> QED
        BY <2>2, <3>1, <4>1, Zenon DEF AckOf, IsAck, IsAnswered, Positions
    <3> QED
      BY <3>3, <3>4
  <2>10. CASE ReadEof \/ Reconnect
    BY <2>4, <2>10, Zenon DEF ReadEof, Reconnect, serverUnchanged
  <2>11. CASE UNCHANGED vars
    BY <2>4, <2>11, Zenon DEF vars, clientVars
  <2> QED
    BY <1>2, <2>5, <2>6, <2>8, <2>9, <2>10, <2>11, NextCases, Zenon
       DEF AppStep, ServerStep, Handle
<1> QED
  BY <1>1, <1>2

-----------------------------------------------------------------------------
(* The results.                                                            *)

(* dial(), its events and the table of calls keep the whole invariant, for *)
(* any number of dials, legs and inbound calls.                            *)
THEOREM RoutingCorrect == Spec => []RoutingInv
<1>1. Init => EndIsLast
  BY DEF Init, EndIsLast, Positions
<1>2. Init => RoutingInv
  BY <1>1, TypeInit, StackInit, TableInit, DialsInit DEF RoutingInv
<1>3. RoutingInv /\ [Next]_vars => RoutingInv'
  BY TypeStep, StackStep, TableStep, EndStep, AnsweredStep, FailedStep, AckStep, Zenon DEF RoutingInv
<1> QED
  BY <1>2, <1>3, PTL DEF Spec

(* A dial is pending exactly while its dial() runs, and the cap holds for  *)
(* inbound calls, whatever callbacks pump.                                 *)
THEOREM DialsPaired == Spec => []DialInv
<1>1. RoutingInv => DialInv
  BY Zenon DEF RoutingInv, StackInv, TableInv, DialInv
<1> QED
  BY <1>1, RoutingCorrect, PTL

(* The call that dial() returns is the leg that was answered, and on a     *)
(* connection that never dropped it does not die with an answer in hand.   *)
THEOREM DialsTruthful == Spec => []DialTruthful
<1>1. RoutingInv => DialTruthful
  BY DEF RoutingInv, DialsAnswered, Answered, AckAhead, DialTruthful
<1> QED
  BY <1>1, RoutingCorrect, PTL

(* A held call that has not ended is in the table, and an ended one leaves *)
(* it with the dispatch of its end.                                        *)
THEOREM TableCorrect == Spec => []TableHoldsOpenCalls
<1>1. RoutingInv => TableHoldsOpenCalls
  BY DEF RoutingInv, TypeOK, TableInv, OpenCallsListed, HeldWereSeen, TableHoldsOpenCalls,
         HeldCallsAreRouted
<1> QED
  BY <1>1, RoutingCorrect, PTL

(* A call that has ended stays ended, whatever a dial that was about to    *)
(* return it still does.                                                   *)
THEOREM EndsForGood == Spec => EndedStaysEnded
<1>1. RoutingInv /\ [Next]_vars => [\A c \in Calls : state[c] = "ended" => state'[c] = "ended"]_vars
  BY EndedStep, Zenon DEF RoutingInv
<1> QED
  BY <1>1, RoutingCorrect, PTL DEF Spec, EndedStaysEnded
=============================================================================
