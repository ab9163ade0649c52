------------------------------ MODULE RelayDial ------------------------------
(***************************************************************************)
(* Outbound and inbound calls in SignalWire::Relay::Client: dial(), the    *)
(* table of active calls, calling.call.dial and calling.call.receive       *)
(* events, and the cap on active calls.                                    *)
(*                                                                         *)
(* A dial rings one or several legs, each of which is a call of its own    *)
(* with events of its own; at most one leg wins.  dial() pumps the socket  *)
(* until its own dial event has come, so everything else that arrives is   *)
(* dispatched inside it: on_call callbacks, listeners, the end of the very *)
(* call it is about to return.                                             *)
(*                                                                         *)
(* What happens on a call is RelayCall; how frames are read is RelayRpc.   *)
(* Frames are handled one at a time from one queue, and a pumping call may *)
(* leave before or after the next frame.                                   *)
(***************************************************************************)
EXTENDS FiniteSets, Naturals, Sequences

CONSTANTS Tags,            \* the dials the application makes, by tag
          Legs,            \* the calls each dial may create: [Tags -> sets]
          Inbound,         \* the calls that come in
          MaxActiveCalls,  \* _max_active_calls
          MaxDrops,        \* bound: connections lost
          MaxInFlight      \* bound: frames sent and not yet read

Outbound == UNION {Legs[t] : t \in Tags}
Calls    == Outbound \cup Inbound
TagOf(c) == CHOOSE t \in Tags : c \in Legs[t]

ASSUME CallIds == /\ Outbound \cap Inbound = {}
                  /\ \A t, u \in Tags : t # u => Legs[t] \cap Legs[u] = {}
                  /\ MaxActiveCalls \in Nat \ {0} /\ MaxDrops \in Nat /\ MaxInFlight \in Nat

NoCall == "no call"

VARIABLES
  stack,       \* call stack, see Entries
  connected,   \* $client->connected
  dial,        \* where each dial() is
  pending,     \* keys of $client->_pending_dials
  rpc,         \* the answer to calling.dial
  winner,      \* dial's $call
  error,       \* dials whose $dial_error is set
  calls,       \* keys of $client->_calls
  state,       \* $call->state of the latest Call object of an id
  held,        \* calls the application got from dial() or in on_call
  watched,     \* calls with dial's on_completed listener
  ends,        \* history: how often that listener has called back
  link, wire,  \* the socket, and the frames sent and not yet handled
  remoteDial, remote,  \* the server's view of dials and calls
  drops

clientVars == <<stack, connected, dial, pending, rpc, winner, error, calls, state, held,
                watched, ends>>
vars       == <<clientVars, link, wire, remoteDial, remote, drops>>

CallStates == {"ringing", "answered", "ended"}

Frames == [kind : {"rpc"}, tag : Tags, answer : {"ok", "refused"}]
          \cup [kind : {"state"}, call : Calls, state : CallStates]
          \cup [kind : {"answered"}, tag : Tags, call : Outbound]
          \cup [kind : {"failed"}, tag : Tags]
          \cup [kind : {"receive"}, call : Inbound]

(* dial and request (any other blocking call) pump; on_call and listeners  *)
(* are user code.                                                          *)
Entries == ({"dial"} \X Tags) \cup ({"on_call", "listeners"} \X Calls) \cup {<<"request">>}

TypeOK ==
  /\ stack \in Seq(Entries) /\ connected \in BOOLEAN
  /\ dial \in [Tags -> {"idle", "asking", "waiting", "returned", "raised"}]
  /\ pending \subseteq Tags /\ error \subseteq Tags
  /\ rpc \in [Tags -> {"none", "ok", "refused"}]
  /\ winner \in [Tags -> Outbound \cup {NoCall}]
  /\ calls \subseteq Calls /\ held \subseteq Calls /\ watched \subseteq Outbound
  /\ state \in [Calls -> CallStates \cup {"none"}]
  /\ ends \in [Calls -> 0..1]
  /\ link \in {"up", "eof"} /\ wire \in Seq(Frames)
  /\ remoteDial \in [Tags -> {"none", "asked", "dialing", "answered", "failed"}]
  /\ remote \in [Calls -> CallStates \cup {"none"}]
  /\ drops \in 0..MaxDrops

Init ==
  /\ stack = <<>> /\ connected = TRUE
  /\ dial = [t \in Tags |-> "idle"] /\ pending = {}
  /\ rpc = [t \in Tags |-> "none"] /\ winner = [t \in Tags |-> NoCall] /\ error = {}
  /\ calls = {} /\ state = [c \in Calls |-> "none"]
  /\ held = {} /\ watched = {} /\ ends = [c \in Calls |-> 0]
  /\ link = "up" /\ wire = <<>> /\ drops = 0
  /\ remoteDial = [t \in Tags |-> "none"] /\ remote = [c \in Calls |-> "none"]

-----------------------------------------------------------------------------
Top      == IF stack = <<>> THEN <<"run">> ELSE stack[Len(stack)]
TopIs(e) == Top = e
Below    == SubSeq(stack, 1, Len(stack) - 1)

UserCode == Top[1] \in {"run", "on_call", "listeners"}
Pumping  == connected /\ Top[1] \in {"run", "dial", "request"}

serverUnchanged == UNCHANGED <<link, wire, remoteDial, remote, drops>>
callsUnchanged  == UNCHANGED <<calls, state, held, watched, ends>>

-----------------------------------------------------------------------------
(* dial().                                                                 *)

(* The pending dial is registered before calling.dial is sent. *)
Dial(t) ==
  /\ UserCode /\ connected /\ dial[t] = "idle"
  /\ dial' = [dial EXCEPT ![t] = "asking"]
  /\ pending' = pending \cup {t}
  /\ stack' = Append(stack, <<"dial", t>>)
  /\ remoteDial' = IF link = "up" THEN [remoteDial EXCEPT ![t] = "asked"] ELSE remoteDial
  /\ UNCHANGED <<connected, rpc, winner, error, link, wire, remote, drops>> /\ callsUnchanged

(* The RPC succeeds: wait for the dial event. *)
DialAccepted(t) ==
  /\ TopIs(<<"dial", t>>) /\ dial[t] = "asking" /\ rpc[t] = "ok"
  /\ dial' = [dial EXCEPT ![t] = "waiting"]
  /\ UNCHANGED <<stack, connected, pending, rpc, winner, error>>
  /\ callsUnchanged /\ serverUnchanged

(* Mutants of DialRaises: the pending entry is kept; a deadline that has   *)
(* passed counts even when the dial is done.                               *)
DialRaisesPending(t) ==
  /\ TopIs(<<"dial", t>>)
  /\ \/ dial[t] = "asking" /\ rpc[t] # "ok"
     \/ dial[t] = "waiting" /\ (t \in error \/ winner[t] = NoCall)
  /\ dial' = [dial EXCEPT ![t] = "raised"]
  /\ stack' = Below
  /\ UNCHANGED <<connected, pending, rpc, winner, error>> /\ callsUnchanged /\ serverUnchanged
DialRaisesLate(t) ==
  /\ TopIs(<<"dial", t>>) /\ (dial[t] = "waiting" \/ rpc[t] # "ok")
  /\ dial' = [dial EXCEPT ![t] = "raised"]
  /\ pending' = pending \ {t}
  /\ stack' = Below
  /\ UNCHANGED <<connected, rpc, winner, error>> /\ callsUnchanged /\ serverUnchanged

(* dial() dies: the RPC was refused, dropped or timed out; or the dial     *)
(* failed, was dropped, or nothing came in time.                           *)
DialRaises(t) ==
  /\ TopIs(<<"dial", t>>)
  /\ \/ dial[t] = "asking" /\ rpc[t] # "ok"
     \/ dial[t] = "waiting" /\ (t \in error \/ winner[t] = NoCall)
  /\ dial' = [dial EXCEPT ![t] = "raised"]
  /\ pending' = pending \ {t}
  /\ stack' = Below
  /\ UNCHANGED <<connected, rpc, winner, error>> /\ callsUnchanged /\ serverUnchanged

(* Mutant of DialReturns: it marks the call answered only now. *)
DialReturnsAnswered(t) ==
  /\ TopIs(<<"dial", t>>) /\ dial[t] = "waiting" /\ winner[t] # NoCall
  /\ dial' = [dial EXCEPT ![t] = "returned"]
  /\ pending' = pending \ {t}
  /\ stack' = Below
  /\ state' = [state EXCEPT ![winner[t]] = "answered"]
  /\ UNCHANGED <<connected, rpc, winner, error, calls, held, watched, ends>> /\ serverUnchanged

(* It returns the winner, with a listener for its end if there is an       *)
(* on_completed option.                                                    *)
DialReturns(t) ==
  /\ TopIs(<<"dial", t>>) /\ dial[t] = "waiting" /\ t \notin error /\ winner[t] # NoCall
  /\ dial' = [dial EXCEPT ![t] = "returned"]
  /\ pending' = pending \ {t}
  /\ stack' = Below
  /\ held' = held \cup {winner[t]}
  /\ watched' \in {watched, watched \cup {winner[t]}}
  /\ UNCHANGED <<connected, rpc, winner, error, calls, state, ends>> /\ serverUnchanged

(* Any other blocking call of a callback (answer, play, wait ...); outside *)
(* of callbacks it pumps as run() does.                                    *)
Request ==
  /\ Top[1] \in {"on_call", "listeners"} /\ connected
  /\ stack' = Append(stack, <<"request">>)
  /\ UNCHANGED <<connected, dial, pending, rpc, winner, error>>
  /\ callsUnchanged /\ serverUnchanged

RequestEnds ==
  /\ TopIs(<<"request">>)
  /\ stack' = Below
  /\ UNCHANGED <<connected, dial, pending, rpc, winner, error>>
  /\ callsUnchanged /\ serverUnchanged

-----------------------------------------------------------------------------
(* Frames.                                                                 *)

Arrives(kind) == Pumping /\ wire # <<>> /\ Head(wire).kind = kind /\ wire' = Tail(wire)

frameUnchanged == UNCHANGED <<connected, dial, watched, link, remoteDial, remote, drops>>

HandleRpc ==
  /\ Arrives("rpc")
  /\ LET t == Head(wire).tag
     IN  rpc' = IF dial[t] = "asking" THEN [rpc EXCEPT ![t] = Head(wire).answer] ELSE rpc
  /\ UNCHANGED <<stack, pending, winner, error, calls, state, held, ends>> /\ frameUnchanged

(* A state event.  That of a leg whose dial is pending creates the call;   *)
(* a call in the table takes the state and runs its listeners.             *)
Known(c) == c \in calls \/ (c \in Outbound /\ TagOf(c) \in pending)

HandleState ==
  /\ Arrives("state")
  /\ LET c == Head(wire).call
         s == Head(wire).state
     IN  IF Known(c)
         THEN /\ calls' = calls \cup {c}
              /\ state' = [state EXCEPT ![c] = s]
              /\ ends' = IF c \in watched /\ s = "ended" THEN [ends EXCEPT ![c] = @ + 1] ELSE ends
              /\ stack' = Append(stack, <<"listeners", c>>)
         ELSE UNCHANGED <<calls, state, ends, stack>>
  /\ UNCHANGED <<pending, rpc, winner, error, held>> /\ frameUnchanged

(* Back in _handle_event an ended call leaves the table. *)
ListenersReturn(c) ==
  /\ TopIs(<<"listeners", c>>)
  /\ stack' = Below
  /\ calls' = IF state[c] = "ended" THEN calls \ {c} ELSE calls
  /\ UNCHANGED <<connected, dial, pending, rpc, winner, error, state, held, watched, ends>>
  /\ serverUnchanged

(* Mutant of HandleAnswered: a call that is not known yet is not registered. *)
HandleAnsweredUnregistered ==
  /\ Arrives("answered")
  /\ LET t == Head(wire).tag
     IN  winner' = IF t \in pending THEN [winner EXCEPT ![t] = Head(wire).call] ELSE winner
  /\ UNCHANGED <<stack, pending, rpc, error, calls, state, held, ends>> /\ frameUnchanged

(* The dial event of a pending dial: the answered leg is the call, known   *)
(* or not; a failure sets the error.                                       *)
HandleAnswered ==
  /\ Arrives("answered")
  /\ LET t == Head(wire).tag
         c == Head(wire).call
     IN  IF t \in pending
         THEN /\ calls' = calls \cup {c}
              /\ state' = [state EXCEPT ![c] = "answered"]
              /\ winner' = [winner EXCEPT ![t] = c]
         ELSE UNCHANGED <<calls, state, winner>>
  /\ UNCHANGED <<stack, pending, rpc, error, held, ends>> /\ frameUnchanged

HandleFailed ==
  /\ Arrives("failed")
  /\ error' = error \cup ({Head(wire).tag} \cap pending)
  /\ UNCHANGED <<stack, pending, rpc, winner, calls, state, held, ends>> /\ frameUnchanged

(* An inbound call: dropped when the table is full, else registered and    *)
(* handed to on_call.                                                      *)
HandleReceive ==
  /\ Arrives("receive")
  /\ LET c == Head(wire).call
     IN  IF Cardinality(calls) >= MaxActiveCalls
         THEN UNCHANGED <<calls, state, held, stack>>
         ELSE /\ calls' = calls \cup {c}
              /\ state' = [state EXCEPT ![c] = "ringing"]
              /\ held' = held \cup {c}
              /\ stack' = Append(stack, <<"on_call", c>>)
  /\ UNCHANGED <<pending, rpc, winner, error, ends>> /\ frameUnchanged

OnCallReturns(c) ==
  /\ TopIs(<<"on_call", c>>)
  /\ stack' = Below
  /\ UNCHANGED <<connected, dial, pending, rpc, winner, error>>
  /\ callsUnchanged /\ serverUnchanged

(* End of file: all pending dials are rejected. *)
ReadEof ==
  /\ Pumping /\ wire = <<>> /\ link = "eof"
  /\ connected' = FALSE
  /\ error' = error \cup pending
  /\ UNCHANGED <<stack, dial, pending, rpc, winner>> /\ callsUnchanged /\ serverUnchanged

(* run() opens a new connection; the table of calls is kept. *)
Reconnect ==
  /\ stack = <<>> /\ ~connected
  /\ connected' = TRUE /\ link' = "up"
  /\ UNCHANGED <<stack, dial, pending, rpc, winner, error, wire, remoteDial, remote, drops>>
  /\ callsUnchanged

Idle == stack = <<>> /\ wire = <<>> /\ UNCHANGED vars

-----------------------------------------------------------------------------
(* The RELAY server and the network (not under src/).  The server does not *)
(* repeat what a lost connection did not deliver.                          *)

Send(fs) == /\ Len(wire \o fs) <= MaxInFlight
            /\ wire' = IF link = "up" THEN wire \o fs ELSE wire

ServerAcksDial(t, answer) ==
  /\ remoteDial[t] = "asked"
  /\ remoteDial' = [remoteDial EXCEPT ![t] = IF answer = "ok" THEN "dialing" ELSE "failed"]
  /\ Send(<<[kind |-> "rpc", tag |-> t, answer |-> answer]>>)
  /\ UNCHANGED <<clientVars, link, remote, drops>>

StateFrame(c, s) == [kind |-> "state", call |-> c, state |-> s]

ServerRings(t, c) ==
  /\ remoteDial[t] = "dialing" /\ c \in Legs[t] /\ remote[c] = "none"
  /\ remote' = [remote EXCEPT ![c] = "ringing"]
  /\ Send(<<StateFrame(c, "ringing")>>)
  /\ UNCHANGED <<clientVars, link, remoteDial, drops>>

(* A leg is answered: its state event and the dial event, in either order. *)
ServerConnectsDial(t, c) ==
  /\ remoteDial[t] = "dialing" /\ c \in Legs[t] /\ remote[c] \in {"none", "ringing"}
  /\ remoteDial' = [remoteDial EXCEPT ![t] = "answered"]
  /\ remote' = [remote EXCEPT ![c] = "answered"]
  /\ LET dialed == [kind |-> "answered", tag |-> t, call |-> c]
     IN  Send(<<StateFrame(c, "answered"), dialed>>) \/ Send(<<dialed, StateFrame(c, "answered")>>)
  /\ UNCHANGED <<clientVars, link, drops>>

ServerFailsDial(t) ==
  /\ remoteDial[t] = "dialing" /\ \A c \in Legs[t] : remote[c] \in {"none", "ended"}
  /\ remoteDial' = [remoteDial EXCEPT ![t] = "failed"]
  /\ Send(<<[kind |-> "failed", tag |-> t]>>)
  /\ UNCHANGED <<clientVars, link, remote, drops>>

ServerEnds(c) ==
  /\ remote[c] \in {"ringing", "answered"}
  /\ remote' = [remote EXCEPT ![c] = "ended"]
  /\ Send(<<StateFrame(c, "ended")>>)
  /\ UNCHANGED <<clientVars, link, remoteDial, drops>>

ServerReceives(c) ==
  /\ c \in Inbound /\ remote[c] = "none"
  /\ remote' = [remote EXCEPT ![c] = "ringing"]
  /\ Send(<<[kind |-> "receive", call |-> c]>>)
  /\ UNCHANGED <<clientVars, link, remoteDial, drops>>

(* The connection closes; a request the server has not read is lost.       *)
Drop ==
  /\ link = "up" /\ link' = "eof"
  /\ drops < MaxDrops /\ drops' = drops + 1
  /\ remoteDial' = [t \in Tags |-> IF remoteDial[t] = "asked" THEN "none" ELSE remoteDial[t]]
  /\ UNCHANGED <<clientVars, wire, remote>>

-----------------------------------------------------------------------------
Handle == HandleRpc \/ HandleState \/ HandleAnswered \/ HandleFailed \/ HandleReceive

CallReturns     == RequestEnds \/ \E t \in Tags : DialAccepted(t) \/ DialRaises(t) \/ DialReturns(t)
CallbackReturns == \E c \in Calls : ListenersReturn(c) \/ OnCallReturns(c)

Next ==
  \/ Request \/ \E t \in Tags : Dial(t)
  \/ CallReturns \/ CallbackReturns
  \/ Handle \/ ReadEof \/ Reconnect \/ Idle
  \/ \E t \in Tags, answer \in {"ok", "refused"} : ServerAcksDial(t, answer)
  \/ \E t \in Tags, c \in Outbound : ServerRings(t, c) \/ ServerConnectsDial(t, c)
  \/ \E t \in Tags : ServerFailsDial(t)
  \/ \E c \in Calls : ServerEnds(c) \/ ServerReceives(c)
  \/ Drop

Spec == Init /\ [][Next]_vars

-----------------------------------------------------------------------------
OnStack(e) == \E p \in 1..Len(stack) : stack[p] = e

(* A dial is pending exactly while dial() is on the stack, however other   *)
(* dials nest in its callbacks: no event is lost before, none is acted on  *)
(* after it.                                                               *)
PendingMatchesStack == \A t \in Tags : t \in pending <=> OnStack(<<"dial", t>>)

(* The cap bounds the inbound calls that are active at once, whatever      *)
(* on_call callbacks pump while they run.                                  *)
InboundCapped == Cardinality(calls \cap Inbound) <= MaxActiveCalls

DialInv == TypeOK /\ PendingMatchesStack /\ InboundCapped

(* dial() "Returns a Call once the remote party answers (or dies if the    *)
(* dial fails)" (client-reference.md): the call it returns is the leg that *)
(* was answered, and on a connection that never dropped it does not die    *)
(* with an answer in hand.                                                 *)
DialTruthful ==
  \A t \in Tags :
    /\ dial[t] = "returned" => remoteDial[t] = "answered" /\ winner[t] \in Legs[t]
    /\ winner[t] # NoCall => remote[winner[t]] \in {"answered", "ended"}
    /\ dial[t] = "raised" /\ drops = 0 => winner[t] = NoCall

(* A call the application holds and that has not ended, as far as the      *)
(* client knows, is in the table: its events will reach it.                *)
HeldCallsAreRouted == \A c \in held : state[c] # "ended" => c \in calls

(* An ended call leaves the table with the dispatch of its end.            *)
EndedCallsLeave == \A c \in calls : state[c] = "ended" => OnStack(<<"listeners", c>>)
TableHoldsOpenCalls == HeldCallsAreRouted /\ EndedCallsLeave

(* A call that has ended never comes back to life, whatever a dial that    *)
(* was about to return it still does.                                      *)
EndedStaysEnded == [][\A c \in Calls : state[c] = "ended" => state'[c] = "ended"]_vars

-----------------------------------------------------------------------------
(* The invariant that all of this follows from.                            *)
Positions == 1..Len(wire)

\* A frame that changes what the client has of call c.
About(f, c) == f.kind \in {"state", "answered", "receive"} /\ f.call = c
IsEnd(f, c) == f.kind = "state" /\ f.call = c /\ f.state = "ended"
IsAck(f, t) == f.kind = "rpc" /\ f.tag = t /\ f.answer = "ok"
IsAnswered(f, t) == f.kind = "answered" /\ f.tag = t
IsRefusal(f, t) == \/ f.kind = "failed" /\ f.tag = t
                   \/ f.kind = "rpc" /\ f.tag = t /\ f.answer = "refused"

\* A dial() is on the stack once, and exactly from its begin to its end.
DialsDistinct ==
  \A t \in Tags : \A p, q \in 1..Len(stack) :
    stack[p] = <<"dial", t>> /\ stack[q] = <<"dial", t>> => p = q
PendingRuns == \A t \in Tags : t \in pending <=> dial[t] \in {"asking", "waiting"}
StackInv == DialsDistinct /\ PendingMatchesStack /\ PendingRuns

\* A call that is alive, as far as the client knows, is in the table.
OpenCallsListed == \A c \in Calls : state[c] \notin {"none", "ended"} => c \in calls
HeldWereSeen == /\ \A c \in held : state[c] # "none"
                /\ \A t \in Tags : winner[t] # NoCall => state[winner[t]] # "none"
TableInv == /\ IsFiniteSet(calls) /\ InboundCapped
            /\ OpenCallsListed /\ HeldWereSeen /\ EndedCallsLeave

\* The end of a call is the last the server says about it, and the client
\* believes it only from the server.
EndIsLast ==
  \A c \in Calls :
    /\ \A p \in Positions : IsEnd(wire[p], c) =>
         remote[c] = "ended" /\ \A q \in Positions : About(wire[q], c) => q <= p
    /\ state[c] = "ended" => remote[c] = "ended" /\ \A p \in Positions : ~About(wire[p], c)
    /\ ends[c] = 1 => state[c] = "ended"

\* What the server says of a dial is so.
Answered(t, c) == /\ remoteDial[t] = "answered" /\ c \in Legs[t]
                  /\ remote[c] \in {"answered", "ended"}
DialsAnswered ==
  \A t \in Tags :
    /\ dial[t] = "idle" => remoteDial[t] = "none"
    /\ \A p \in Positions : IsAnswered(wire[p], t) => Answered(t, wire[p].call)
    /\ winner[t] # NoCall => Answered(t, winner[t])
    /\ dial[t] = "returned" => winner[t] # NoCall
DialsFailed ==
  /\ link = "eof" => drops > 0
  /\ \A t \in Tags :
       /\ \A p \in Positions : IsRefusal(wire[p], t) => remoteDial[t] = "failed"
       /\ t \in error => remoteDial[t] = "failed" \/ drops > 0

\* While no connection is lost the answer to calling.dial comes before the
\* dial event.
AckAhead ==
  drops = 0 => \A t \in Tags :
    /\ dial[t] = "asking" /\ rpc[t] # "ok" =>
         /\ winner[t] = NoCall
         /\ remoteDial[t] \in {"dialing", "answered"} => \E p \in Positions : IsAck(wire[p], t)
         /\ \A p \in Positions : IsAnswered(wire[p], t) =>
              \E q \in Positions : q < p /\ IsAck(wire[q], t)
    /\ dial[t] = "raised" => winner[t] = NoCall

RoutingInv == /\ TypeOK /\ StackInv /\ TableInv /\ EndIsLast
              /\ DialsAnswered /\ DialsFailed /\ AckAhead
=============================================================================
