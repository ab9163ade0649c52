----------------------------- MODULE RelayMessage -----------------------------
(***************************************************************************)
(* Outbound messages: Client::send_message, the routing of messaging.state *)
(* events and the SignalWire::Relay::Message handle.                       *)
(*                                                                         *)
(* The server may report a message's progress as soon as it has answered   *)
(* messaging.send; the client creates and registers the handle only after  *)
(* execute() has returned.  Listeners and completion callbacks are user    *)
(* code that may send again, which pumps further events from inside the    *)
(* dispatch of the first.                                                  *)
(*                                                                         *)
(* Frames are handled one at a time from one queue: chunks may end         *)
(* anywhere, so leaving execute() before or after the next frame covers    *)
(* every division of the stream into chunks (RelayRpc has the buffer).     *)
(***************************************************************************)
EXTENDS Naturals, Sequences

CONSTANTS Msgs,        \* the messages the application sends, by message_id
          MaxDrops     \* bound: connections lost (and opened again)

ASSUME DropBound == MaxDrops \in Nat

Terminal == {"delivered", "undelivered"}      \* MESSAGE_TERMINAL_STATES
Reported == {"sent"} \cup Terminal            \* what messaging.state reports

VARIABLES
  stack,       \* call stack: <<"send", m>>, <<"dispatch", m, s>> listeners of a
               \* state event, <<"completed", m>> on_completed, <<"wait", m>>
  sending,     \* where each send_message() is
  registered,  \* keys of $client->_messages
  state,       \* $message->state, "none" before the handle exists
  completed,   \* handles whose completed flag is set
  result,      \* $message->result: the terminal event, or "none"
  callback,    \* handles with an on_completed callback
  fired,       \* history: how often that callback has been called
  wire,        \* frames sent by the server and not yet handled
  progress,    \* the server's view of each message
  lost,        \* history: messages whose terminal event was not dispatched
  drops

client == <<stack, sending, registered, state, completed, result, callback, fired, lost>>
vars   == <<client, wire, progress, drops>>

Frames == [kind : {"accepted"}, msg : Msgs]
          \cup [kind : {"state"}, msg : Msgs, state : Reported]

Entries == ({"send", "completed", "wait"} \X Msgs)
           \cup ({"dispatch"} \X Msgs \X Reported)

TypeOK ==
  /\ stack \in Seq(Entries)
  /\ sending \in [Msgs -> {"idle", "waiting", "accepted", "returned", "raised"}]
  /\ registered \subseteq Msgs /\ completed \subseteq Msgs /\ callback \subseteq Msgs
  /\ state \in [Msgs -> {"none", "queued"} \cup Reported]
  /\ result \in [Msgs -> {"none"} \cup Terminal]
  /\ fired \in [Msgs -> Nat]
  /\ wire \in Seq(Frames)
  /\ progress \in [Msgs -> {"unknown", "asked", "queued"} \cup Reported]
  /\ lost \subseteq Msgs
  /\ drops \in 0..MaxDrops

Init ==
  /\ stack = <<>> /\ wire = <<>> /\ drops = 0
  /\ sending = [m \in Msgs |-> "idle"]
  /\ registered = {} /\ completed = {} /\ callback = {} /\ lost = {}
  /\ state = [m \in Msgs |-> "none"]
  /\ result = [m \in Msgs |-> "none"]
  /\ fired = [m \in Msgs |-> 0]
  /\ progress = [m \in Msgs |-> "unknown"]

-----------------------------------------------------------------------------
Top      == IF stack = <<>> THEN <<"run">> ELSE stack[Len(stack)]
TopIs(e) == Top = e
Below    == SubSeq(stack, 1, Len(stack) - 1)

(* User code runs at the bottom and inside callbacks. *)
UserCode == Top[1] \in {"run", "dispatch", "completed"}

(* The socket is pumped by run() and by execute(), which handles the rest  *)
(* of the chunk that held its own response before it returns.              *)
Pumping == Top[1] \in {"run", "send"}

-----------------------------------------------------------------------------
(* send_message().                                                         *)

(* execute('messaging.send') sends the request and waits. *)
SendMessage(m) ==
  /\ UserCode /\ sending[m] = "idle"
  /\ sending' = [sending EXCEPT ![m] = "waiting"]
  /\ stack' = Append(stack, <<"send", m>>)
  /\ progress' = [progress EXCEPT ![m] = "asked"]
  /\ UNCHANGED <<registered, state, completed, result, callback, fired, lost, wire, drops>>

(* execute() dies (timeout, drop): no handle is made. *)
SendRaises(m) ==
  /\ TopIs(<<"send", m>>) /\ sending[m] = "waiting"
  /\ sending' = [sending EXCEPT ![m] = "raised"]
  /\ stack' = Below
  /\ UNCHANGED <<registered, state, completed, result, callback, fired, lost, wire,
                 progress, drops>>

(* execute() returns the message id: the handle is made, registered and    *)
(* given the on_completed option, if there is one.                         *)
SendReturns(m) ==
  /\ TopIs(<<"send", m>>) /\ sending[m] = "accepted"
  /\ sending' = [sending EXCEPT ![m] = "returned"]
  /\ state' = [state EXCEPT ![m] = "queued"]
  /\ registered' = registered \cup {m}
  /\ callback' \in {callback, callback \cup {m}}
  /\ stack' = Below
  /\ UNCHANGED <<completed, result, fired, lost, wire, progress, drops>>

-----------------------------------------------------------------------------
(* The message handle.                                                     *)

(* Mutant of OnCompleted: a done message does not call the late callback. *)
OnCompletedStoresOnly(m) ==
  /\ UserCode /\ sending[m] = "returned" /\ m \notin callback
  /\ callback' = callback \cup {m}
  /\ UNCHANGED <<stack, sending, registered, state, completed, result, fired, lost, wire,
                 progress, drops>>

(* on_completed($cb) on a handle without one; it is called at once when    *)
(* the message is already done.                                            *)
OnCompleted(m) ==
  /\ UserCode /\ sending[m] = "returned" /\ m \notin callback
  /\ callback' = callback \cup {m}
  /\ IF m \in completed
     THEN /\ fired' = [fired EXCEPT ![m] = @ + 1]
          /\ stack' = Append(stack, <<"completed", m>>)
     ELSE UNCHANGED <<fired, stack>>
  /\ UNCHANGED <<sending, registered, state, completed, result, lost, wire, progress, drops>>

(* wait() sleeps until the handle is completed or its timeout has passed.  *)
Wait(m) ==
  /\ UserCode /\ sending[m] = "returned" /\ m \notin completed
  /\ stack' = Append(stack, <<"wait", m>>)
  /\ UNCHANGED <<sending, registered, state, completed, result, callback, fired, lost,
                 wire, progress, drops>>

WaitEnds(m) ==
  /\ TopIs(<<"wait", m>>)
  /\ stack' = Below
  /\ UNCHANGED <<sending, registered, state, completed, result, callback, fired, lost,
                 wire, progress, drops>>

-----------------------------------------------------------------------------
(* Frames.                                                                 *)

HandleAccepted ==
  /\ Pumping /\ wire # <<>> /\ Head(wire).kind = "accepted"
  /\ wire' = Tail(wire)
  /\ LET m == Head(wire).msg
     IN  sending' = IF sending[m] = "waiting" THEN [sending EXCEPT ![m] = "accepted"]
                    ELSE sending
  /\ UNCHANGED <<stack, registered, state, completed, result, callback, fired, lost,
                 progress, drops>>

(* Mutant of HandleState: only progress reports update the state. *)
HandleStateProgress ==
  /\ Pumping /\ wire # <<>> /\ Head(wire).kind = "state"
  /\ wire' = Tail(wire)
  /\ LET m == Head(wire).msg
         s == Head(wire).state
     IN  /\ state' = IF m \in registered /\ s = "sent" THEN [state EXCEPT ![m] = s] ELSE state
         /\ stack' = IF m \in registered THEN Append(stack, <<"dispatch", m, s>>) ELSE stack
  /\ UNCHANGED <<sending, registered, completed, result, callback, fired, lost, progress, drops>>

(* messaging.state: dropped when the message is not registered; otherwise  *)
(* the state is set and the listeners run.                                 *)
HandleState ==
  /\ Pumping /\ wire # <<>> /\ Head(wire).kind = "state"
  /\ wire' = Tail(wire)
  /\ LET m == Head(wire).msg
         s == Head(wire).state
     IN  IF m \in registered
         THEN /\ state' = [state EXCEPT ![m] = s]
              /\ stack' = Append(stack, <<"dispatch", m, s>>)
              /\ UNCHANGED lost
         ELSE /\ lost' = IF s \in Terminal THEN lost \cup {m} ELSE lost
              /\ UNCHANGED <<state, stack>>
  /\ UNCHANGED <<sending, registered, completed, result, callback, fired, progress, drops>>

(* run() polls a quiet socket. *)
Idle == stack = <<>> /\ wire = <<>> /\ UNCHANGED vars

(* Mutant of Unregister: the message leaves the table after any report. *)
UnregisterAlways(m, done) == registered' = registered \ {m}

(* Back in _handle_event: a completed message leaves the table.            *)
Unregister(m, done) == registered' = IF m \in done THEN registered \ {m} ELSE registered

(* Mutants of ListenersDone: the state is stored after the listeners; only *)
(* delivery is terminal.                                                   *)
ListenersDoneStoresState(m, s) ==
  /\ TopIs(<<"dispatch", m, s>>)
  /\ state' = [state EXCEPT ![m] = s]
  /\ stack' = Below
  /\ UNCHANGED <<sending, registered, completed, result, callback, fired, lost, wire,
                 progress, drops>>
ListenersDoneDelivered(m, s) ==
  /\ TopIs(<<"dispatch", m, s>>)
  /\ completed' = IF s = "delivered" THEN completed \cup {m} ELSE completed
  /\ stack' = Below /\ Unregister(m, completed')
  /\ UNCHANGED <<sending, state, result, callback, fired, lost, wire, progress, drops>>

(* The listeners have run; a terminal event completes the handle and calls *)
(* on_completed.                                                           *)
ListenersDone(m, s) ==
  /\ TopIs(<<"dispatch", m, s>>)
  /\ IF s \in Terminal
     THEN /\ completed' = completed \cup {m}
          /\ result' = [result EXCEPT ![m] = s]
     ELSE UNCHANGED <<completed, result>>
  /\ IF s \in Terminal /\ m \in callback
     THEN /\ fired' = [fired EXCEPT ![m] = @ + 1]
          /\ stack' = Append(Below, <<"completed", m>>)
          /\ UNCHANGED registered
     ELSE /\ UNCHANGED fired
          /\ stack' = Below
          /\ Unregister(m, completed')
  /\ UNCHANGED <<sending, state, callback, lost, wire, progress, drops>>

CompletedReturns(m) ==
  /\ TopIs(<<"completed", m>>)
  /\ stack' = Below
  /\ Unregister(m, completed)
  /\ UNCHANGED <<sending, state, completed, result, callback, fired, lost, wire, progress,
                 drops>>

-----------------------------------------------------------------------------
(* The RELAY server (not under src/): it answers, then reports progress, a *)
(* terminal state at most once and last.                                   *)

ServerAccepts(m) ==
  /\ progress[m] = "asked"
  /\ progress' = [progress EXCEPT ![m] = "queued"]
  /\ wire' = Append(wire, [kind |-> "accepted", msg |-> m])
  /\ UNCHANGED <<client, drops>>

ServerReports(m, s) ==
  /\ \/ progress[m] = "queued"
     \/ progress[m] = "sent" /\ s \in Terminal
  /\ progress' = [progress EXCEPT ![m] = s]
  /\ wire' = Append(wire, [kind |-> "state", msg |-> m, state |-> s])
  /\ UNCHANGED <<client, drops>>

(* The connection is lost with what is on it. *)
Drop ==
  /\ drops < MaxDrops /\ drops' = drops + 1
  /\ wire' = <<>>
  /\ lost' = lost \cup {m \in Msgs : \E k \in 1..Len(wire) :
                          wire[k].msg = m /\ wire[k].kind = "state" /\ wire[k].state \in Terminal}
  /\ progress' = [m \in Msgs |-> IF progress[m] = "asked" THEN "unknown" ELSE progress[m]]
  /\ UNCHANGED <<stack, sending, registered, state, completed, result, callback, fired>>

-----------------------------------------------------------------------------
Handle    == HandleAccepted \/ HandleState
CallReturns     == \E m \in Msgs : SendRaises(m) \/ SendReturns(m) \/ WaitEnds(m)
CallbackReturns == \E m \in Msgs : CompletedReturns(m) \/ \E s \in Reported : ListenersDone(m, s)

Next ==
  \/ \E m \in Msgs : SendMessage(m) \/ OnCompleted(m) \/ Wait(m)
  \/ CallReturns \/ CallbackReturns
  \/ Handle \/ Idle
  \/ \E m \in Msgs : ServerAccepts(m)
  \/ \E m \in Msgs, s \in Reported : ServerReports(m, s)
  \/ Drop

(* send_message() and wait() have timeouts; a callback makes finitely many *)
(* calls and returns, hence SF; run() reads on whenever it is back.        *)
Fairness == SF_vars(CallReturns) /\ SF_vars(CallbackReturns) /\ SF_vars(Handle)

Spec == Init /\ [][Next]_vars /\ Fairness

-----------------------------------------------------------------------------
OnStack(e) == \E p \in 1..Len(stack) : stack[p] = e
BeingDispatched(m) == OnStack(<<"completed", m>>) \/ \E s \in Reported : OnStack(<<"dispatch", m, s>>)

(* The handle's parts agree, however dispatches nest: completed handles    *)
(* show the terminal state they were completed with, and a terminal state  *)
(* on an open handle is one that is being dispatched right now.            *)
HandleConsistent ==
  \A m \in Msgs :
    /\ m \in completed <=> result[m] # "none"
    /\ m \in completed => state[m] = result[m]
    /\ state[m] \in Terminal => m \in completed \/ BeingDispatched(m)

(* "Fired once with $message when it completes" (messaging.md): a callback *)
(* given at any time, even from a listener of the terminal event, fires    *)
(* exactly once.                                                           *)
FiredOnce == \A m \in Msgs : fired[m] = IF m \in completed \cap callback THEN 1 ELSE 0

(* A message stays registered exactly as long as it can still make         *)
(* progress: the table holds no completed message, and loses no open one.  *)
TableHoldsOpenMessages ==
  \A m \in Msgs : /\ m \in registered /\ ~BeingDispatched(m) => m \notin completed
                  /\ sending[m] = "returned" /\ m \notin completed => m \in registered

(* Whatever is still to come, the state a message shows never goes back.   *)
Rank(s) == CASE s = "none" -> 0 [] s = "queued" -> 1 [] s = "sent" -> 2 [] OTHER -> 3
StateNeverRegresses == [][\A m \in Msgs : Rank(state'[m]) >= Rank(state[m])]_vars

(* A terminal report that the client has not thrown away completes the     *)
(* message.                                                                *)
TerminalReportCompletes ==
  \A m \in Msgs : (progress[m] \in Terminal /\ m \in registered)
                     ~> (m \in completed \/ m \in lost)

-----------------------------------------------------------------------------
(* The inductive invariant of the proofs.                                  *)

(* A handle exists from the return of send_message() on. *)
HandleMade ==
  \A m \in Msgs : /\ state[m] = "none" <=> sending[m] # "returned"
                  /\ m \in registered \cup completed \cup callback => sending[m] = "returned"

(* The server knows only what was sent, and has reported what is shown.    *)
ServerAhead ==
  \A m \in Msgs : /\ sending[m] = "idle" => progress[m] = "unknown"
                  /\ state[m] \in Terminal => progress[m] \in Terminal

(* Reports on the wire have been made, none follows a terminal one, and    *)
(* none is left for a message that shows a terminal state.                 *)
IsReport(k) == wire[k].kind = "state"
WireInv ==
  \A k \in 1..Len(wire) : IsReport(k) =>
    /\ progress[wire[k].msg] \in Reported
    /\ state[wire[k].msg] \notin Terminal
    /\ wire[k].state \in Terminal =>
         /\ progress[wire[k].msg] \in Terminal
         /\ \A j \in 1..Len(wire) : IsReport(j) /\ wire[j].msg = wire[k].msg => j <= k

(* A terminal report is being dispatched once, to a handle that shows it   *)
(* and is still open; an open handle shows a terminal state only then.     *)
DispatchInv ==
  \A m \in Msgs :
    /\ \A s \in Terminal, p \in 1..Len(stack) : stack[p] = <<"dispatch", m, s>> =>
         /\ state[m] = s /\ m \notin completed
         /\ \A q \in 1..Len(stack) : stack[q] = stack[p] => q = p
    /\ state[m] \in Terminal /\ m \notin completed => OnStack(<<"dispatch", m, state[m]>>)

(* All of it together, and what it is needed for: from the time the server *)
(* has made the terminal report of a message until its handle completes,   *)
(* the report is in one place only, on the wire or on the stack.           *)
MessageInv ==
  /\ TypeOK /\ HandleMade /\ ServerAhead /\ WireInv /\ DispatchInv
  /\ HandleConsistent /\ FiredOnce /\ TableHoldsOpenMessages
=============================================================================
