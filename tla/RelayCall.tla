------------------------------ MODULE RelayCall ------------------------------
(***************************************************************************)
(* One call and the actions (play, play_and_collect, detect, receive_fax)  *)
(* that run on it: SignalWire::Relay::Call and SignalWire::Relay::Action.  *)
(*                                                                         *)
(* An action is put into the call's table before its request is sent, is   *)
(* completed by an event, by the end of the call or by the answer "call    *)
(* gone", and then calls its on_completed callback.  Callbacks, listeners  *)
(* and waits nest: all of them may start actions and wait, which pumps the *)
(* next event from inside the dispatch of this one.                        *)
(*                                                                         *)
(* Frames are handled one at a time from one queue; a pumping call may     *)
(* leave before or after the next frame, which covers every division of    *)
(* the stream into chunks (RelayRpc has the buffer).                       *)
(***************************************************************************)
EXTENDS Naturals, Sequences

CONSTANTS Acts,       \* the actions the application starts, by control_id
          Kind,       \* what each of them is
          MaxDrops    \* bound: connections lost (and opened again)

Kinds == {"play", "collect", "detect", "fax"}

ASSUME ActionKinds == Kind \in [Acts -> Kinds] /\ MaxDrops \in Nat

VARIABLES
  stack,       \* call stack, see Entries
  status,      \* how starting each action went
  answer,      \* the answer to its request: "none", "ok", "gone" (404, 410),
               \* "failed" (another code), "refused" (a JSON-RPC error)
  actions,     \* keys of $call->_actions
  completed,   \* actions whose completed flag is set
  result,      \* $action->result: "none" yet, "undef", or the event
  callback,    \* actions with an on_completed callback
  fired,       \* history: how often it has been called
  callState,   \* $call->state: "live" or "ended"
  registered,  \* the call is in $client->_calls
  wire,        \* frames sent by the server and not yet handled
  remote,      \* what the server has of each action
  remoteCall,  \* the server's view of the call
  reported,    \* the events the server has sent for each action
  drops

actionVars == <<status, answer, actions, completed, result, callback, fired>>
callVars   == <<callState, registered>>
serverVars == <<remote, remoteCall, reported, drops>>
vars       == <<stack, actionVars, callVars, wire, serverVars>>

(* Events of an action: progress, the end of the embedded play of a        *)
(* play_and_collect, a detection, and a terminal state or collect result.  *)
Events == {"progress", "leg", "payload", "finished"}

EventsOf(kind) == CASE kind = "collect" -> {"leg", "finished"}
                    [] kind = "detect"  -> {"payload", "finished"}
                    [] OTHER            -> {"progress", "finished"}

Frames == [kind : {"answer"}, act : Acts, code : {"ok", "gone", "failed", "refused"}]
          \cup [kind : {"event"}, act : Acts, event : Events]
          \cup [kind : {"ended"}]

(* start and wait pump; completed and listeners are user code; event and   *)
(* ending are dispatch_event around a callback, the latter with what is    *)
(* left of the list _resolve_all_actions goes through.                     *)
Entries == ({"start", "wait", "completed", "event"} \X Acts)
           \cup ({"ending"} \X SUBSET Acts) \cup {<<"listeners">>}

TypeOK ==
  /\ stack \in Seq(Entries)
  /\ status \in [Acts -> {"idle", "waiting", "returned", "raised", "died"}]
  /\ answer \in [Acts -> {"none", "ok", "gone", "failed", "refused"}]
  /\ actions \subseteq Acts /\ completed \subseteq Acts /\ callback \subseteq Acts
  /\ result \in [Acts -> {"none", "undef", "payload", "finished"}]
  /\ fired \in [Acts -> 0..1]
  /\ callState \in {"live", "ended"} /\ registered \in BOOLEAN
  /\ wire \in Seq(Frames)
  /\ remote \in [Acts -> {"unknown", "asked", "running", "done"}]
  /\ remoteCall \in {"live", "ended"}
  /\ reported \in [Acts -> SUBSET Events]
  /\ drops \in 0..MaxDrops

Init ==
  /\ stack = <<>> /\ wire = <<>> /\ drops = 0
  /\ status = [a \in Acts |-> "idle"] /\ answer = [a \in Acts |-> "none"]
  /\ actions = {} /\ completed = {} /\ callback = {}
  /\ result = [a \in Acts |-> "none"] /\ fired = [a \in Acts |-> 0]
  /\ callState = "live" /\ registered = TRUE
  /\ remote = [a \in Acts |-> "unknown"] /\ remoteCall = "live"
  /\ reported = [a \in Acts |-> {}]

-----------------------------------------------------------------------------
Top      == IF stack = <<>> THEN <<"run">> ELSE stack[Len(stack)]
TopIs(e) == Top = e
Below    == SubSeq(stack, 1, Len(stack) - 1)

UserCode == Top[1] \in {"run", "completed", "listeners"}
Pumping  == Top[1] \in {"run", "start", "wait"}

(* Mutant of Resolve: the completed flag is not looked at. *)
ResolveAgain(a, r, rest) ==
  /\ completed' = completed \cup {a}
  /\ result' = [result EXCEPT ![a] = r]
  /\ IF a \in callback
     THEN fired' = [fired EXCEPT ![a] = @ + 1] /\ stack' = Append(rest, <<"completed", a>>)
     ELSE UNCHANGED fired /\ stack' = rest

(* _resolve: the first time only, set flag and result and call on_completed*)
(* on top of the given stack.                                              *)
Resolve(a, r, rest) ==
  /\ completed' = completed \cup {a}
  /\ result' = IF a \in completed THEN result ELSE [result EXCEPT ![a] = r]
  /\ IF a \in callback \ completed
     THEN fired' = [fired EXCEPT ![a] = @ + 1] /\ stack' = Append(rest, <<"completed", a>>)
     ELSE UNCHANGED fired /\ stack' = rest

-----------------------------------------------------------------------------
(* Starting an action: _start_action, and receive_fax with its own copy.   *)

StartAction(a) ==
  /\ UserCode /\ status[a] = "idle"
  /\ status' = [status EXCEPT ![a] = "waiting"]
  /\ actions' = actions \cup {a}
  /\ remote' = [remote EXCEPT ![a] = "asked"]
  /\ stack' = Append(stack, <<"start", a>>)
  /\ UNCHANGED <<answer, completed, result, callback, fired, callVars, wire, remoteCall,
                 reported, drops>>

(* With the on_completed option the code reference becomes a parameter of  *)
(* the request, and encode_json dies on it.                                *)
StartWithOption(a) ==
  /\ UserCode /\ status[a] = "idle"
  /\ status' = [status EXCEPT ![a] = "died"]
  /\ actions' = actions \cup {a}
  /\ UNCHANGED <<stack, answer, completed, result, callback, fired, callVars, wire,
                 serverVars>>

Leave(a, how) ==
  /\ status' = [status EXCEPT ![a] = how]
  /\ UNCHANGED <<answer, callback, callVars, wire, serverVars>>

(* receive_fax looks for 404 and 410 only; all others raise on a failure.  *)
Raises(a) == answer[a] = "failed" /\ Kind[a] # "fax"

StartReturns(a) ==
  /\ TopIs(<<"start", a>>) /\ answer[a] \in {"ok", "failed"} /\ ~Raises(a)
  /\ Leave(a, "returned")
  /\ stack' = Below
  /\ UNCHANGED <<actions, completed, result, fired>>

(* Mutants of StartGone: refused requests count as gone; the action is not *)
(* completed.                                                              *)
StartGoneOrRefused(a) ==
  /\ TopIs(<<"start", a>>) /\ answer[a] \in {"gone", "refused"}
  /\ Leave(a, "returned")
  /\ Resolve(a, "undef", Below)
  /\ UNCHANGED actions
StartGoneSilently(a) ==
  /\ TopIs(<<"start", a>>) /\ answer[a] = "gone"
  /\ Leave(a, "returned")
  /\ stack' = Below
  /\ UNCHANGED <<actions, completed, result, fired>>

(* The call is gone: the action completes and stays in the table. *)
StartGone(a) ==
  /\ TopIs(<<"start", a>>) /\ answer[a] = "gone"
  /\ Leave(a, "returned")
  /\ Resolve(a, "undef", Below)
  /\ UNCHANGED actions

StartRaises(a) ==
  /\ TopIs(<<"start", a>>) /\ Raises(a)
  /\ Leave(a, "raised")
  /\ actions' = actions \ {a}
  /\ stack' = Below
  /\ UNCHANGED <<completed, result, fired>>

(* execute() itself dies: refused, timed out or dropped. *)
StartDies(a) ==
  /\ TopIs(<<"start", a>>) /\ answer[a] \in {"none", "refused"}
  /\ Leave(a, "died")
  /\ stack' = Below
  /\ UNCHANGED <<actions, completed, result, fired>>

-----------------------------------------------------------------------------
(* Using the action.                                                       *)

OnCompleted(a) ==
  /\ UserCode /\ status[a] = "returned" /\ a \notin callback
  /\ callback' = callback \cup {a}
  /\ IF a \in completed
     THEN /\ fired' = [fired EXCEPT ![a] = @ + 1]
          /\ stack' = Append(stack, <<"completed", a>>)
     ELSE UNCHANGED <<fired, stack>>
  /\ UNCHANGED <<status, answer, actions, completed, result, callVars, wire, serverVars>>

(* wait() and, until their response is there, stop(), pause() and the rest *)
(* pump the socket; all have a timeout.                                    *)
Wait(a) ==
  /\ UserCode /\ status[a] = "returned" /\ a \notin completed
  /\ stack' = Append(stack, <<"wait", a>>)
  /\ UNCHANGED <<actionVars, callVars, wire, serverVars>>

WaitEnds(a) ==
  /\ TopIs(<<"wait", a>>)
  /\ stack' = Below
  /\ UNCHANGED <<actionVars, callVars, wire, serverVars>>

-----------------------------------------------------------------------------
(* Frames.                                                                 *)

Arrives(kind) == Pumping /\ wire # <<>> /\ Head(wire).kind = kind /\ wire' = Tail(wire)

(* An answer nobody waits for any more is ignored. *)
HandleAnswer ==
  /\ Arrives("answer")
  /\ LET a == Head(wire).act
     IN  answer' = IF status[a] = "waiting" THEN [answer EXCEPT ![a] = Head(wire).code]
                   ELSE answer
  /\ UNCHANGED <<stack, status, actions, completed, result, callback, fired, callVars,
                 serverVars>>

(* Mutant of Completes: a collect only by its result. *)
CompletesNoCollect(a, e) == \/ e = "payload" /\ Kind[a] = "detect"
                            \/ e = "finished" /\ Kind[a] = "play"

(* Which events complete an action: _handle_event of Detect and Collect,   *)
(* then ACTION_TERMINAL_STATES, if the event's class has a state at all.   *)
Completes(a, e) == \/ e = "payload" /\ Kind[a] = "detect"
                   \/ e = "finished" /\ Kind[a] \in {"play", "collect"}

(* An event of an action in the table that consumes it: it completes the   *)
(* action or not; the rest of dispatch_event is EventContinues.            *)
HandleActionEvent ==
  /\ Arrives("event")
  /\ LET a == Head(wire).act
         e == Head(wire).event
     IN  IF ~registered THEN UNCHANGED <<stack, completed, result, fired>>
         ELSE IF a \in actions /\ Completes(a, e)
         THEN Resolve(a, e, Append(stack, <<"event", a>>))
         ELSE /\ stack' = Append(stack, <<"event", a>>)
              /\ UNCHANGED <<completed, result, fired>>
  /\ UNCHANGED <<status, answer, actions, callback, callVars, serverVars>>

(* Mutant of EventContinues: the action is deleted by any event. *)
EventForgets(a) ==
  /\ TopIs(<<"event", a>>)
  /\ actions' = actions \ {a}
  /\ stack' = Append(Below, <<"listeners">>)
  /\ UNCHANGED <<status, answer, completed, result, callback, fired, callVars, wire,
                 serverVars>>

EventContinues(a) ==
  /\ TopIs(<<"event", a>>)
  /\ actions' = actions \ (completed \cap {a})
  /\ stack' = Append(Below, <<"listeners">>)
  /\ UNCHANGED <<status, answer, completed, result, callback, fired, callVars, wire,
                 serverVars>>

(* calling.call.state ended: every action in the table is resolved in turn,*)
(* then the table is emptied.  (The call ends once, so it is registered.)  *)
HandleEnded ==
  /\ Arrives("ended")
  /\ callState' = "ended"
  /\ stack' = Append(stack, <<"ending", actions>>)
  /\ UNCHANGED <<actionVars, registered, serverVars>>

ResolveNext(a) ==
  /\ Top[1] = "ending" /\ a \in Top[2]
  /\ Resolve(a, "undef", Append(Below, <<"ending", Top[2] \ {a}>>))
  /\ UNCHANGED <<status, answer, actions, callback, callVars, wire, serverVars>>

EndingDone ==
  /\ TopIs(<<"ending", {}>>)
  /\ actions' = {}
  /\ stack' = Append(Below, <<"listeners">>)
  /\ UNCHANGED <<status, answer, completed, result, callback, fired, callVars, wire,
                 serverVars>>

CompletedReturns(a) ==
  /\ TopIs(<<"completed", a>>)
  /\ stack' = Below
  /\ UNCHANGED <<actionVars, callVars, wire, serverVars>>

(* The listeners have run; _handle_event removes an ended call. *)
ListenersReturn ==
  /\ TopIs(<<"listeners">>)
  /\ stack' = Below
  /\ registered' = (registered /\ callState # "ended")
  /\ UNCHANGED <<actionVars, callState, wire, serverVars>>

Idle == stack = <<>> /\ wire = <<>> /\ UNCHANGED vars

-----------------------------------------------------------------------------
(* The RELAY server (not under src/): nothing happens on an ended call, and*)
(* its end is the last event about it.                                     *)

ServerAnswers(a, code) ==
  /\ remote[a] = "asked"
  /\ (code = "gone") <=> (remoteCall = "ended")
  /\ remote' = [remote EXCEPT ![a] = IF code = "ok" THEN "running" ELSE "done"]
  /\ wire' = Append(wire, [kind |-> "answer", act |-> a, code |-> code])
  /\ UNCHANGED <<stack, actionVars, callVars, remoteCall, reported, drops>>

ServerReports(a, e) ==
  /\ remote[a] = "running" /\ remoteCall = "live"
  /\ e \in EventsOf(Kind[a]) \ reported[a]
  /\ reported' = [reported EXCEPT ![a] = @ \cup {e}]
  /\ remote' = IF e = "finished" THEN [remote EXCEPT ![a] = "done"] ELSE remote
  /\ wire' = Append(wire, [kind |-> "event", act |-> a, event |-> e])
  /\ UNCHANGED <<stack, actionVars, callVars, remoteCall, drops>>

ServerEndsCall ==
  /\ remoteCall = "live" /\ remoteCall' = "ended"
  /\ wire' = Append(wire, [kind |-> "ended"])
  /\ UNCHANGED <<stack, actionVars, callVars, remote, reported, drops>>

(* The connection is lost with what is on it. *)
Drop ==
  /\ drops < MaxDrops /\ drops' = drops + 1
  /\ wire' = <<>>
  /\ remote' = [a \in Acts |-> IF remote[a] = "asked" THEN "unknown" ELSE remote[a]]
  /\ UNCHANGED <<stack, actionVars, callVars, remoteCall, reported>>

-----------------------------------------------------------------------------
Handle == HandleAnswer \/ HandleActionEvent \/ HandleEnded

CallReturns == \E a \in Acts : \/ StartReturns(a) \/ StartGone(a) \/ StartRaises(a)
                               \/ StartDies(a) \/ WaitEnds(a)
CallbackReturns == ListenersReturn \/ \E a \in Acts : CompletedReturns(a)
Dispatch == EndingDone \/ \E a \in Acts : EventContinues(a) \/ ResolveNext(a)

Next ==
  \/ \E a \in Acts : \/ StartAction(a) \/ StartWithOption(a)
                     \/ OnCompleted(a) \/ Wait(a)
  \/ CallReturns \/ CallbackReturns \/ Dispatch
  \/ Handle \/ Idle
  \/ \E a \in Acts, code \in {"ok", "gone", "failed", "refused"} : ServerAnswers(a, code)
  \/ \E a \in Acts, e \in Events : ServerReports(a, e)
  \/ ServerEndsCall \/ Drop

(* Pumping calls have timeouts, callbacks make finitely many calls and     *)
(* return (hence SF), and run() reads on whenever it is back.              *)
Fairness == /\ SF_vars(CallReturns) /\ SF_vars(CallbackReturns)
            /\ WF_vars(Dispatch) /\ SF_vars(Handle)

Spec == Init /\ [][Next]_vars /\ Fairness

-----------------------------------------------------------------------------
OnStack(e) == \E p \in 1..Len(stack) : stack[p] = e
Ending     == \E p \in 1..Len(stack) : stack[p][1] = "ending"

(* An action the application holds and that is not completed is in the     *)
(* call's table, so whatever still happens to it reaches it; and a         *)
(* completed one leaves the table with the dispatch that completed it,     *)
(* unless it completed because the call was gone.                          *)
TableHoldsOpenActions ==
  \A a \in Acts :
    /\ status[a] = "returned" /\ a \notin completed => a \in actions
    /\ a \in actions /\ a \in completed => answer[a] = "gone" \/ Ending \/ OnStack(<<"event", a>>)

(* Once the end of the call has been dispatched no action is left open,    *)
(* not even one that a callback started meanwhile, and the call goes with  *)
(* its last dispatch.                                                      *)
EndedCallHasNoOpenAction ==
  callState = "ended" =>
    /\ ~Ending => \A a \in Acts : status[a] = "returned" => a \in completed
    /\ registered => \E p \in 1..Len(stack) : stack[p][1] \in {"ending", "event", "listeners"}

CallInv == TypeOK /\ TableHoldsOpenActions /\ EndedCallHasNoOpenAction

(* on_completed fires exactly once, also when the event, the end of the    *)
(* call and the answer "gone" all complete the action, or the callback is  *)
(* set while another one runs.                                             *)
FiredOnce == \A a \in Acts : fired[a] = IF a \in completed \cap callback THEN 1 ELSE 0

(* The result is what happened: an event the server sent for this action,  *)
(* never the embedded play's; undef only when the call is over.            *)
ResultTruthful ==
  \A a \in Acts :
    /\ a \in completed <=> result[a] # "none"
    /\ result[a] = "undef" => remoteCall = "ended"
    /\ result[a] \in Events => result[a] \in reported[a]

(* The end of the call completes every action the application holds.       *)
EndCompletesActions ==
  \A a \in Acts : (remoteCall = "ended" /\ drops = 0 /\ status[a] = "returned")
                     ~> a \in completed \/ drops > 0

(* A terminal event of a play or a play_and_collect completes it. *)
FinishCompletesAction ==
  \A a \in Acts : ("finished" \in reported[a] /\ Kind[a] \in {"play", "collect"})
                     ~> a \in completed \/ drops > 0 \/ status[a] = "died"

-----------------------------------------------------------------------------
(* What the documentation says and the code does not do.                   *)

(* Constants.pm lists finished as terminal for fax and detect as well      *)
(* (ACTION_TERMINAL_STATES), and dispatch_event resolves an action that    *)
(* "reached terminal state".                                               *)
EveryFinishCompletes ==
  \A a \in Acts : (status[a] = "returned" /\ "finished" \in reported[a])
                     ~> a \in completed \/ drops > 0
-----------------------------------------------------------------------------
(* The invariant that all of this follows from.                            *)
EndingAt(p) == p \in 1..Len(stack) /\ stack[p][1] = "ending"
AnswerTo(f, a) == f.kind = "answer" /\ f.act = a

\* An action waits for its answer while its start is on the stack, once.
StartsRun ==
  \A a \in Acts :
    /\ status[a] = "waiting" <=> OnStack(<<"start", a>>)
    /\ \A p, q \in 1..Len(stack) :
         stack[p] = <<"start", a>> /\ stack[q] = <<"start", a>> => p = q

\* Nothing has happened to an action that was not started.
IdleUntouched ==
  \A a \in Acts : status[a] = "idle" =>
    /\ a \notin actions /\ a \notin completed
    /\ answer[a] = "none" /\ remote[a] = "unknown"
    /\ \A p \in 1..Len(wire) : ~AnswerTo(wire[p], a)
    /\ \A p \in 1..Len(stack) : EndingAt(p) => a \notin stack[p][2]

OpenListed == \A a \in Acts : status[a] \in {"waiting", "returned"} /\ a \notin completed => a \in actions
DoneLeave  == \A a \in actions \cap completed :
                \/ answer[a] = "gone" /\ status[a] # "waiting"
                \/ Ending \/ OnStack(<<"event", a>>)

\* What the server says is so; the end of the call it says once.
WireTruthful ==
  /\ \A p \in 1..Len(wire) :
       /\ wire[p].kind = "ended" =>
            /\ remoteCall = "ended" /\ callState = "live"
            /\ \A q \in 1..Len(wire) : wire[q].kind = "ended" => p = q
       /\ wire[p].kind = "answer" /\ wire[p].code = "gone" => remoteCall = "ended"
       /\ wire[p].kind = "event" => wire[p].event \in reported[wire[p].act]
  /\ \A a \in Acts : answer[a] = "gone" => remoteCall = "ended"
  /\ callState = "ended" => remoteCall = "ended"

\* The end is dispatched once.  What was open then is on its list, and what
\* is started since is told that the call is gone.
EndingOnce == \A p, q \in 1..Len(stack) : EndingAt(p) => callState = "ended" /\ (EndingAt(q) => p = q)
OnList(a, p) == EndingAt(p) /\ a \in stack[p][2]
ToldGone(a) ==
  /\ answer[a] \in {"none", "gone"}
  /\ \A p \in 1..Len(wire) : AnswerTo(wire[p], a) => wire[p].code = "gone"
EndedStarts ==
  callState = "ended" => \A a \in Acts, q \in 1..Len(stack) : stack[q] = <<"start", a>> =>
    \/ a \in completed
    \/ \E p \in 1..Len(stack) : p > q /\ OnList(a, p)
    \/ ToldGone(a) /\ \A p \in 1..Len(stack) : EndingAt(p) => p < q
EndedReturned ==
  callState = "ended" => \A a \in Acts : status[a] = "returned" =>
    a \in completed \/ \E p \in 1..Len(stack) : OnList(a, p)
EndedDispatch ==
  callState = "ended" /\ registered =>
    \E p \in 1..Len(stack) : stack[p][1] \in {"ending", "event", "listeners"}

ActionsInv == /\ TypeOK /\ FiredOnce /\ ResultTruthful
              /\ StartsRun /\ IdleUntouched /\ OpenListed /\ DoneLeave /\ WireTruthful
              /\ EndingOnce /\ EndedStarts /\ EndedReturned /\ EndedDispatch
=============================================================================
