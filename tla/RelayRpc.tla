------------------------------ MODULE RelayRpc ------------------------------
(***************************************************************************)
(* Requests and frames in SignalWire::Relay::Client.                       *)
(*                                                                         *)
(* The client has one thread and no event loop of its own: whoever waits   *)
(* for something (execute() for a response, wait() and wait_for() for an   *)
(* event, run() for anything) pumps the socket with _read_once.  A frame   *)
(* may fire a user callback, and that callback may call execute() or       *)
(* wait() again, which pump the same socket and the same WebSocket frame   *)
(* buffer from inside the first pump.  The state is therefore the Perl     *)
(* call stack, the shared frame buffer and the table of pending requests.  *)
(*                                                                         *)
(* A step of a callback is one call it makes; between two calls it keeps   *)
(* the thread.  Time is abstract: a wait may give up at any evaluation of  *)
(* its loop condition.                                                     *)
(***************************************************************************)
EXTENDS Naturals, Sequences

CONSTANTS Ids,             \* request ids; execute() draws a fresh uuid
          MaxPushes,       \* bound: frames the server sends unasked
          MaxConnects      \* bound: connections opened

Marks == {"loop", "callback", "wait"}

ASSUME IdsAreNotMarks == Ids \cap Marks = {}
ASSUME BoundsAreNat == MaxPushes \in Nat /\ MaxConnects \in Nat

VARIABLES
  connected,   \* $self->connected
  link,        \* the socket: "none" undef, "up" open, "eof" closed by the peer
  wire,        \* frames sent by the server and not yet read from the socket
  frames,      \* frames read and not yet handled (Protocol::WebSocket buffer)
  pending,     \* keys of $self->_pending
  resolved,    \* requests whose resolve closure ran
  rejected,    \* why a request's reject closure last ran, "none" if never
  stack,       \* call stack: a request = its execute(), "loop" = the frame
               \* loop of _ws->read, "callback" = user code, "wait" = a wait()
  status,      \* what the caller of execute() has seen
  asked,       \* requests the server holds and has not answered
  replied,     \* history: the server's answer to each request
  pushes,      \* frames the server has sent unasked (bounded by MaxPushes)
  connects     \* connections opened so far (bounded by MaxConnects)

local  == <<connected, pending, resolved, rejected, stack, status>>
remote == <<asked, replied, pushes>>
vars   == <<connected, link, wire, frames, pending, resolved, rejected, stack,
            status, asked, replied, pushes, connects>>

Responses == [kind : {"result", "error"}, id : Ids]
Requests  == [kind : {"event", "ping", "disconnect"}]
Frames    == Responses \cup Requests

TypeOK ==
  /\ connected \in BOOLEAN
  /\ link \in {"none", "up", "eof"}
  /\ wire \in Seq(Frames)
  /\ frames \in Seq(Frames)
  /\ pending \subseteq Ids
  /\ resolved \subseteq Ids
  /\ rejected \in [Ids -> {"none", "server", "dropped"}]
  /\ stack \in Seq(Ids \cup Marks)
  /\ status \in [Ids -> {"idle", "waiting", "result", "error", "dropped",
                         "timeout", "died"}]
  /\ asked \subseteq Ids
  /\ replied \in [Ids -> {"none", "ok", "err"}]
  /\ pushes \in Nat
  /\ connects \in Nat

Init ==
  /\ connected = FALSE
  /\ link = "none"
  /\ wire = <<>>
  /\ frames = <<>>
  /\ pending = {}
  /\ resolved = {}
  /\ rejected = [i \in Ids |-> "none"]
  /\ stack = <<>>
  /\ status = [i \in Ids |-> "idle"]
  /\ asked = {}
  /\ replied = [i \in Ids |-> "none"]
  /\ pushes = 0
  /\ connects = 0

-----------------------------------------------------------------------------
(* The call stack.                                                         *)

Push(x) == stack' = Append(stack, x)
Pop     == stack' = SubSeq(stack, 1, Len(stack) - 1)
TopIs(x) == stack # <<>> /\ stack[Len(stack)] = x

(* $done of a pending request: one of its two closures ran. *)
Done(i) == i \in resolved \/ rejected[i] # "none"

(* User code is running: the main program, or a callback. *)
UserCode == stack = <<>> \/ TopIs("callback")

(* Who may call _read_once: run() at the bottom, an execute() whose loop     *)
(* condition holds, or a wait().                                           *)
Reading == /\ link # "none" /\ connected
           /\ \/ stack = <<>>
              \/ TopIs("wait")
              \/ \E i \in Ids : TopIs(i) /\ ~Done(i)

-----------------------------------------------------------------------------
(* execute().                                                              *)

(* Register the closures under a fresh id, send, enter the wait loop.  A   *)
(* write on a socket the peer has closed is lost; without a WebSocket      *)
(* _send writes nothing.                                                   *)
Execute(i) ==
  /\ UserCode /\ status[i] = "idle"
  /\ pending' = pending \cup {i}
  /\ status' = [status EXCEPT ![i] = "waiting"]
  /\ Push(i)
  /\ asked' = IF link = "up" THEN asked \cup {i} ELSE asked
  /\ UNCHANGED <<connected, link, wire, frames, resolved, rejected, replied,
                 pushes, connects>>

(* The parameters cannot be encoded (a code reference among them):         *)
(* encode_json dies in _send, after the request has been registered.       *)
ExecuteUnencodable(i) ==
  /\ UserCode /\ status[i] = "idle"
  /\ pending' = pending \cup {i}
  /\ status' = [status EXCEPT ![i] = "died"]
  /\ UNCHANGED <<connected, link, wire, frames, resolved, rejected, stack,
                 connects, remote>>

(* What execute() makes of its closures' variables after the loop: an      *)
(* error wins over a result, neither is a timeout.                         *)
Outcome(i) == IF rejected[i] = "server" THEN "error"
              ELSE IF rejected[i] = "dropped" THEN "dropped"
              ELSE IF i \in resolved THEN "result"
              ELSE "timeout"

(* Mutant of Leave: the table entry is not deleted. *)
LeaveKeepsEntry(i) ==
  /\ status' = [status EXCEPT ![i] = Outcome(i)]
  /\ Pop
  /\ UNCHANGED <<connected, link, wire, frames, pending, resolved, rejected,
                 connects, remote>>

Leave(i) ==
  /\ pending' = pending \ {i}
  /\ status' = [status EXCEPT ![i] = Outcome(i)]
  /\ Pop
  /\ UNCHANGED <<connected, link, wire, frames, resolved, rejected, connects,
                 remote>>

(* The loop ends because the request is settled or the connection is gone. *)
ExecReturn(i) == TopIs(i) /\ (Done(i) \/ ~connected) /\ Leave(i)

(* The loop ends because _request_timeout seconds have passed. *)
ExecTimeout(i) == TopIs(i) /\ ~Done(i) /\ connected /\ Leave(i)

-----------------------------------------------------------------------------
(* wait() on an action and wait_for() on a call: loops around _read_once   *)
(* that do not look at the connection.                                     *)

BeginWait == /\ UserCode
             /\ Push("wait")
             /\ UNCHANGED <<connected, link, wire, frames, pending, resolved,
                            rejected, status, connects, remote>>

EndWait == /\ TopIs("wait")
           /\ Pop
           /\ UNCHANGED <<connected, link, wire, frames, pending, resolved,
                          rejected, status, connects, remote>>

-----------------------------------------------------------------------------
(* _read_once.                                                             *)

(* Mutant of ReadChunk: a guard against re-entrancy; a nested read only    *)
(* fills the buffer.                                                       *)
ReadChunkGuarded ==
  /\ Reading /\ wire # <<>>
  /\ \E n \in 1..Len(wire) :
       /\ frames' = frames \o SubSeq(wire, 1, n)
       /\ wire' = SubSeq(wire, n + 1, Len(wire))
  /\ IF \E p \in 1..Len(stack) : stack[p] = "loop" THEN UNCHANGED stack ELSE Push("loop")
  /\ UNCHANGED <<connected, link, pending, resolved, rejected, status,
                 connects, remote>>

(* sysread returns what has arrived, up to 4096 bytes: some of the frames  *)
(* on the wire.  _ws->read appends them to the frame buffer and loops.     *)
ReadChunk ==
  /\ Reading /\ wire # <<>>
  /\ \E n \in 1..Len(wire) :
       /\ frames' = frames \o SubSeq(wire, 1, n)
       /\ wire' = SubSeq(wire, n + 1, Len(wire))
  /\ Push("loop")
  /\ UNCHANGED <<connected, link, pending, resolved, rejected, status,
                 connects, remote>>

(* The reason passed to every pending reject closure; the closures stay in *)
(* the table.                                                              *)
RejectAllPending ==
  rejected' = [i \in Ids |-> IF i \in pending THEN "dropped" ELSE rejected[i]]

ReadEof ==
  /\ Reading /\ wire = <<>> /\ link = "eof"
  /\ connected' = FALSE
  /\ RejectAllPending
  /\ UNCHANGED <<link, wire, frames, pending, resolved, stack, status,
                 connects, remote>>

(* The frame loop takes the next frame from the shared buffer.             *)
NextFrame(f) == TopIs("loop") /\ frames # <<>> /\ f = Head(frames)
                          /\ frames' = Tail(frames)

(* Mutant of HandleResponse: an error object is handed over as a result.   *)
HandleResponseAnyKind ==
  \E f \in Responses :
    /\ NextFrame(f)
    /\ pending' = pending \ {f.id}
    /\ resolved' = IF f.id \in pending THEN resolved \cup {f.id} ELSE resolved
    /\ UNCHANGED <<connected, link, wire, rejected, stack, status, connects,
                   remote>>

(* A response: the table entry goes, its closure runs.  Unknown ids (late  *)
(* answers) are ignored.                                                   *)
HandleResponse ==
  \E f \in Responses :
    /\ NextFrame(f)
    /\ pending' = pending \ {f.id}
    /\ resolved' = IF f.id \in pending /\ f.kind = "result"
                   THEN resolved \cup {f.id} ELSE resolved
    /\ rejected' = IF f.id \in pending /\ f.kind = "error"
                   THEN [rejected EXCEPT ![f.id] = "server"] ELSE rejected
    /\ UNCHANGED <<connected, link, wire, stack, status, connects, remote>>

(* An event: acknowledged, then dispatched, which may run a user callback. *)
HandleEvent ==
  /\ NextFrame([kind |-> "event"])
  /\ Push("callback") \/ UNCHANGED stack
  /\ UNCHANGED <<connected, link, wire, pending, resolved, rejected, status,
                 connects, remote>>

HandlePing ==
  /\ NextFrame([kind |-> "ping"])
  /\ UNCHANGED <<link, wire, connects, remote, local>>

(* signalwire.disconnect: the flag drops, nothing is rejected. *)
HandleDisconnect ==
  /\ NextFrame([kind |-> "disconnect"])
  /\ connected' = FALSE
  /\ UNCHANGED <<link, wire, pending, resolved, rejected, stack, status,
                 connects, remote>>

(* No complete frame is left: _ws->read returns to whoever called          *)
(* _read_once.                                                             *)
EndLoop == /\ TopIs("loop") /\ frames = <<>>
           /\ Pop
           /\ UNCHANGED <<connected, link, wire, frames, pending, resolved,
                          rejected, status, connects, remote>>

(* Mutant of CallbackReturn: without the eval around it a callback that    *)
(* dies takes the frame loop below it along.                               *)
CallbackEscapes == /\ TopIs("callback")
                   /\ stack' = SubSeq(stack, 1, Len(stack) - 2)
                   /\ UNCHANGED <<connected, link, wire, frames, pending,
                                  resolved, rejected, status, connects, remote>>

(* The callback returns, or dies inside its eval.                          *)
CallbackReturn == /\ TopIs("callback")
                  /\ Pop
                  /\ UNCHANGED <<connected, link, wire, frames, pending,
                                 resolved, rejected, status, connects, remote>>

-----------------------------------------------------------------------------
(* Connections.                                                            *)

(* connect_ws: a new socket and a new, empty frame buffer, or nothing.     *)
ConnectWs ==
  \/ /\ connects < MaxConnects
     /\ connects' = connects + 1
     /\ connected' = TRUE /\ link' = "up"
     /\ wire' = <<>> /\ frames' = <<>> /\ asked' = {}
  \/ UNCHANGED <<connects, connected, link, wire, frames, asked>>

(* connect() by the main program. *)
Connect ==
  /\ stack = <<>> /\ ~connected
  /\ ConnectWs
  /\ UNCHANGED <<pending, resolved, rejected, stack, status, replied, pushes>>

(* reconnect() from run(): what is still in the table is dropped first.    *)
Reconnect ==
  /\ stack = <<>> /\ ~connected
  /\ pending' = {}
  /\ RejectAllPending
  /\ ConnectWs
  /\ UNCHANGED <<resolved, stack, status, replied, pushes>>

(* disconnect_ws by user code, possibly from inside the frame loop, whose  *)
(* remaining frames are still handled.                                     *)
DisconnectWs ==
  /\ UserCode
  /\ connected' = FALSE
  /\ RejectAllPending
  /\ link' = "none" /\ wire' = <<>> /\ asked' = {}
  /\ UNCHANGED <<frames, pending, resolved, stack, status, replied, pushes,
                 connects>>

-----------------------------------------------------------------------------
(* The RELAY server (not under src/).                                      *)

ServerReply(i) ==
  /\ link = "up" /\ i \in asked
  /\ asked' = asked \ {i}
  /\ \/ /\ wire' = Append(wire, [kind |-> "result", id |-> i])
        /\ replied' = [replied EXCEPT ![i] = "ok"]
     \/ /\ wire' = Append(wire, [kind |-> "error", id |-> i])
        /\ replied' = [replied EXCEPT ![i] = "err"]
  /\ UNCHANGED <<link, frames, pushes, connects, local>>

ServerPush ==
  /\ link = "up" /\ pushes < MaxPushes
  /\ pushes' = pushes + 1
  /\ \E f \in Requests : wire' = Append(wire, f)
  /\ UNCHANGED <<link, frames, asked, replied, connects, local>>

ServerClose ==
  /\ link = "up"
  /\ link' = "eof" /\ asked' = {}
  /\ UNCHANGED <<wire, frames, replied, pushes, connects, local>>

-----------------------------------------------------------------------------
Handle == HandleResponse \/ HandleEvent \/ HandlePing \/ HandleDisconnect

Next ==
  \/ \E i \in Ids : Execute(i) \/ ExecuteUnencodable(i)
  \/ \E i \in Ids : ExecReturn(i) \/ ExecTimeout(i)
  \/ BeginWait \/ EndWait
  \/ ReadChunk \/ ReadEof
  \/ Handle \/ EndLoop \/ CallbackReturn
  \/ Connect \/ Reconnect \/ DisconnectWs
  \/ \E i \in Ids : ServerReply(i)
  \/ ServerPush \/ ServerClose

(* The thread does not stop inside the library: a loop whose condition is  *)
(* false, or whose deadline passes, is left, and frames are handled.  User *)
(* callbacks are assumed to return, whatever they call meanwhile (SF).     *)
Fairness ==
  /\ \A i \in Ids : WF_vars(ExecReturn(i) \/ ExecTimeout(i))
  /\ WF_vars(EndWait)
  /\ WF_vars(Handle \/ EndLoop)
  /\ SF_vars(CallbackReturn)

Spec == Init /\ [][Next]_vars /\ Fairness

-----------------------------------------------------------------------------
(* Safety.                                                                 *)

In(seq) == {seq[k] : k \in 1..Len(seq)}

OnStack(i) == i \in In(stack)

(* The table of pending requests and the call stack agree: a request that  *)
(* is neither resolved nor refused by the server still has its entry (so a *)
(* response or a dropped connection reaches it), and an entry belongs to   *)
(* an execute() that is still on the stack.  Requests that died while they *)
(* were encoded are the one exception: their entry is never removed.       *)
PendingMatchesStack ==
  \A i \in Ids :
    /\ status[i] = "waiting" <=> OnStack(i)
    /\ OnStack(i) /\ i \notin resolved /\ rejected[i] # "server" => i \in pending
    /\ i \in pending => OnStack(i) \/ status[i] = "died"

(* A caller is told "result" or "error" only when the server answered that *)
(* request, that way: no nesting of waits, drop or reconnect hands one     *)
(* request the other's answer.                                             *)
OutcomeMatchesReply ==
  \A i \in Ids : /\ status[i] = "result" => replied[i] = "ok"
                 /\ status[i] = "error"  => replied[i] = "err"

Unread(i) == \E f \in In(frames) \cap Responses : f.id = i

(* The frame buffer is shared by nested pumps, and a nested pump may leave *)
(* frames to the outer one.  Even so, the execute() that is running never  *)
(* has its own answer waiting in the buffer: it gives up only on requests  *)
(* whose answer has not been read from the socket ("a half-open connection *)
(* or a lost response", Client.pm).                                        *)
NoUnreadReply == \A i \in Ids : TopIs(i) => ~Unread(i)

(* Frames that were read are somebody's business: as long as the buffer is *)
(* not empty a frame loop is on the stack to drain it.                     *)
NothingStranded == frames # <<>> => OnStack("loop")

-----------------------------------------------------------------------------
(* The inductive invariant behind the safety properties.                   *)

(* Each request is on the stack at most once, a table entry means that no  *)
(* answer has arrived, and fresh ids have left no trace.                   *)
StackDistinct ==
  \A p, q \in 1..Len(stack) : stack[p] = stack[q] /\ stack[p] \in Ids => p = q

PendingUnsettled == \A i \in pending : i \notin resolved /\ rejected[i] # "server"

FreshIds ==
  \A i \in Ids : status[i] = "idle" =>
    /\ i \notin pending \cup resolved \cup asked
    /\ rejected[i] = "none" /\ replied[i] = "none"

StackInv == PendingMatchesStack /\ StackDistinct /\ PendingUnsettled /\ FreshIds

(* Every response in flight and every closure that ran tells the truth.    *)
ClosuresMatchReply ==
  \A i \in Ids : /\ i \in resolved => replied[i] = "ok"
                 /\ rejected[i] = "server" => replied[i] = "err"

FramesMatchReply ==
  \A f \in (In(wire) \cup In(frames)) \cap Responses :
    replied[f.id] = IF f.kind = "result" THEN "ok" ELSE "err"

ReplyInv ==
  /\ OutcomeMatchesReply /\ ClosuresMatchReply /\ FramesMatchReply
  /\ \A i \in asked : replied[i] = "none"

(* Only a frame loop that started after an execute() reads its answer.     *)
UnreadBelowLoop ==
  \A p \in 1..Len(stack) :
    stack[p] \in Ids /\ Unread(stack[p]) =>
      \E q \in 1..Len(stack) : q > p /\ stack[q] = "loop"

BufferInv == NothingStranded /\ UnreadBelowLoop

RpcInv == TypeOK /\ StackInv /\ ReplyInv /\ BufferInv

-----------------------------------------------------------------------------
(* Liveness and refinement.                                                *)

(* The client implements the contract its callers rely on, its fairness    *)
(* included: every execute() returns or raises, whatever the server and    *)
(* the callbacks that run inside its wait loop do.                         *)
Contract == INSTANCE RpcContract
ImplementsContract == Contract!Spec
=============================================================================
