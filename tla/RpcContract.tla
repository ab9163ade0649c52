---------------------------- MODULE RpcContract ----------------------------
(***************************************************************************)
(* What SignalWire::Relay::Client::execute promises its caller, without    *)
(* sockets, buffers or call stacks: every request that is issued ends, it  *)
(* ends exactly once, and it ends with "result" or "error" only if the     *)
(* server answered that very request that way.  Anything else the caller   *)
(* may see (a dropped connection, a timeout, a request that could not be   *)
(* encoded) is an exception that claims nothing about the server.          *)
(***************************************************************************)
CONSTANT Ids               \* the request ids (one fresh uuid per execute)

VARIABLES status,          \* how far the caller's execute() has got
          replied          \* what the server has answered, if it has

vars == <<status, replied>>

Failures == {"dropped", "timeout", "died"}

Init == /\ status  = [i \in Ids |-> "idle"]
        /\ replied = [i \in Ids |-> "none"]

(* The caller calls execute(). *)
Issue(i) == /\ status[i] = "idle"
            /\ status' = [status EXCEPT ![i] = "waiting"]
            /\ UNCHANGED replied

(* The server answers a request, possibly one nobody waits for any more.   *)
Reply(i, r) == /\ status[i] # "idle"
               /\ replied[i] = "none"
               /\ replied' = [replied EXCEPT ![i] = r]
               /\ UNCHANGED status

(* execute() returns, or raises, with outcome r. *)
Finish(i, r) == /\ status[i] = "waiting"
                /\ \/ r \in Failures
                   \/ r = "result" /\ replied[i] = "ok"
                   \/ r = "error"  /\ replied[i] = "err"
                /\ status' = [status EXCEPT ![i] = r]
                /\ UNCHANGED replied

(* execute() raises before anything was sent. *)
Refuse(i) == /\ status[i] = "idle"
             /\ status' = [status EXCEPT ![i] = "died"]
             /\ UNCHANGED replied

FinishSomehow(i) == \E r \in Failures \cup {"result", "error"} : Finish(i, r)

Next == \E i \in Ids : \/ Issue(i)
                       \/ Refuse(i)
                       \/ \E r \in {"ok", "err"} : Reply(i, r)
                       \/ FinishSomehow(i)

Fairness == \A i \in Ids : WF_vars(FinishSomehow(i))

Spec == Init /\ [][Next]_vars /\ Fairness
=============================================================================
