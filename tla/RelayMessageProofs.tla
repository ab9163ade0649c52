-------------------------- MODULE RelayMessageProofs --------------------------
(***************************************************************************)
(* Proofs about RelayMessage for any set of messages and any bound.        *)
(***************************************************************************)
EXTENDS RelayMessage, StackLemmas

(* The entries of the call stack, by what is running.                      *)
LEMMA EntryKinds ==
  /\ \A m \in Msgs : /\ <<"send", m>> \in Entries /\ <<"wait", m>> \in Entries
                     /\ <<"completed", m>> \in Entries
                     /\ \A s \in Reported : <<"dispatch", m, s>> \in Entries
  /\ \A e \in Entries : e # <<"run">>
<1>1. \A m \in Msgs : /\ <<"send", m>> \in Entries /\ <<"wait", m>> \in Entries
                      /\ <<"completed", m>> \in Entries
  BY DEF Entries
<1>2. \A m \in Msgs, s \in Reported : <<"dispatch", m, s>> \in Entries
  BY DEF Entries
<1>3. \A e \in Entries : e[1] \in {"send", "completed", "wait", "dispatch"}
  BY DEF Entries
<1>4. <<"run">>[1] = "run"
  OBVIOUS
<1> QED
  BY <1>1, <1>2, <1>3, <1>4

LEMMA EntryShapes ==
  ASSUME NEW m, NEW n, NEW s
  PROVE  /\ <<"send", m>> # <<"dispatch", n, s>>
         /\ <<"wait", m>> # <<"dispatch", n, s>>
         /\ <<"completed", m>> # <<"dispatch", n, s>>
         /\ <<"send", m>> # <<"completed", n>> /\ <<"wait", m>> # <<"completed", n>>
<1>1. /\ <<"dispatch", n, s>>[1] = "dispatch" /\ <<"send", m>>[1] = "send"
      /\ <<"wait", m>>[1] = "wait" /\ <<"completed", m>>[1] = "completed"
  OBVIOUS
<1> QED
  BY <1>1

LEMMA EntryParts ==
  ASSUME NEW m, NEW n, NEW s, NEW t
  PROVE  /\ <<"dispatch", m, s>> = <<"dispatch", n, t>> => m = n /\ s = t
         /\ <<"completed", m>> = <<"completed", n>> => m = n
  OBVIOUS

(* The entry that TopIs names is the last of a non-empty stack. *)
LEMMA TopEntry ==
  ASSUME NEW e \in Entries, TopIs(e)
  PROVE  stack # <<>> /\ stack[Len(stack)] = e
  BY EntryKinds DEF TopIs, Top

(* The steps of the specification, one by one. *)
LEMMA NextCases ==
  ASSUME [Next]_vars
  PROVE  \/ \E m \in Msgs : \/ SendMessage(m) \/ SendRaises(m) \/ SendReturns(m)
                            \/ OnCompleted(m) \/ Wait(m) \/ WaitEnds(m)
                            \/ CompletedReturns(m) \/ ServerAccepts(m)
         \/ \E m \in Msgs, s \in Reported : ListenersDone(m, s) \/ ServerReports(m, s)
         \/ HandleAccepted \/ HandleState \/ Drop
         \/ UNCHANGED vars
  BY Zenon DEF Next, CallReturns, CallbackReturns, Handle, Idle

(* What happens when the listeners have run: on_completed is called, the   *)
(* handle completes silently, or nothing was terminal.                     *)
LEMMA ListenersDoneCases ==
  ASSUME NEW m \in Msgs, NEW s \in Reported, ListenersDone(m, s)
  PROVE  \/ /\ s \in Terminal /\ m \in callback
            /\ completed' = completed \cup {m} /\ result' = [result EXCEPT ![m] = s]
            /\ fired' = [fired EXCEPT ![m] = @ + 1]
            /\ stack' = Append(Below, <<"completed", m>>)
            /\ registered' = registered
         \/ /\ s \in Terminal /\ m \notin callback
            /\ completed' = completed \cup {m} /\ result' = [result EXCEPT ![m] = s]
            /\ fired' = fired /\ stack' = Below
            /\ registered' = registered \ {m}
         \/ /\ s \notin Terminal
            /\ completed' = completed /\ result' = result /\ fired' = fired
            /\ stack' = Below
            /\ registered' = IF m \in completed THEN registered \ {m} ELSE registered
<1>1. CASE s \in Terminal /\ m \in callback
  BY <1>1, Zenon DEF ListenersDone
<1>2. CASE s \in Terminal /\ m \notin callback
  <2>1. /\ completed' = completed \cup {m} /\ result' = [result EXCEPT ![m] = s]
        /\ fired' = fired /\ stack' = Below /\ Unregister(m, completed')
    BY <1>2, Zenon DEF ListenersDone
  <2>2. m \in completed'
    BY <2>1
  <2>3. registered' = registered \ {m}
    BY <2>1, <2>2, Zenon DEF Unregister
  <2> QED
    BY <1>2, <2>1, <2>3
<1>3. CASE s \notin Terminal
  <2>1. /\ completed' = completed /\ result' = result
        /\ fired' = fired /\ stack' = Below /\ Unregister(m, completed')
    BY <1>3, Zenon DEF ListenersDone
  <2> QED
    BY <1>3, <2>1, Zenon DEF Unregister
<1> QED
  BY <1>1, <1>2, <1>3

-----------------------------------------------------------------------------
(* Type correctness.                                                       *)

LEMMA TypeInit == Init => TypeOK
<1> SUFFICES ASSUME Init PROVE TypeOK
  OBVIOUS
<1>1. stack \in Seq(Entries) /\ wire \in Seq(Frames)
  BY EmptySeq DEF Init
<1>2. drops \in 0..MaxDrops
  BY DropBound DEF Init
<1> QED
  BY <1>1, <1>2 DEF Init, TypeOK, Reported

LEMMA TypeStep == TypeOK /\ [Next]_vars => TypeOK'
<1> SUFFICES ASSUME TypeOK, [Next]_vars PROVE TypeOK'
  OBVIOUS
<1>0. ASSUME NEW m \in Msgs PROVE [fired EXCEPT ![m] = @ + 1] \in [Msgs -> Nat]
  BY DEF TypeOK
<1>1. ASSUME NEW e \in Entries, TopIs(e) PROVE Below \in Seq(Entries)
  BY <1>1, TopEntry, PopType DEF Below, TypeOK
<1>2. ASSUME NEW e \in Entries PROVE Append(stack, e) \in Seq(Entries)
  BY PushType DEF TypeOK
<1>3. ASSUME NEW m \in Msgs, SendMessage(m) PROVE TypeOK'
  BY <1>2, <1>3, EntryKinds DEF SendMessage, TypeOK
<1>4. ASSUME NEW m \in Msgs, SendRaises(m) PROVE TypeOK'
  BY <1>1, <1>4, EntryKinds DEF SendRaises, TypeOK
<1>5. ASSUME NEW m \in Msgs, SendReturns(m) PROVE TypeOK'
  BY <1>1, <1>5, EntryKinds DEF SendReturns, TypeOK
<1>6. ASSUME NEW m \in Msgs, OnCompleted(m) PROVE TypeOK'
  <2>1. stack' \in Seq(Entries)
    BY <1>2, <1>6, EntryKinds DEF OnCompleted, TypeOK
  <2>2. fired' \in [Msgs -> Nat]
    BY <1>0, <1>6, Zenon DEF OnCompleted, TypeOK
  <2> QED
    BY <1>6, <2>1, <2>2 DEF OnCompleted, TypeOK
<1>7. ASSUME NEW m \in Msgs, Wait(m) PROVE TypeOK'
  BY <1>2, <1>7, EntryKinds DEF Wait, TypeOK
<1>8. ASSUME NEW m \in Msgs, WaitEnds(m) PROVE TypeOK'
  BY <1>1, <1>8, EntryKinds DEF WaitEnds, TypeOK
<1>9. CASE HandleAccepted
  <2>1. wire' \in Seq(Frames) /\ Head(wire) \in Frames
    BY <1>9, TakeType DEF HandleAccepted, TypeOK
  <2>2. Head(wire).msg \in Msgs
    BY <2>1 DEF Frames
  <2> QED
    BY <1>9, <2>1, <2>2 DEF HandleAccepted, TypeOK
<1>10. CASE HandleState
  <2>1. wire' \in Seq(Frames) /\ Head(wire) \in Frames
    BY <1>10, TakeType DEF HandleState, TypeOK
  <2>2. Head(wire).msg \in Msgs /\ Head(wire).state \in Reported
    BY <1>10, <2>1 DEF HandleState, Frames
  <2>3. stack' \in Seq(Entries)
    BY <1>2, <1>10, <2>2, EntryKinds DEF HandleState, TypeOK
  <2> QED
    BY <1>10, <2>1, <2>2, <2>3 DEF HandleState, TypeOK
<1>11. ASSUME NEW m \in Msgs, NEW s \in Reported, ListenersDone(m, s) PROVE TypeOK'
  <2>1. Below \in Seq(Entries)
    BY <1>1, <1>11, EntryKinds DEF ListenersDone
  <2>2. Append(Below, <<"completed", m>>) \in Seq(Entries)
    BY <2>1, PushType, EntryKinds
  <2>3. stack' \in Seq(Entries)
    BY <1>11, <2>1, <2>2, ListenersDoneCases
  <2>4. completed' \subseteq Msgs /\ registered' \subseteq Msgs
    BY <1>11, ListenersDoneCases DEF TypeOK
  <2>5. fired' \in [Msgs -> Nat]
    BY <1>0, <1>11, ListenersDoneCases, Zenon DEF TypeOK
  <2>6. result' = result \/ (s \in Terminal /\ result' = [result EXCEPT ![m] = s])
    BY <1>11, ListenersDoneCases, Zenon
  <2>7. result' \in [Msgs -> {"none"} \cup Terminal]
    BY <2>6 DEF TypeOK
  <2> QED
    BY <1>11, <2>3, <2>4, <2>5, <2>7 DEF ListenersDone, TypeOK
<1>12. ASSUME NEW m \in Msgs, CompletedReturns(m) PROVE TypeOK'
  BY <1>1, <1>12, EntryKinds DEF CompletedReturns, Unregister, TypeOK
<1>13. ASSUME NEW m \in Msgs, ServerAccepts(m) PROVE TypeOK'
  <2>1. [kind |-> "accepted", msg |-> m] \in Frames
    BY DEF Frames
  <2>2. wire' \in Seq(Frames)
    BY <1>13, <2>1, PushType DEF ServerAccepts, TypeOK
  <2> QED
    BY <1>13, <2>2 DEF ServerAccepts, client, TypeOK
<1>14. ASSUME NEW m \in Msgs, NEW s \in Reported, ServerReports(m, s) PROVE TypeOK'
  <2>1. [kind |-> "state", msg |-> m, state |-> s] \in Frames
    BY DEF Frames
  <2>2. wire' \in Seq(Frames)
    BY <1>14, <2>1, PushType DEF ServerReports, TypeOK
  <2> QED
    BY <1>14, <2>2 DEF ServerReports, client, TypeOK
<1>15. CASE Drop
  <2>1. drops' \in 0..MaxDrops
    BY <1>15, DropBound DEF Drop, TypeOK
  <2>2. progress' \in [Msgs -> {"unknown", "asked", "queued"} \cup Reported]
    BY <1>15 DEF Drop, TypeOK
  <2> QED
    BY <1>15, <2>1, <2>2, EmptySeq DEF Drop, TypeOK
<1>16. CASE UNCHANGED vars
  BY <1>16 DEF vars, client, TypeOK
<1> QED
  BY <1>3, <1>4, <1>5, <1>6, <1>7, <1>8, <1>9, <1>10, <1>11, <1>12, <1>13, <1>14, <1>15, <1>16,
     NextCases

(* Every reachable state of the client is well typed, whatever messages    *)
(* are sent and however their reports nest.                                *)
THEOREM TypeCorrect == Spec => []TypeOK
  BY TypeInit, TypeStep, PTL DEF Spec

-----------------------------------------------------------------------------
(* What pushing and popping does to the entries of the stack.              *)

LEMMA OnStackPush ==
  ASSUME TypeOK, NEW x \in Entries, stack' = Append(stack, x)
  PROVE  /\ Len(stack) \in Nat /\ Len(stack') = Len(stack) + 1
         /\ \A p \in 1..Len(stack) : stack'[p] = stack[p]
         /\ stack'[Len(stack) + 1] = x
         /\ \A e : OnStack(e)' <=> OnStack(e) \/ e = x
<1>1. /\ Len(stack) \in Nat /\ Len(stack') = Len(stack) + 1
      /\ \A p \in 1..Len(stack) : stack'[p] = stack[p]
      /\ stack'[Len(stack) + 1] = x
  BY PushType DEF TypeOK
<1> QED
  BY <1>1 DEF OnStack

LEMMA OnStackPop ==
  ASSUME TypeOK, NEW x \in Entries, TopIs(x), stack' = Below
  PROVE  /\ Len(stack) \in Nat \ {0} /\ Len(stack') = Len(stack) - 1
         /\ stack[Len(stack)] = x
         /\ \A p \in 1..Len(stack') : stack'[p] = stack[p]
         /\ \A e : OnStack(e)' => OnStack(e)
         /\ \A e : OnStack(e) /\ e # x => OnStack(e)'
<1>1. stack # <<>> /\ stack[Len(stack)] = x
  BY TopEntry
<1>2. /\ Len(stack) \in Nat \ {0} /\ Len(stack') = Len(stack) - 1
      /\ \A p \in 1..Len(stack') : stack'[p] = stack[p]
  BY <1>1, PopType DEF TypeOK, Below
<1> QED
  BY <1>1, <1>2 DEF OnStack

(* A completion callback takes the place of the listeners. *)
LEMMA OnStackReplace ==
  ASSUME TypeOK, NEW x \in Entries, NEW y \in Entries, TopIs(x),
         stack' = Append(Below, y)
  PROVE  /\ Len(stack) \in Nat \ {0} /\ Len(stack') = Len(stack)
         /\ stack[Len(stack)] = x /\ stack'[Len(stack)] = y
         /\ \A p \in 1..(Len(stack) - 1) : stack'[p] = stack[p]
         /\ \A e : OnStack(e)' => OnStack(e) \/ e = y
         /\ \A e : OnStack(e) /\ e # x => OnStack(e)'
         /\ OnStack(y)'
<1>1. stack # <<>> /\ stack[Len(stack)] = x
  BY TopEntry
<1>2. /\ Below \in Seq(Entries)
      /\ Len(stack) \in Nat \ {0} /\ Len(Below) = Len(stack) - 1
      /\ \A p \in 1..(Len(stack) - 1) : Below[p] = stack[p]
  BY <1>1, PopType DEF TypeOK, Below
<1> HIDE DEF Below
<1>3. /\ Len(stack') = Len(Below) + 1
      /\ \A p \in 1..Len(Below) : stack'[p] = Below[p]
      /\ stack'[Len(Below) + 1] = y
  BY <1>2, PushType
<1>4. /\ Len(stack') = Len(stack) /\ stack'[Len(stack)] = y
      /\ \A p \in 1..(Len(stack) - 1) : stack'[p] = stack[p]
  BY <1>2, <1>3
<1> QED
  BY <1>1, <1>2, <1>4 DEF OnStack

(* What a message is busy with stays on the stack under pushes, and under  *)
(* the return of anything else.                                            *)
LEMMA BusyPush ==
  ASSUME TypeOK, NEW x \in Entries, stack' = Append(stack, x)
  PROVE  \A n \in Msgs : BeingDispatched(n) => BeingDispatched(n)'
  BY OnStackPush DEF BeingDispatched

LEMMA BusyPop ==
  ASSUME TypeOK, NEW x \in Entries, TopIs(x), stack' = Below,
         NEW n \in Msgs, x # <<"completed", n>>,
         \A s \in Reported : x # <<"dispatch", n, s>>
  PROVE  BeingDispatched(n) => BeingDispatched(n)'
  BY OnStackPop DEF BeingDispatched

-----------------------------------------------------------------------------
(* The inductive invariant, part by part.                                  *)

(* A terminal report that has been dispatched completes an open handle     *)
(* that shows it. *)
LEMMA DispatchedTop ==
  ASSUME TypeOK, DispatchInv, NEW m \in Msgs, NEW s \in Terminal,
         TopIs(<<"dispatch", m, s>>)
  PROVE  state[m] = s /\ m \notin completed
<1>1. <<"dispatch", m, s>> \in Entries
  BY EntryKinds DEF Reported
<1>2. stack # <<>> /\ stack[Len(stack)] = <<"dispatch", m, s>>
  BY <1>1, TopEntry
<1>3. Len(stack) \in 1..Len(stack)
  BY <1>2, PopType DEF TypeOK
<1> QED
  BY <1>2, <1>3 DEF DispatchInv

(* The frame that HandleState takes. *)
LEMMA HandledReport ==
  ASSUME TypeOK, WireInv, HandleState
  PROVE  LET m == Head(wire).msg
             s == Head(wire).state
         IN  /\ m \in Msgs /\ s \in Reported
             /\ progress[m] \in Reported /\ state[m] \notin Terminal
             /\ s \in Terminal => /\ progress[m] \in Terminal
                                  /\ \A j \in 1..Len(wire) : IsReport(j) /\ wire[j].msg = m => j = 1
<1>1. /\ wire # <<>> /\ Head(wire) \in Frames /\ Head(wire) = wire[1]
      /\ Len(wire) \in Nat \ {0} /\ Head(wire).kind = "state"
  BY TakeType DEF HandleState, TypeOK
<1>2. Head(wire).msg \in Msgs /\ Head(wire).state \in Reported
  BY <1>1 DEF Frames
<1>3. 1 \in 1..Len(wire) /\ IsReport(1)
  BY <1>1 DEF IsReport
<1> QED
  BY <1>1, <1>2, <1>3 DEF WireInv

LEMMA MadeStep ==
  ASSUME TypeOK, HandleMade, DispatchInv, [Next]_vars
  PROVE  HandleMade'
<1>1. ASSUME NEW m \in Msgs, SendMessage(m) PROVE HandleMade'
  BY <1>1 DEF SendMessage, HandleMade, TypeOK
<1>2. ASSUME NEW m \in Msgs, SendRaises(m) PROVE HandleMade'
  BY <1>2 DEF SendRaises, HandleMade, TypeOK
<1>3. ASSUME NEW m \in Msgs, SendReturns(m) PROVE HandleMade'
  BY <1>3 DEF SendReturns, HandleMade, TypeOK
<1>4. ASSUME NEW m \in Msgs, OnCompleted(m) \/ Wait(m) \/ WaitEnds(m) PROVE HandleMade'
  BY <1>4 DEF OnCompleted, Wait, WaitEnds, HandleMade
<1>5. ASSUME NEW m \in Msgs, CompletedReturns(m) PROVE HandleMade'
  BY <1>5 DEF CompletedReturns, Unregister, HandleMade
<1>6. ASSUME NEW m \in Msgs, ServerAccepts(m) PROVE HandleMade'
  BY <1>6 DEF ServerAccepts, client, HandleMade
<1>7. ASSUME NEW m \in Msgs, NEW s \in Reported, ListenersDone(m, s) PROVE HandleMade'
  <2>1. s \in Terminal => state[m] = s
    BY <1>7, DispatchedTop DEF ListenersDone
  <2>2. s \in Terminal => sending[m] = "returned"
    BY <2>1 DEF HandleMade, Terminal
  <2>3. /\ completed' \subseteq completed \cup {m} /\ registered' \subseteq registered
        /\ m \in completed' => m \in completed \/ s \in Terminal
        /\ UNCHANGED <<state, sending, callback>>
    BY <1>7, ListenersDoneCases DEF ListenersDone
  <2> QED
    BY <2>2, <2>3 DEF HandleMade
<1>8. ASSUME NEW m \in Msgs, NEW s \in Reported, ServerReports(m, s) PROVE HandleMade'
  BY <1>8 DEF ServerReports, client, HandleMade
<1>9. CASE HandleAccepted
  BY <1>9 DEF HandleAccepted, HandleMade, TypeOK
<1>10. CASE HandleState
  <2>1. Head(wire).msg \in Msgs /\ Head(wire).state \in Reported
    BY <1>10, TakeType DEF HandleState, TypeOK, Frames
  <2>2. "none" \notin Reported
    BY DEF Reported, Terminal
  <2> QED
    BY <1>10, <2>1, <2>2 DEF HandleState, HandleMade, TypeOK
<1>11. CASE Drop
  BY <1>11 DEF Drop, HandleMade
<1>12. CASE UNCHANGED vars
  BY <1>12 DEF vars, client, HandleMade
<1> QED
  BY <1>1, <1>2, <1>3, <1>4, <1>5, <1>6, <1>7, <1>8, <1>9, <1>10, <1>11, <1>12, NextCases

LEMMA AheadStep ==
  ASSUME TypeOK, HandleMade, ServerAhead, WireInv, [Next]_vars
  PROVE  ServerAhead'
<1>1. ASSUME NEW m \in Msgs, SendMessage(m) PROVE ServerAhead'
  <2>1. state[m] = "none"
    BY <1>1 DEF SendMessage, HandleMade
  <2> QED
    BY <1>1, <2>1 DEF SendMessage, ServerAhead, TypeOK, Terminal
<1>2. ASSUME NEW m \in Msgs, SendRaises(m) \/ SendReturns(m) PROVE ServerAhead'
  BY <1>2 DEF SendRaises, SendReturns, ServerAhead, TypeOK, Terminal
<1>3. ASSUME NEW m \in Msgs, OnCompleted(m) \/ Wait(m) \/ WaitEnds(m) \/ CompletedReturns(m)
      PROVE ServerAhead'
  BY <1>3 DEF OnCompleted, Wait, WaitEnds, CompletedReturns, ServerAhead
<1>4. ASSUME NEW m \in Msgs, ServerAccepts(m) PROVE ServerAhead'
  BY <1>4 DEF ServerAccepts, client, ServerAhead, TypeOK, Terminal
<1>5. ASSUME NEW m \in Msgs, NEW s \in Reported, ListenersDone(m, s) PROVE ServerAhead'
  BY <1>5 DEF ListenersDone, ServerAhead
<1>6. ASSUME NEW m \in Msgs, NEW s \in Reported, ServerReports(m, s) PROVE ServerAhead'
  BY <1>6 DEF ServerReports, client, ServerAhead, TypeOK, Terminal
<1>7. CASE HandleAccepted
  BY <1>7 DEF HandleAccepted, ServerAhead, TypeOK
<1>8. CASE HandleState
  <2>1. PICK m \in Msgs, s \in Reported :
          /\ s \in Terminal => progress[m] \in Terminal
          /\ state' = [state EXCEPT ![m] = s] \/ state' = state
    BY <1>8, HandledReport DEF HandleState
  <2> QED
    BY <1>8, <2>1 DEF HandleState, ServerAhead, TypeOK
<1>9. CASE Drop
  BY <1>9 DEF Drop, ServerAhead, TypeOK, Terminal
<1>10. CASE UNCHANGED vars
  BY <1>10 DEF vars, client, ServerAhead
<1> QED
  BY <1>1, <1>2, <1>3, <1>4, <1>5, <1>6, <1>7, <1>8, <1>9, <1>10, NextCases

(* Taking the head of the wire moves the other reports forward.            *)
LEMMA WireTake ==
  ASSUME TypeOK, WireInv, wire # <<>>, wire' = Tail(wire), progress' = progress,
         \A n \in Msgs : state'[n] \in Terminal =>
            \/ state[n] \in Terminal
            \/ \A j \in 1..Len(wire) : IsReport(j) /\ wire[j].msg = n => j = 1
  PROVE  WireInv'
<1>1. /\ Len(wire) \in Nat \ {0} /\ Len(wire') = Len(wire) - 1
      /\ \A k \in 1..Len(wire') : k + 1 \in 1..Len(wire) /\ wire'[k] = wire[k + 1]
  BY TakeType DEF TypeOK
<1>2. \A k \in 1..Len(wire') : IsReport(k)' <=> IsReport(k + 1)
  BY <1>1 DEF IsReport
<1>3. \A k \in 1..Len(wire) : wire[k] \in Frames
  BY ElementOfSeq DEF TypeOK
<1>4. \A k \in 1..Len(wire) : wire[k].msg \in Msgs
  BY <1>3 DEF Frames
<1> SUFFICES ASSUME NEW k \in 1..Len(wire'), IsReport(k)'
             PROVE  /\ progress[wire[k + 1].msg] \in Reported
                    /\ state'[wire[k + 1].msg] \notin Terminal
                    /\ wire[k + 1].state \in Terminal =>
                         /\ progress[wire[k + 1].msg] \in Terminal
                         /\ \A j \in 1..Len(wire') :
                              IsReport(j)' /\ wire'[j].msg = wire[k + 1].msg => j <= k
  BY <1>1 DEF WireInv
<1>5. k + 1 \in 1..Len(wire) /\ IsReport(k + 1) /\ k + 1 # 1
  BY <1>1, <1>2
<1>6. /\ progress[wire[k + 1].msg] \in Reported
      /\ state[wire[k + 1].msg] \notin Terminal
      /\ wire[k + 1].state \in Terminal =>
           /\ progress[wire[k + 1].msg] \in Terminal
           /\ \A j \in 1..Len(wire) : IsReport(j) /\ wire[j].msg = wire[k + 1].msg => j <= k + 1
  BY <1>5 DEF WireInv
<1>7. state'[wire[k + 1].msg] \notin Terminal
  BY <1>4, <1>5, <1>6
<1>8. ASSUME wire[k + 1].state \in Terminal, NEW j \in 1..Len(wire'),
             IsReport(j)', wire'[j].msg = wire[k + 1].msg
      PROVE  j <= k
  <2>1. j + 1 \in 1..Len(wire) /\ IsReport(j + 1) /\ wire[j + 1].msg = wire[k + 1].msg
    BY <1>1, <1>2, <1>8
  <2>2. j + 1 <= k + 1
    BY <1>6, <1>8, <2>1
  <2> QED
    BY <2>2, <1>1
<1> QED
  BY <1>6, <1>7, <1>8

(* A new frame goes to the end of the wire. *)
LEMMA WirePut ==
  ASSUME TypeOK, WireInv, NEW f \in Frames, wire' = Append(wire, f), state' = state,
         \A n \in Msgs : progress[n] \in Reported => progress'[n] \in Reported,
         \A n \in Msgs : progress[n] \in Terminal => progress'[n] \in Terminal,
         f.kind = "state" =>
            /\ progress'[f.msg] \in Reported /\ state[f.msg] \notin Terminal
            /\ f.state \in Terminal => progress'[f.msg] \in Terminal
            /\ progress[f.msg] \notin Terminal
  PROVE  WireInv'
<1>1. /\ Len(wire) \in Nat /\ Len(wire') = Len(wire) + 1
      /\ \A k \in 1..Len(wire) : wire'[k] = wire[k]
      /\ wire'[Len(wire) + 1] = f
  BY PushType DEF TypeOK
<1>2. /\ \A k \in 1..Len(wire) : IsReport(k)' <=> IsReport(k)
      /\ \A k \in 1..Len(wire') : k = Len(wire) + 1 => (IsReport(k)' <=> f.kind = "state")
  BY <1>1 DEF IsReport
<1>3. \A k \in 1..Len(wire) : wire[k].msg \in Msgs
  BY ElementOfSeq DEF TypeOK, Frames
<1> SUFFICES ASSUME NEW k \in 1..Len(wire'), IsReport(k)'
             PROVE  /\ progress'[wire'[k].msg] \in Reported
                    /\ state[wire'[k].msg] \notin Terminal
                    /\ wire'[k].state \in Terminal =>
                         /\ progress'[wire'[k].msg] \in Terminal
                         /\ \A j \in 1..Len(wire') :
                              IsReport(j)' /\ wire'[j].msg = wire'[k].msg => j <= k
  BY DEF WireInv
<1>4. CASE k = Len(wire) + 1
  BY <1>1, <1>2, <1>4
<1>5. CASE k \in 1..Len(wire)
  <2>1. wire'[k] = wire[k] /\ IsReport(k) /\ wire[k].msg \in Msgs
    BY <1>1, <1>2, <1>3, <1>5
  <2>2. /\ progress[wire[k].msg] \in Reported /\ state[wire[k].msg] \notin Terminal
        /\ wire[k].state \in Terminal =>
             /\ progress[wire[k].msg] \in Terminal
             /\ \A j \in 1..Len(wire) : IsReport(j) /\ wire[j].msg = wire[k].msg => j <= k
    BY <1>5, <2>1 DEF WireInv
  <2>3. ASSUME wire[k].state \in Terminal, NEW j \in 1..Len(wire'),
               IsReport(j)', wire'[j].msg = wire[k].msg
        PROVE  j <= k
    <3>1. j # Len(wire) + 1
      BY <1>1, <1>2, <2>2, <2>3
    <3>2. j \in 1..Len(wire) /\ IsReport(j) /\ wire[j].msg = wire[k].msg
      BY <1>1, <1>2, <2>3, <3>1
    <3> QED
      BY <2>2, <2>3, <3>2
  <2> QED
    BY <2>1, <2>2, <2>3
<1> QED
  BY <1>1, <1>4, <1>5

(* Steps that leave the wire alone. *)
LEMMA WireKept ==
  ASSUME TypeOK, WireInv, wire' = wire,
         \A n \in Msgs : progress[n] \in Reported => progress'[n] = progress[n],
         \A n \in Msgs : state'[n] \in Terminal => state[n] \in Terminal
  PROVE  WireInv'
<1>1. \A k \in 1..Len(wire) : wire[k].msg \in Msgs
  BY ElementOfSeq DEF TypeOK, Frames
<1>2. \A k \in 1..Len(wire) : progress[wire[k].msg] \in Reported =>
         progress'[wire[k].msg] = progress[wire[k].msg]
  BY <1>1
<1>3. \A k \in 1..Len(wire) : state'[wire[k].msg] \in Terminal => state[wire[k].msg] \in Terminal
  BY <1>1
<1>4. \A k : IsReport(k)' <=> IsReport(k)
  BY DEF IsReport
<1> QED
  BY <1>2, <1>3, <1>4 DEF WireInv

LEMMA WireStep ==
  ASSUME TypeOK, HandleMade, ServerAhead, WireInv, [Next]_vars
  PROVE  WireInv'
<1>1. ASSUME NEW m \in Msgs, SendMessage(m) PROVE WireInv'
  <2>1. progress[m] = "unknown"
    BY <1>1 DEF SendMessage, ServerAhead
  <2>2. \A n \in Msgs : progress[n] \in Reported => progress'[n] = progress[n]
    BY <1>1, <2>1 DEF SendMessage, TypeOK, Reported, Terminal
  <2> QED
    BY <1>1, <2>2, WireKept DEF SendMessage
<1>2. ASSUME NEW m \in Msgs, SendRaises(m) PROVE WireInv'
  BY <1>2, WireKept DEF SendRaises
<1>3. ASSUME NEW m \in Msgs, SendReturns(m) PROVE WireInv'
  <2>1. \A n \in Msgs : state'[n] \in Terminal => state[n] \in Terminal
    BY <1>3 DEF SendReturns, TypeOK, Terminal
  <2> QED
    BY <1>3, <2>1, WireKept DEF SendReturns
<1>4. ASSUME NEW m \in Msgs, OnCompleted(m) \/ Wait(m) \/ WaitEnds(m) \/ CompletedReturns(m)
      PROVE WireInv'
  BY <1>4, WireKept DEF OnCompleted, Wait, WaitEnds, CompletedReturns
<1>5. ASSUME NEW m \in Msgs, ServerAccepts(m) PROVE WireInv'
  <2> DEFINE f == [kind |-> "accepted", msg |-> m]
  <2>1. f \in Frames /\ f.kind # "state"
    BY DEF Frames
  <2>2. /\ wire' = Append(wire, f) /\ state' = state
        /\ \A n \in Msgs : progress[n] \in Reported => progress'[n] = progress[n]
    BY <1>5 DEF ServerAccepts, client, TypeOK, Reported, Terminal
  <2> HIDE DEF f
  <2> QED
    BY <2>1, <2>2, WirePut DEF Reported
<1>6. ASSUME NEW m \in Msgs, NEW s \in Reported, ListenersDone(m, s) PROVE WireInv'
  BY <1>6, WireKept DEF ListenersDone
<1>7. ASSUME NEW m \in Msgs, NEW s \in Reported, ServerReports(m, s) PROVE WireInv'
  <2> DEFINE f == [kind |-> "state", msg |-> m, state |-> s]
  <2>1. f \in Frames /\ f.msg = m /\ f.state = s
    BY DEF Frames
  <2>2. /\ wire' = Append(wire, f) /\ state' = state
        /\ \A n \in Msgs : progress'[n] = IF n = m THEN s ELSE progress[n]
        /\ progress[m] \notin Terminal
    BY <1>7 DEF ServerReports, client, TypeOK, Terminal
  <2>3. state[m] \notin Terminal
    BY <2>2 DEF ServerAhead
  <2> HIDE DEF f
  <2> QED
    BY <2>1, <2>2, <2>3, WirePut
<1>8. CASE HandleAccepted
  BY <1>8, WireTake DEF HandleAccepted
<1>9. CASE HandleState
  <2> DEFINE m == Head(wire).msg
             s == Head(wire).state
  <2>1. /\ m \in Msgs /\ s \in Reported
        /\ s \in Terminal => \A j \in 1..Len(wire) : IsReport(j) /\ wire[j].msg = m => j = 1
    BY <1>9, HandledReport
  <2>2. state' = [state EXCEPT ![m] = s] \/ state' = state
    BY <1>9 DEF HandleState
  <2>3. /\ wire # <<>> /\ wire' = Tail(wire) /\ progress' = progress
    BY <1>9 DEF HandleState
  <2> HIDE DEF m, s
  <2>4. \A n \in Msgs : state'[n] \in Terminal =>
            \/ state[n] \in Terminal
            \/ \A j \in 1..Len(wire) : IsReport(j) /\ wire[j].msg = n => j = 1
    BY <2>1, <2>2 DEF TypeOK
  <2> QED
    BY <2>3, <2>4, WireTake
<1>10. CASE Drop
  BY <1>10, EmptySeq DEF Drop, WireInv
<1>11. CASE UNCHANGED vars
  BY <1>11, WireKept DEF vars, client
<1> QED
  BY <1>1, <1>2, <1>3, <1>4, <1>5, <1>6, <1>7, <1>8, <1>9, <1>10, <1>11, NextCases

(* DispatchInv in terms of the next state's entries. *)
LEMMA DispatchNext ==
  ASSUME \A m \in Msgs, s \in Terminal :
           \A p \in 1..Len(stack') : stack'[p] = <<"dispatch", m, s>> =>
              /\ state'[m] = s /\ m \notin completed'
              /\ \A q \in 1..Len(stack') : stack'[q] = stack'[p] => q = p,
         \A m \in Msgs, s \in Terminal :
           state'[m] = s /\ m \notin completed' =>
              \E p \in 1..Len(stack') : stack'[p] = <<"dispatch", m, s>>
  PROVE  DispatchInv'
  BY DEF DispatchInv, OnStack

(* Steps that push or pop something other than the dispatch of a report,   *)
(* and make no handle terminal.                                            *)
LEMMA DispatchKept ==
  ASSUME TypeOK, DispatchInv, completed' = completed,
         \A n \in Msgs : state'[n] \in Terminal \/ state[n] \in Terminal => state'[n] = state[n],
         \/ stack' = stack
         \/ \E x \in Entries : /\ \A n : \A s : x # <<"dispatch", n, s>>
                               /\ \/ stack' = Append(stack, x)
                                  \/ TopIs(x) /\ stack' = Below
  PROVE  DispatchInv'
<1> DEFINE Same(e) == /\ OnStack(e) => \E p \in 1..Len(stack') : stack'[p] = e
                      /\ \A p \in 1..Len(stack') : stack'[p] = e =>
                           p \in 1..Len(stack) /\ stack'[p] = stack[p]
<1>1. \A n : \A s : Same(<<"dispatch", n, s>>)
  <2>1. CASE stack' = stack
    BY <2>1 DEF OnStack
  <2>2. ASSUME NEW x \in Entries, \A n : \A s : x # <<"dispatch", n, s>>,
               stack' = Append(stack, x)
        PROVE \A n : \A s : Same(<<"dispatch", n, s>>)
    <3>1. /\ Len(stack) \in Nat /\ Len(stack') = Len(stack) + 1
          /\ \A p \in 1..Len(stack) : stack'[p] = stack[p]
          /\ stack'[Len(stack) + 1] = x
      BY <2>2, OnStackPush
    <3>2. \A p \in 1..Len(stack') : p \in 1..Len(stack) \/ stack'[p] = x
      BY <3>1
    <3>3. 1..Len(stack) \subseteq 1..Len(stack')
      BY <3>1
    <3> QED
      BY <2>2, <3>1, <3>2, <3>3 DEF OnStack
  <2>3. ASSUME NEW x \in Entries, \A n : \A s : x # <<"dispatch", n, s>>,
               TopIs(x), stack' = Below
        PROVE \A n : \A s : Same(<<"dispatch", n, s>>)
    <3>1. /\ Len(stack) \in Nat \ {0} /\ Len(stack') = Len(stack) - 1
          /\ stack[Len(stack)] = x
          /\ \A p \in 1..Len(stack') : stack'[p] = stack[p]
      BY <2>3, OnStackPop
    <3>2. \A p \in 1..Len(stack) : p \in 1..Len(stack') \/ stack[p] = x
      BY <3>1
    <3>3. 1..Len(stack') \subseteq 1..Len(stack)
      BY <3>1
    <3> QED
      BY <2>3, <3>1, <3>2, <3>3 DEF OnStack
  <2> QED
    BY <2>1, <2>2, <2>3
<1> HIDE DEF Same
<1>2. ASSUME NEW m \in Msgs, NEW s \in Terminal, NEW p \in 1..Len(stack'),
             stack'[p] = <<"dispatch", m, s>>
      PROVE  /\ state'[m] = s /\ m \notin completed'
             /\ \A q \in 1..Len(stack') : stack'[q] = stack'[p] => q = p
  <2>1. \A q \in 1..Len(stack') : stack'[q] = <<"dispatch", m, s>> =>
           q \in 1..Len(stack) /\ stack'[q] = stack[q]
    BY <1>1 DEF Same
  <2>2. p \in 1..Len(stack) /\ stack[p] = <<"dispatch", m, s>>
    BY <1>2, <2>1
  <2>3. /\ state[m] = s /\ m \notin completed
        /\ \A q \in 1..Len(stack) : stack[q] = stack[p] => q = p
    BY <2>2 DEF DispatchInv
  <2> QED
    BY <1>2, <2>1, <2>2, <2>3
<1>3. ASSUME NEW m \in Msgs, NEW s \in Terminal, state'[m] = s, m \notin completed'
      PROVE  \E p \in 1..Len(stack') : stack'[p] = <<"dispatch", m, s>>
  <2>1. OnStack(<<"dispatch", m, s>>)
    BY <1>3 DEF DispatchInv
  <2> QED
    BY <1>1, <2>1 DEF Same
<1> QED
  BY <1>2, <1>3, DispatchNext

LEMMA DispatchStep ==
  ASSUME TypeOK, HandleMade, ServerAhead, WireInv, DispatchInv, HandleConsistent, [Next]_vars
  PROVE  DispatchInv'
<1>1. ASSUME NEW m \in Msgs, SendMessage(m) \/ Wait(m) PROVE DispatchInv'
  <2>1. PICK x \in Entries : x \in {<<"send", m>>, <<"wait", m>>} /\ stack' = Append(stack, x)
    BY <1>1, EntryKinds DEF SendMessage, Wait
  <2>2. \A n : \A s : x # <<"dispatch", n, s>>
    BY <2>1, EntryShapes
  <2>3. state' = state /\ completed' = completed
    BY <1>1 DEF SendMessage, Wait
  <2> QED
    BY <2>1, <2>2, <2>3, DispatchKept
<1>2. ASSUME NEW m \in Msgs, SendRaises(m) \/ WaitEnds(m) \/ CompletedReturns(m) PROVE DispatchInv'
  <2>1. PICK x \in Entries : /\ x \in {<<"send", m>>, <<"wait", m>>, <<"completed", m>>}
                             /\ TopIs(x) /\ stack' = Below
    BY <1>2, EntryKinds DEF SendRaises, WaitEnds, CompletedReturns
  <2>2. \A n : \A s : x # <<"dispatch", n, s>>
    BY <2>1, EntryShapes
  <2>3. state' = state /\ completed' = completed
    BY <1>2 DEF SendRaises, WaitEnds, CompletedReturns
  <2> QED
    BY <2>1, <2>2, <2>3, DispatchKept
<1>3. ASSUME NEW m \in Msgs, SendReturns(m) PROVE DispatchInv'
  <2>1. /\ <<"send", m>> \in Entries /\ TopIs(<<"send", m>>) /\ stack' = Below
        /\ \A n : \A s : <<"send", m>> # <<"dispatch", n, s>>
    BY <1>3, EntryKinds, EntryShapes DEF SendReturns
  <2>2. state[m] = "none" /\ completed' = completed
    BY <1>3 DEF SendReturns, HandleMade
  <2>3. \A n \in Msgs : state'[n] = IF n = m THEN "queued" ELSE state[n]
    BY <1>3 DEF SendReturns, TypeOK
  <2>4. \A n \in Msgs : state'[n] \in Terminal \/ state[n] \in Terminal => state'[n] = state[n]
    BY <2>2, <2>3 DEF Terminal
  <2> QED
    BY <2>1, <2>2, <2>4, DispatchKept
<1>4. ASSUME NEW m \in Msgs, OnCompleted(m) PROVE DispatchInv'
  <2>1. /\ <<"completed", m>> \in Entries /\ \A n : \A s : <<"completed", m>> # <<"dispatch", n, s>>
        /\ stack' = Append(stack, <<"completed", m>>) \/ stack' = stack
    BY <1>4, EntryKinds, EntryShapes DEF OnCompleted
  <2>2. state' = state /\ completed' = completed
    BY <1>4 DEF OnCompleted
  <2> QED
    BY <2>1, <2>2, DispatchKept
<1>5. ASSUME NEW m \in Msgs, ServerAccepts(m) \/ \E s \in Reported : ServerReports(m, s)
      PROVE DispatchInv'
  BY <1>5, DispatchKept DEF ServerAccepts, ServerReports, client
<1>6. CASE HandleAccepted \/ Drop \/ UNCHANGED vars
  BY <1>6, DispatchKept DEF HandleAccepted, Drop, vars, client
<1>7. CASE HandleState
  <2> DEFINE m == Head(wire).msg
             r == Head(wire).state
             x == <<"dispatch", m, r>>
  <2>1. m \in Msgs /\ r \in Reported /\ state[m] \notin Terminal /\ completed' = completed
    BY <1>7, HandledReport DEF HandleState
  <2>2. \/ stack' = stack /\ state' = state
        \/ stack' = Append(stack, x) /\ state' = [state EXCEPT ![m] = r]
    BY <1>7 DEF HandleState
  <2> HIDE DEF m, r
  <2>3. CASE stack' = stack /\ state' = state
    BY <2>1, <2>3, DispatchKept
  <2>4. CASE stack' = Append(stack, x) /\ state' = [state EXCEPT ![m] = r]
    <3>1. m \notin completed
      BY <2>1 DEF HandleConsistent, TypeOK
    <3>2. \A p \in 1..Len(stack) : \A t \in Terminal : stack[p] # <<"dispatch", m, t>>
      BY <2>1 DEF DispatchInv
    <3>3. x \in Entries
      BY <2>1, EntryKinds
    <3>4. /\ Len(stack) \in Nat /\ Len(stack') = Len(stack) + 1
          /\ \A p \in 1..Len(stack) : stack'[p] = stack[p]
          /\ stack'[Len(stack) + 1] = x
      BY <2>4, <3>3, OnStackPush
    <3>5. \A n \in Msgs : state'[n] = IF n = m THEN r ELSE state[n]
      BY <2>1, <2>4 DEF TypeOK
    <3>6. ASSUME NEW n \in Msgs, NEW s \in Terminal, NEW p \in 1..Len(stack'),
                 stack'[p] = <<"dispatch", n, s>>
          PROVE  /\ state'[n] = s /\ n \notin completed'
                 /\ \A q \in 1..Len(stack') : stack'[q] = stack'[p] => q = p
      <4>1. CASE n = m
        <5>1. \A q \in 1..Len(stack) : stack'[q] # <<"dispatch", n, s>>
          BY <3>2, <3>4, <4>1
        <5>2. p = Len(stack) + 1
          BY <3>4, <3>6, <5>1
        <5>3. s = r
          BY <3>4, <3>6, <5>2, EntryParts
        <5> QED
          BY <2>1, <3>1, <3>4, <3>5, <3>6, <4>1, <5>1, <5>2, <5>3
      <4>2. CASE n # m
        <5>1. stack'[Len(stack) + 1] # <<"dispatch", n, s>>
          BY <3>4, <4>2, EntryParts
        <5>2. \A q \in 1..Len(stack') : stack'[q] = <<"dispatch", n, s>> => q \in 1..Len(stack)
          BY <3>4, <5>1
        <5>3. p \in 1..Len(stack) /\ stack[p] = <<"dispatch", n, s>>
          BY <3>4, <3>6, <5>2
        <5>4. /\ state[n] = s /\ n \notin completed
              /\ \A q \in 1..Len(stack) : stack[q] = stack[p] => q = p
          BY <5>3 DEF DispatchInv
        <5> QED
          BY <2>1, <3>4, <3>5, <3>6, <4>2, <5>2, <5>3, <5>4
      <4> QED
        BY <4>1, <4>2
    <3>7. ASSUME NEW n \in Msgs, NEW s \in Terminal, state'[n] = s, n \notin completed'
          PROVE  \E p \in 1..Len(stack') : stack'[p] = <<"dispatch", n, s>>
      <4>1. CASE n = m
        <5>1. s = r /\ Len(stack) + 1 \in 1..Len(stack')
          BY <3>4, <3>5, <3>7, <4>1
        <5> QED
          BY <3>4, <4>1, <5>1
      <4>2. CASE n # m
        <5>1. PICK p \in 1..Len(stack) : stack[p] = <<"dispatch", n, s>>
          BY <2>1, <3>5, <3>7, <4>2 DEF DispatchInv, OnStack
        <5>2. p \in 1..Len(stack')
          BY <3>4
        <5> QED
          BY <3>4, <5>1, <5>2
      <4> QED
        BY <4>1, <4>2
    <3> QED
      BY <3>6, <3>7, DispatchNext
  <2> QED
    BY <2>2, <2>3, <2>4
<1>8. ASSUME NEW m \in Msgs, NEW r \in Reported, ListenersDone(m, r) PROVE DispatchInv'
  <2> DEFINE x == <<"dispatch", m, r>>
  <2>1. /\ x \in Entries /\ TopIs(x) /\ <<"completed", m>> \in Entries
        /\ state' = state
    BY <1>8, EntryKinds DEF ListenersDone
  <2>2. /\ completed' = IF r \in Terminal THEN completed \cup {m} ELSE completed
        /\ stack' = Below \/ stack' = Append(Below, <<"completed", m>>)
    BY <1>8, ListenersDoneCases
  <2>3. Len(stack) \in Nat \ {0} /\ stack[Len(stack)] = x
    BY <2>1, TopEntry, PopType DEF TypeOK
  <2>4. /\ Len(stack') \in Nat /\ Len(stack) - 1 <= Len(stack') /\ Len(stack') <= Len(stack)
        /\ \A p \in 1..(Len(stack) - 1) : stack'[p] = stack[p]
        /\ Len(stack') = Len(stack) => stack'[Len(stack)] = <<"completed", m>>
    <3>1. CASE stack' = Below
      BY <2>1, <3>1, OnStackPop
    <3>2. CASE stack' = Append(Below, <<"completed", m>>)
      BY <2>1, <3>2, OnStackReplace
    <3> QED
      BY <2>2, <3>1, <3>2
  <2>5. \A n : \A s : \A p \in 1..Len(stack') : stack'[p] = <<"dispatch", n, s>> =>
           p \in 1..(Len(stack) - 1) /\ stack[p] = <<"dispatch", n, s>>
    BY <2>3, <2>4, EntryShapes
  <2>6. ASSUME NEW n \in Msgs, NEW s \in Terminal, NEW p \in 1..Len(stack'),
               stack'[p] = <<"dispatch", n, s>>
        PROVE  /\ state'[n] = s /\ n \notin completed'
               /\ \A q \in 1..Len(stack') : stack'[q] = stack'[p] => q = p
    <3>1. p \in 1..(Len(stack) - 1) /\ stack[p] = <<"dispatch", n, s>>
      BY <2>5, <2>6
    <3>2. p \in 1..Len(stack) /\ p # Len(stack) /\ Len(stack) \in 1..Len(stack)
      BY <2>3, <3>1
    <3>3. /\ state[n] = s /\ n \notin completed
          /\ \A q \in 1..Len(stack) : stack[q] = stack[p] => q = p
      BY <3>1, <3>2 DEF DispatchInv
    <3>4. \A q \in 1..Len(stack') : stack'[q] = stack'[p] => q \in 1..Len(stack) /\ stack[q] = stack[p]
      BY <2>3, <2>5, <2>6, <3>1
    <3>5. ~(n = m /\ r \in Terminal)
      <4> SUFFICES ASSUME n = m, r \in Terminal PROVE FALSE
        OBVIOUS
      <4>1. state[m] = r
        BY <2>1, DispatchedTop
      <4>2. stack[Len(stack)] = stack[p]
        BY <2>3, <3>1, <3>3, <4>1
      <4> QED
        BY <3>2, <3>3, <4>2
    <3> QED
      BY <2>1, <2>2, <3>3, <3>4, <3>5
  <2>7. ASSUME NEW n \in Msgs, NEW s \in Terminal, state'[n] = s, n \notin completed'
        PROVE  \E p \in 1..Len(stack') : stack'[p] = <<"dispatch", n, s>>
    <3>1. PICK p \in 1..Len(stack) : stack[p] = <<"dispatch", n, s>>
      BY <2>1, <2>2, <2>7 DEF DispatchInv, OnStack
    <3>2. p # Len(stack)
      <4> SUFFICES ASSUME p = Len(stack) PROVE FALSE
        OBVIOUS
      <4>1. n = m /\ s = r
        BY <2>3, <3>1, EntryParts
      <4> QED
        BY <2>2, <2>7, <4>1
    <3>3. p \in 1..(Len(stack) - 1) /\ p \in 1..Len(stack')
      BY <2>3, <2>4, <3>2
    <3> QED
      BY <2>4, <3>1, <3>3
  <2> QED
    BY <2>6, <2>7, DispatchNext
<1> QED
  BY <1>1, <1>2, <1>3, <1>4, <1>5, <1>6, <1>7, <1>8, NextCases

(* The steps that leave what a handle shows alone. *)
LEMMA HandleSteps ==
  ASSUME [Next]_vars
  PROVE  \/ UNCHANGED <<state, completed, result, sending, callback, fired>>
         \/ \E m \in Msgs : \/ SendMessage(m) \/ SendRaises(m) \/ SendReturns(m) \/ OnCompleted(m)
                            \/ \E s \in Reported : ListenersDone(m, s)
         \/ HandleAccepted \/ HandleState
  BY NextCases DEF Wait, WaitEnds, CompletedReturns, ServerAccepts, ServerReports, Drop, vars,
     client

LEMMA ConsistentStep ==
  ASSUME TypeOK, HandleMade, WireInv, DispatchInv, DispatchInv', HandleConsistent, [Next]_vars
  PROVE  HandleConsistent'
<1> DEFINE Agree(n) == /\ n \in completed <=> result[n] # "none"
                       /\ n \in completed => state[n] = result[n]
<1>1. \A n \in Msgs : Agree(n)
  BY DEF HandleConsistent
<1>2. ASSUME state' = state, completed' = completed, result' = result
      PROVE \A n \in Msgs : Agree(n)'
  BY <1>1, <1>2
<1>3. ASSUME \/ \E m \in Msgs : SendMessage(m) \/ SendRaises(m) \/ OnCompleted(m)
             \/ HandleAccepted
      PROVE \A n \in Msgs : Agree(n)'
  BY <1>2, <1>3 DEF SendMessage, SendRaises, OnCompleted, HandleAccepted
<1>4. ASSUME NEW m \in Msgs, SendReturns(m) PROVE \A n \in Msgs : Agree(n)'
  <2>1. m \notin completed /\ completed' = completed /\ result' = result
    BY <1>4 DEF SendReturns, HandleMade
  <2>2. \A n \in Msgs : n # m => state'[n] = state[n]
    BY <1>4 DEF SendReturns, TypeOK
  <2> QED
    BY <1>1, <2>1, <2>2
<1>5. ASSUME HandleState PROVE \A n \in Msgs : Agree(n)'
  <2> DEFINE m == Head(wire).msg
  <2>1. m \in Msgs /\ state[m] \notin Terminal
    BY <1>5, HandledReport
  <2>2. /\ completed' = completed /\ result' = result
        /\ \A n \in Msgs : n # m => state'[n] = state[n]
    BY <1>5, <2>1 DEF HandleState, TypeOK
  <2> HIDE DEF m
  <2>3. m \notin completed
    BY <1>1, <2>1 DEF TypeOK
  <2>4. ASSUME NEW n \in Msgs
        PROVE /\ n \in completed' <=> result'[n] # "none"
              /\ n \in completed' => state'[n] = result'[n]
    BY <1>1, <2>2, <2>3
  <2> QED
    BY <2>4
<1>6. ASSUME NEW m \in Msgs, NEW s \in Reported, ListenersDone(m, s) PROVE \A n \in Msgs : Agree(n)'
  <2>1. state' = state
    BY <1>6 DEF ListenersDone
  <2>2. CASE s \in Terminal
    <3>1. completed' = completed \cup {m} /\ result' = [result EXCEPT ![m] = s]
      BY <1>6, <2>2, ListenersDoneCases
    <3>2. state[m] = s
      BY <1>6, <2>2, DispatchedTop DEF ListenersDone
    <3>3. \A n \in Msgs : result'[n] = IF n = m THEN s ELSE result[n]
      BY <3>1 DEF TypeOK
    <3>4. s # "none"
      BY <2>2 DEF Terminal
    <3>5. ASSUME NEW n \in Msgs
          PROVE /\ n \in completed' <=> result'[n] # "none"
                /\ n \in completed' => state'[n] = result'[n]
      BY <1>1, <2>1, <3>1, <3>2, <3>3, <3>4
    <3> QED
      BY <3>5
  <2>3. CASE s \notin Terminal
    <3>1. completed' = completed /\ result' = result
      BY <1>6, <2>3, ListenersDoneCases
    <3> QED
      BY <1>2, <2>1, <3>1
  <2> QED
    BY <2>2, <2>3
<1>7. \A n \in Msgs : Agree(n)'
  <2> HIDE DEF Agree
  <2>1. ASSUME UNCHANGED <<state, completed, result, sending, callback, fired>>
        PROVE \A n \in Msgs : Agree(n)'
    BY <1>2, <2>1
  <2> QED
    BY <1>3, <1>4, <1>5, <1>6, <2>1, HandleSteps
<1>8. \A n \in Msgs : state'[n] \in Terminal => n \in completed' \/ BeingDispatched(n)'
  BY DEF DispatchInv, BeingDispatched, Reported
<1> QED
  BY <1>7, <1>8 DEF HandleConsistent

LEMMA FiredStep ==
  ASSUME TypeOK, HandleMade, DispatchInv, FiredOnce, [Next]_vars
  PROVE  FiredOnce'
<1>1. CASE UNCHANGED <<state, completed, result, sending, callback, fired>>
  BY <1>1 DEF FiredOnce
<1>2. ASSUME \/ \E m \in Msgs : SendMessage(m) \/ SendRaises(m)
             \/ HandleAccepted \/ HandleState
      PROVE FiredOnce'
  BY <1>2 DEF SendMessage, SendRaises, HandleAccepted, HandleState, FiredOnce
<1>3. ASSUME NEW m \in Msgs, SendReturns(m) PROVE FiredOnce'
  <2>1. m \notin completed
    BY <1>3 DEF SendReturns, HandleMade
  <2> QED
    BY <1>3, <2>1 DEF SendReturns, FiredOnce
<1>4. ASSUME NEW m \in Msgs, OnCompleted(m) PROVE FiredOnce'
  <2>1. m \notin callback /\ callback' = callback \cup {m} /\ completed' = completed
    BY <1>4 DEF OnCompleted
  <2>2. fired[m] = 0
    BY <2>1 DEF FiredOnce
  <2>3. CASE m \in completed
    <3>1. fired' = [fired EXCEPT ![m] = @ + 1]
      BY <1>4, <2>3, Zenon DEF OnCompleted
    <3>2. \A n \in Msgs : fired'[n] = IF n = m THEN fired[n] + 1 ELSE fired[n]
      BY <3>1 DEF TypeOK
    <3> QED
      BY <2>1, <2>2, <2>3, <3>2 DEF FiredOnce
  <2>4. CASE m \notin completed
    <3>1. fired' = fired
      BY <1>4, <2>4, Zenon DEF OnCompleted
    <3> QED
      BY <2>1, <2>2, <2>4, <3>1 DEF FiredOnce
  <2> QED
    BY <2>3, <2>4
<1>5. ASSUME NEW m \in Msgs, NEW s \in Reported, ListenersDone(m, s) PROVE FiredOnce'
  <2>1. callback' = callback
    BY <1>5 DEF ListenersDone
  <2>2. CASE s \in Terminal
    <3>1. m \notin completed
      BY <1>5, <2>2, DispatchedTop DEF ListenersDone
    <3>2. completed' = completed \cup {m} /\ fired[m] = 0
      BY <1>5, <2>2, <3>1, ListenersDoneCases DEF FiredOnce
    <3>3. \A n \in Msgs : fired'[n] = IF n = m /\ m \in callback THEN fired[n] + 1 ELSE fired[n]
      <4>1. CASE m \in callback
        <5>1. fired' = [fired EXCEPT ![m] = @ + 1]
          BY <1>5, <2>2, <4>1, Zenon DEF ListenersDone
        <5> QED
          BY <4>1, <5>1 DEF TypeOK
      <4>2. CASE m \notin callback
        <5>1. fired' = fired
          BY <1>5, <2>2, <4>2, Zenon DEF ListenersDone
        <5> QED
          BY <4>2, <5>1
      <4> QED
        BY <4>1, <4>2
    <3> QED
      BY <2>1, <3>1, <3>2, <3>3 DEF FiredOnce
  <2>3. CASE s \notin Terminal
    <3>1. completed' = completed /\ fired' = fired
      BY <1>5, <2>3, ListenersDoneCases
    <3> QED
      BY <2>1, <3>1 DEF FiredOnce
  <2> QED
    BY <2>2, <2>3
<1> QED
  BY <1>1, <1>2, <1>3, <1>4, <1>5, HandleSteps

(* Steps that complete and unregister nothing, and leave no dispatch.      *)
LEMMA TableKept ==
  ASSUME TableHoldsOpenMessages, completed' = completed, registered' = registered,
         \A n \in Msgs : sending'[n] = "returned" => sending[n] = "returned",
         \A n \in Msgs : BeingDispatched(n) => BeingDispatched(n)'
  PROVE  TableHoldsOpenMessages'
  BY DEF TableHoldsOpenMessages

(* Steps that leave the stack of dispatches of the other messages alone    *)
(* and, when the message is done, take it out of the table.                *)
LEMMA TableUnregister ==
  ASSUME TableHoldsOpenMessages, NEW m \in Msgs, sending' = sending,
         completed' \in {completed, completed \cup {m}},
         registered' = IF m \in completed' THEN registered \ {m} ELSE registered,
         \A n \in Msgs \ {m} : BeingDispatched(n) => BeingDispatched(n)'
  PROVE  TableHoldsOpenMessages'
<1> SUFFICES ASSUME NEW n \in Msgs
             PROVE  /\ n \in registered' /\ ~BeingDispatched(n)' => n \notin completed'
                    /\ sending'[n] = "returned" /\ n \notin completed' => n \in registered'
  BY DEF TableHoldsOpenMessages
<1>1. CASE n = m
  BY <1>1 DEF TableHoldsOpenMessages
<1>2. CASE n # m
  BY <1>2 DEF TableHoldsOpenMessages
<1> QED
  BY <1>1, <1>2

LEMMA TableStep ==
  ASSUME TypeOK, HandleMade, TableHoldsOpenMessages, [Next]_vars
  PROVE  TableHoldsOpenMessages'
<1>0. ASSUME stack' = stack PROVE \A n \in Msgs : BeingDispatched(n) => BeingDispatched(n)'
  BY <1>0 DEF BeingDispatched, OnStack
<1>1. ASSUME NEW m \in Msgs, SendMessage(m) \/ Wait(m) PROVE TableHoldsOpenMessages'
  <2>1. PICK x \in Entries : stack' = Append(stack, x)
    BY <1>1, EntryKinds DEF SendMessage, Wait
  <2>2. \A n \in Msgs : sending'[n] = "returned" => sending[n] = "returned"
    BY <1>1 DEF SendMessage, Wait, TypeOK
  <2> QED
    BY <1>1, <2>1, <2>2, BusyPush, TableKept DEF SendMessage, Wait
<1>2. ASSUME NEW m \in Msgs, NEW x \in {<<"send", m>>, <<"wait", m>>}, TopIs(x), stack' = Below
      PROVE \A n \in Msgs : BeingDispatched(n) => BeingDispatched(n)'
  <2>1. x \in Entries
    BY <1>2, EntryKinds
  <2>2. \A n \in Msgs : x # <<"completed", n>> /\ \A s \in Reported : x # <<"dispatch", n, s>>
    BY <1>2, EntryShapes
  <2> QED
    BY <1>2, <2>1, <2>2, BusyPop
<1>3. ASSUME NEW m \in Msgs, SendRaises(m) \/ WaitEnds(m) PROVE TableHoldsOpenMessages'
  <2>1. \A n \in Msgs : BeingDispatched(n) => BeingDispatched(n)'
    BY <1>2, <1>3 DEF SendRaises, WaitEnds
  <2>2. \A n \in Msgs : sending'[n] = "returned" => sending[n] = "returned"
    BY <1>3 DEF SendRaises, WaitEnds, TypeOK
  <2> QED
    BY <1>3, <2>1, <2>2, TableKept DEF SendRaises, WaitEnds
<1>4. ASSUME NEW m \in Msgs, SendReturns(m) PROVE TableHoldsOpenMessages'
  <2>1. \A n \in Msgs : BeingDispatched(n) => BeingDispatched(n)'
    BY <1>2, <1>4 DEF SendReturns
  <2>2. /\ m \notin completed /\ completed' = completed /\ registered' = registered \cup {m}
        /\ \A n \in Msgs : n # m => sending'[n] = sending[n]
    BY <1>4 DEF SendReturns, HandleMade, TypeOK
  <2> QED
    BY <2>1, <2>2 DEF TableHoldsOpenMessages
<1>5. ASSUME NEW m \in Msgs, OnCompleted(m) PROVE TableHoldsOpenMessages'
  <2>1. /\ <<"completed", m>> \in Entries
        /\ stack' = Append(stack, <<"completed", m>>) \/ stack' = stack
        /\ UNCHANGED <<sending, completed, registered>>
    BY <1>5, EntryKinds DEF OnCompleted
  <2>2. \A n \in Msgs : BeingDispatched(n) => BeingDispatched(n)'
    BY <1>0, <2>1, BusyPush
  <2> QED
    BY <2>1, <2>2, TableKept
<1>6. ASSUME NEW m \in Msgs, CompletedReturns(m) PROVE TableHoldsOpenMessages'
  <2>1. /\ <<"completed", m>> \in Entries
        /\ \A n \in Msgs \ {m} : <<"completed", m>> # <<"completed", n>>
        /\ \A n \in Msgs, s \in Reported : <<"completed", m>> # <<"dispatch", n, s>>
    BY EntryKinds, EntryShapes, EntryParts
  <2>2. \A n \in Msgs \ {m} : BeingDispatched(n) => BeingDispatched(n)'
    BY <1>6, <2>1, BusyPop DEF CompletedReturns
  <2> QED
    BY <1>6, <2>2, TableUnregister DEF CompletedReturns, Unregister
<1>7. ASSUME NEW m \in Msgs, NEW r \in Reported, ListenersDone(m, r)
      PROVE TableHoldsOpenMessages'
  <2> DEFINE x == <<"dispatch", m, r>>
             y == <<"completed", m>>
  <2>1. /\ x \in Entries /\ TopIs(x) /\ y \in Entries /\ sending' = sending
        /\ \A n \in Msgs : x # <<"completed", n>>
        /\ \A n \in Msgs \ {m} : \A s \in Reported : x # <<"dispatch", n, s>>
    BY <1>7, EntryKinds, EntryShapes, EntryParts DEF ListenersDone
  <2>2. CASE r \in Terminal /\ m \in callback
    <3>1. /\ stack' = Append(Below, y) /\ registered' = registered
          /\ completed' = completed \cup {m}
      BY <1>7, <2>2, ListenersDoneCases
    <3> HIDE DEF x, y
    <3>2. OnStack(y)' /\ \A e : OnStack(e) /\ e # x => OnStack(e)'
      BY <2>1, <3>1, OnStackReplace
    <3>3. BeingDispatched(m)'
      BY <3>2 DEF BeingDispatched, y
    <3>4. \A n \in Msgs \ {m} : BeingDispatched(n) => BeingDispatched(n)'
      BY <2>1, <3>2 DEF BeingDispatched
    <3> QED
      BY <2>1, <3>1, <3>3, <3>4 DEF TableHoldsOpenMessages
  <2>3. CASE ~(r \in Terminal /\ m \in callback)
    <3>1. /\ stack' = Below
          /\ completed' \in {completed, completed \cup {m}}
          /\ registered' = IF m \in completed' THEN registered \ {m} ELSE registered
      BY <1>7, <2>3, ListenersDoneCases
    <3> HIDE DEF x
    <3>2. \A n \in Msgs \ {m} : BeingDispatched(n) => BeingDispatched(n)'
      BY <2>1, <3>1, BusyPop
    <3> QED
      BY <2>1, <3>1, <3>2, TableUnregister
  <2> QED
    BY <2>2, <2>3
<1>8. CASE HandleState
  <2>1. Head(wire).msg \in Msgs /\ Head(wire).state \in Reported
    BY <1>8, TakeType DEF HandleState, TypeOK, Frames
  <2>2. stack' = stack \/ \E x \in Entries : stack' = Append(stack, x)
    BY <1>8, <2>1, EntryKinds DEF HandleState
  <2>3. \A n \in Msgs : BeingDispatched(n) => BeingDispatched(n)'
    BY <1>0, <2>2, BusyPush
  <2> QED
    BY <1>8, <2>3, TableKept DEF HandleState
<1>9. CASE HandleAccepted
  <2>1. \A n \in Msgs : sending'[n] = "returned" => sending[n] = "returned"
    BY <1>9 DEF HandleAccepted, TypeOK
  <2> QED
    BY <1>0, <1>9, <2>1, TableKept DEF HandleAccepted
<1>10. ASSUME NEW m \in Msgs, ServerAccepts(m) \/ \E s \in Reported : ServerReports(m, s)
       PROVE TableHoldsOpenMessages'
  BY <1>0, <1>10, TableKept DEF ServerAccepts, ServerReports, client
<1>11. CASE Drop \/ UNCHANGED vars
  BY <1>0, <1>11, TableKept DEF Drop, vars, client
<1> QED
  BY <1>1, <1>3, <1>4, <1>5, <1>6, <1>7, <1>8, <1>9, <1>10, <1>11, NextCases

-----------------------------------------------------------------------------
(* The theorems.                                                           *)

LEMMA InvInit == Init => MessageInv
<1> SUFFICES ASSUME Init PROVE MessageInv
  OBVIOUS
<1>1. Len(stack) = 0 /\ Len(wire) = 0
  BY EmptySeq DEF Init
<1>2. HandleMade /\ ServerAhead /\ HandleConsistent /\ FiredOnce /\ TableHoldsOpenMessages
  BY DEF Init, HandleMade, ServerAhead, HandleConsistent, FiredOnce, TableHoldsOpenMessages, Terminal
<1>3. WireInv /\ DispatchInv
  BY <1>1 DEF Init, WireInv, DispatchInv, Terminal
<1> QED
  BY <1>2, <1>3, TypeInit DEF MessageInv

LEMMA InvStep == MessageInv /\ [Next]_vars => MessageInv'
<1> SUFFICES ASSUME MessageInv, [Next]_vars PROVE MessageInv'
  OBVIOUS
<1>1. TypeOK' /\ HandleMade' /\ ServerAhead' /\ WireInv' /\ DispatchInv'
  BY TypeStep, MadeStep, AheadStep, WireStep, DispatchStep DEF MessageInv
<1>2. HandleConsistent' /\ FiredOnce' /\ TableHoldsOpenMessages'
  BY <1>1, ConsistentStep, FiredStep, TableStep DEF MessageInv
<1> QED
  BY <1>1, <1>2 DEF MessageInv

(* The inductive invariant holds: a terminal report of a message is under  *)
(* way, dispatched or done, and never twice.                               *)
THEOREM InvCorrect == Spec => []MessageInv
  BY InvInit, InvStep, PTL DEF Spec

(* Message.pm: state, result and the completed flag of a handle agree at   *)
(* every moment, for any number of messages and any nesting of callbacks.  *)
THEOREM HandlesCorrect == Spec => []HandleConsistent
<1>1. MessageInv => HandleConsistent
  BY DEF MessageInv
<1> QED
  BY <1>1, InvCorrect, PTL

(* Message::on_completed: a callback set at any time is called exactly     *)
(* once when its message completes, never before and never again.          *)
THEOREM CallbacksCorrect == Spec => []FiredOnce
<1>1. MessageInv => FiredOnce
  BY DEF MessageInv
<1> QED
  BY <1>1, InvCorrect, PTL

(* Client::_handle_event: the message table holds the open messages, so it *)
(* neither grows with finished ones nor misses a report of an open one.    *)
THEOREM TableCorrect == Spec => []TableHoldsOpenMessages
<1>1. MessageInv => TableHoldsOpenMessages
  BY DEF MessageInv
<1> QED
  BY <1>1, InvCorrect, PTL

LEMMA NoRegress ==
  ASSUME MessageInv, [Next]_vars
  PROVE  \A m \in Msgs : Rank(state'[m]) >= Rank(state[m])
<1>1. TypeOK /\ HandleMade /\ WireInv
  BY DEF MessageInv
<1>2. \A v \in {"none", "queued"} \cup Reported : Rank(v) \in 0..3
  BY DEF Rank, Reported, Terminal
<1>3. \A n \in Msgs : state[n] \in {"none", "queued"} \cup Reported
  BY <1>1 DEF TypeOK
<1>R. \A n \in Msgs : Rank(state[n]) \in 0..3
  BY <1>2, <1>3
<1>4. ASSUME NEW n \in Msgs, state'[n] = state[n] PROVE Rank(state'[n]) >= Rank(state[n])
  BY <1>R, <1>4
<1>5. ASSUME \/ \E m \in Msgs : \/ SendMessage(m) \/ SendRaises(m) \/ OnCompleted(m)
                              \/ \E s \in Reported : ListenersDone(m, s)
             \/ HandleAccepted
      PROVE  state' = state
  BY <1>5 DEF SendMessage, SendRaises, OnCompleted, ListenersDone, HandleAccepted
<1>6. ASSUME NEW m \in Msgs, SendReturns(m)
      PROVE  \A n \in Msgs : Rank(state'[n]) >= Rank(state[n])
  <2>1. /\ state[m] = "none" /\ state'[m] = "queued"
        /\ \A n \in Msgs : n # m => state'[n] = state[n]
    BY <1>1, <1>6 DEF SendReturns, HandleMade, TypeOK
  <2>2. Rank("queued") >= Rank("none")
    BY DEF Rank
  <2> QED
    BY <1>4, <2>1, <2>2
<1>7. ASSUME HandleState PROVE \A n \in Msgs : Rank(state'[n]) >= Rank(state[n])
  <2> DEFINE m == Head(wire).msg
             s == Head(wire).state
  <2>1. m \in Msgs /\ s \in Reported /\ state[m] \notin Terminal
    BY <1>1, <1>7, HandledReport
  <2>2. state' = [state EXCEPT ![m] = s] \/ state' = state
    BY <1>7 DEF HandleState
  <2> HIDE DEF m, s
  <2>3. \A n \in Msgs : state'[n] = state[n] \/ (n = m /\ state'[n] = s)
    BY <1>1, <2>1, <2>2 DEF TypeOK
  <2>4. Rank(state[m]) <= 2
    BY <1>3, <2>1 DEF Rank, Reported
  <2>5. Rank(s) >= 2 /\ Rank(s) \in 0..3
    BY <1>2, <2>1 DEF Rank, Reported, Terminal
  <2>6. Rank(s) >= Rank(state[m])
    BY <1>R, <2>1, <2>4, <2>5
  <2> QED
    BY <1>4, <2>3, <2>6
<1> QED
  BY <1>4, <1>5, <1>6, <1>7, HandleSteps

(* A state listeners have been shown is never taken back by a report       *)
(* handled later, or dispatched from inside their own dispatch.            *)
THEOREM NeverRegresses == Spec => StateNeverRegresses
<1>1. MessageInv /\ [Next]_vars => [\A m \in Msgs : Rank(state'[m]) >= Rank(state[m])]_vars
  BY NoRegress
<1> QED
  BY <1>1, InvCorrect, PTL DEF Spec, StateNeverRegresses
=============================================================================
