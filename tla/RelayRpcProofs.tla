--------------------------- MODULE RelayRpcProofs ---------------------------
(***************************************************************************)
(* Proofs about RelayRpc for any set of request ids and any bounds.        *)
(***************************************************************************)
EXTENDS RelayRpc, StackLemmas

(* What the queue operations do to the set of entries.                     *)
LEMMA InEmpty == In(<<>>) = {}
  BY EmptySeq DEF In

LEMMA InAppend ==
  ASSUME NEW S, NEW s \in Seq(S), NEW x \in S
  PROVE  In(Append(s, x)) = In(s) \cup {x}
<1>1. /\ Len(Append(s, x)) = Len(s) + 1 /\ Len(s) \in Nat
      /\ \A k \in 1..Len(s) : Append(s, x)[k] = s[k]
      /\ Append(s, x)[Len(s) + 1] = x
  BY AppendProperties, LenProperties
<1> QED
  BY <1>1 DEF In

LEMMA InTail ==
  ASSUME NEW S, NEW s \in Seq(S), s # <<>>
  PROVE  In(Tail(s)) \subseteq In(s) /\ Head(s) \in In(s)
<1>1. /\ Len(Tail(s)) = Len(s) - 1 /\ Len(s) \in Nat /\ Len(s) # 0
      /\ \A k \in 1..Len(Tail(s)) : Tail(s)[k] = s[k + 1]
      /\ Head(s) = s[1]
  BY HeadTailProperties, LenProperties, EmptySeq
<1> QED
  BY <1>1 DEF In

LEMMA InSplit ==
  ASSUME NEW S, NEW s \in Seq(S), NEW t \in Seq(S), NEW n \in 1..Len(s)
  PROVE  /\ In(t \o SubSeq(s, 1, n)) \subseteq In(t) \cup In(s)
         /\ In(SubSeq(s, n + 1, Len(s))) \subseteq In(s)
<1>1. Len(s) \in Nat /\ Len(t) \in Nat /\ n \in Nat /\ \A k \in 1..Len(s) : s[k] \in S
  BY LenProperties, ElementOfSeq
<1> DEFINE a == SubSeq(s, 1, n)
           b == SubSeq(s, n + 1, Len(s))
<1>2. a \in Seq(S) /\ Len(a) = n /\ \A k \in 1..n : a[k] = s[k]
  BY <1>1, SubSeqProperties
<1>3. Len(b) = Len(s) - n /\ \A k \in 1..(Len(s) - n) : b[k] = s[n + k]
  BY <1>1, SubSeqProperties
<1>4. In(b) \subseteq In(s)
  BY <1>1, <1>3 DEF In
<1>5. /\ Len(t \o a) = Len(t) + n
      /\ \A k \in 1..(Len(t) + n) : (t \o a)[k] = IF k <= Len(t) THEN t[k] ELSE a[k - Len(t)]
  BY <1>1, <1>2, ConcatProperties
<1> HIDE DEF a, b
<1>6. In(t \o a) \subseteq In(t) \cup In(s)
  BY <1>1, <1>2, <1>5 DEF In
<1> QED
  BY <1>4, <1>6 DEF a, b

-----------------------------------------------------------------------------
(* Type correctness.                                                       *)

LEMMA TypeInit == Init => TypeOK
<1> SUFFICES ASSUME Init PROVE TypeOK
  OBVIOUS
<1> USE DEF Init
<1>1. wire \in Seq(Frames) /\ frames \in Seq(Frames) /\ stack \in Seq(Ids \cup Marks)
  BY EmptySeq
<1>2. /\ connected \in BOOLEAN /\ link \in {"none", "up", "eof"}
      /\ pending \subseteq Ids /\ resolved \subseteq Ids /\ asked \subseteq Ids
      /\ pushes \in Nat /\ connects \in Nat
  OBVIOUS
<1>3. /\ rejected \in [Ids -> {"none", "server", "dropped"}]
      /\ status \in [Ids -> {"idle", "waiting", "result", "error", "dropped",
                             "timeout", "died"}]
      /\ replied \in [Ids -> {"none", "ok", "err"}]
  OBVIOUS
<1> QED
  BY <1>1, <1>2, <1>3, Zenon DEF TypeOK

LEMMA ConnectWsType ==
  ASSUME TypeOK, ConnectWs
  PROVE  /\ connected' \in BOOLEAN /\ link' \in {"none", "up", "eof"}
         /\ wire' \in Seq(Frames) /\ frames' \in Seq(Frames)
         /\ asked' \subseteq Ids /\ connects' \in Nat
<1>1. CASE connected' = TRUE /\ link' = "up" /\ wire' = <<>> /\ frames' = <<>>
           /\ asked' = {} /\ connects' = connects + 1
  BY <1>1, EmptySeq DEF TypeOK
<1>2. CASE UNCHANGED <<connects, connected, link, wire, frames, asked>>
  BY <1>2 DEF TypeOK
<1> QED
  BY <1>1, <1>2 DEF ConnectWs

LEMMA TypeStep == TypeOK /\ [Next]_vars => TypeOK'
<1> SUFFICES ASSUME TypeOK, [Next]_vars PROVE TypeOK'
  OBVIOUS
<1> USE DEF TypeOK
<1>1. ASSUME NEW i \in Ids, Execute(i) PROVE TypeOK'
  BY <1>1, AppendProperties DEF Execute, Push
<1>2. ASSUME NEW i \in Ids, ExecuteUnencodable(i) PROVE TypeOK'
  BY <1>2 DEF ExecuteUnencodable, remote
<1>3. ASSUME NEW i \in Ids, TopIs(i), Leave(i) PROVE TypeOK'
  BY <1>3, PopType DEF TopIs, Leave, Pop, Outcome, remote
<1>4. CASE BeginWait
  BY <1>4, AppendProperties DEF BeginWait, Push, Marks, remote
<1>5. CASE EndWait
  BY <1>5, PopType DEF EndWait, TopIs, Pop, remote
<1>6. CASE ReadChunk
  <2>1. PICK n \in 1..Len(wire) : /\ frames' = frames \o SubSeq(wire, 1, n)
                                  /\ wire' = SubSeq(wire, n + 1, Len(wire))
    BY <1>6 DEF ReadChunk
  <2>2. frames' \in Seq(Frames) /\ wire' \in Seq(Frames)
    BY <2>1, SplitType
  <2>3. stack' \in Seq(Ids \cup Marks)
    BY <1>6, AppendProperties DEF ReadChunk, Push, Marks
  <2> QED
    BY <1>6, <2>2, <2>3 DEF ReadChunk, remote
<1>7. CASE ReadEof
  BY <1>7 DEF ReadEof, RejectAllPending, remote
<1>8. CASE Handle
  <2>1. frames # <<>> => Tail(frames) \in Seq(Frames)
    BY HeadTailProperties
  <2>2. CASE HandleResponse
    BY <2>1, <2>2 DEF HandleResponse, NextFrame, Responses, remote
  <2>3. CASE HandleEvent
    <3>1. stack' = Append(stack, "callback") \/ stack' = stack
      BY <2>3 DEF HandleEvent, Push
    <3>2. "callback" \in Ids \cup Marks
      BY DEF Marks
    <3>3. Append(stack, "callback") \in Seq(Ids \cup Marks)
      BY <3>2, AppendProperties
    <3>4. stack' \in Seq(Ids \cup Marks)
      BY <3>1, <3>3, Zenon
    <3> QED
      BY <2>1, <2>3, <3>4 DEF HandleEvent, NextFrame, remote
  <2>4. CASE HandlePing
    BY <2>1, <2>4 DEF HandlePing, NextFrame, remote, local
  <2>5. CASE HandleDisconnect
    BY <2>1, <2>5 DEF HandleDisconnect, NextFrame, remote
  <2> QED
    BY <1>8, <2>2, <2>3, <2>4, <2>5 DEF Handle
<1>9. CASE EndLoop
  BY <1>9, PopType DEF EndLoop, TopIs, Pop, remote
<1>10. CASE CallbackReturn
  BY <1>10, PopType DEF CallbackReturn, TopIs, Pop, remote
<1>11. CASE Connect
  BY <1>11, ConnectWsType DEF Connect
<1>12. CASE Reconnect
  BY <1>12, ConnectWsType DEF Reconnect, RejectAllPending
<1>13. CASE DisconnectWs
  BY <1>13, EmptySeq DEF DisconnectWs, RejectAllPending
<1>14. ASSUME NEW i \in Ids, ServerReply(i) PROVE TypeOK'
  <2>1. PICK f \in Responses : wire' = Append(wire, f)
    BY <1>14, Zenon DEF ServerReply, Responses
  <2>2. wire' \in Seq(Frames)
    BY <2>1, AppendProperties DEF Frames
  <2> QED
    BY <1>14, <2>2 DEF ServerReply, local
<1>15. CASE ServerPush
  <2>1. wire' \in Seq(Frames)
    BY <1>15, AppendProperties DEF ServerPush, Frames
  <2> QED
    BY <1>15, <2>1 DEF ServerPush, local
<1>16. CASE ServerClose
  BY <1>16 DEF ServerClose, local
<1>17. CASE UNCHANGED vars
  BY <1>17 DEF vars
<1> QED
  BY <1>1, <1>2, <1>3, <1>4, <1>5, <1>6, <1>7, <1>8, <1>9, <1>10, <1>11,
     <1>12, <1>13, <1>14, <1>15, <1>16, <1>17
     DEF Next, ExecReturn, ExecTimeout

(* Every reachable state of the client is well typed, whatever the         *)
(* requests, callbacks and connections.                                    *)
THEOREM TypeCorrect == Spec => []TypeOK
  BY TypeInit, TypeStep, PTL DEF Spec

-----------------------------------------------------------------------------
(* The call stack.                                                         *)

LEMMA PushFacts ==
  ASSUME TypeOK, NEW x \in Ids \cup Marks, Push(x)
  PROVE  /\ Len(stack) \in Nat /\ Len(stack') = Len(stack) + 1
         /\ \A p \in 1..Len(stack) : stack'[p] = stack[p]
         /\ stack'[Len(stack) + 1] = x
         /\ In(stack') = In(stack) \cup {x}
<1>1. stack \in Seq(Ids \cup Marks) /\ stack' = Append(stack, x)
  BY DEF TypeOK, Push
<1> QED
  BY <1>1, AppendProperties, LenProperties, InAppend

LEMMA PopFacts ==
  ASSUME TypeOK, stack # <<>>, Pop
  PROVE  /\ Len(stack) \in Nat \ {0} /\ Len(stack') = Len(stack) - 1
         /\ \A p \in 1..Len(stack') : stack'[p] = stack[p]
         /\ In(stack) = In(stack') \cup {stack[Len(stack)]}
<1>1. stack \in Seq(Ids \cup Marks) /\ stack' = SubSeq(stack, 1, Len(stack) - 1)
  BY DEF TypeOK, Pop
<1>2. /\ Len(stack) \in Nat \ {0} /\ Len(stack') = Len(stack) - 1
      /\ \A p \in 1..Len(stack') : stack'[p] = stack[p]
  BY <1>1, PopType
<1> QED
  BY <1>2 DEF In

(* Leaving an execute() takes it, and it alone, off the stack. *)
LEMMA PopRequest ==
  ASSUME TypeOK, StackDistinct, NEW i \in Ids, TopIs(i), Pop
  PROVE  /\ i \notin In(stack')
         /\ \A j \in Ids : j # i => (j \in In(stack') <=> j \in In(stack))
         /\ StackDistinct'
<1>1. stack # <<>> /\ stack[Len(stack)] = i
  BY DEF TopIs
<1>2. /\ Len(stack) \in Nat \ {0} /\ Len(stack') = Len(stack) - 1
      /\ \A p \in 1..Len(stack') : stack'[p] = stack[p]
      /\ In(stack) = In(stack') \cup {stack[Len(stack)]}
  BY <1>1, PopFacts
<1>3. i \notin In(stack')
  BY <1>1, <1>2 DEF In, StackDistinct
<1>4. StackDistinct'
  BY <1>2 DEF StackDistinct
<1> QED
  BY <1>1, <1>2, <1>3, <1>4

(* Pushing or popping a mark leaves the requests on the stack alone. *)
LEMMA PushMark ==
  ASSUME TypeOK, StackDistinct, NEW m \in Marks, Push(m)
  PROVE  /\ \A j \in Ids : j \in In(stack') <=> j \in In(stack)
         /\ StackDistinct'
<1>1. /\ Len(stack) \in Nat /\ Len(stack') = Len(stack) + 1
      /\ \A p \in 1..Len(stack) : stack'[p] = stack[p]
      /\ stack'[Len(stack) + 1] = m
      /\ In(stack') = In(stack) \cup {m}
  BY PushFacts
<1>2. m \notin Ids
  BY IdsAreNotMarks
<1> QED
  BY <1>1, <1>2 DEF StackDistinct

LEMMA PopMark ==
  ASSUME TypeOK, StackDistinct, NEW m \in Marks, TopIs(m), Pop
  PROVE  /\ \A j \in Ids : j \in In(stack') <=> j \in In(stack)
         /\ StackDistinct'
<1>1. /\ Len(stack) \in Nat \ {0} /\ Len(stack') = Len(stack) - 1
      /\ \A p \in 1..Len(stack') : stack'[p] = stack[p]
      /\ In(stack) = In(stack') \cup {m}
  BY PopFacts DEF TopIs
<1>2. m \notin Ids
  BY IdsAreNotMarks
<1> QED
  BY <1>1, <1>2 DEF StackDistinct

-----------------------------------------------------------------------------
(* The table of pending requests and the call stack.                       *)

(* Steps of a pump, a callback or a wait that touch no request.            *)
LEMMA StackKept ==
  ASSUME TypeOK, StackInv,
         \/ \E m \in Marks : Push(m)
         \/ \E m \in Marks : TopIs(m) /\ Pop
         \/ UNCHANGED stack,
         UNCHANGED <<status, pending, resolved, rejected, asked, replied>>
  PROVE  StackInv'
<1>1. (\A j \in Ids : j \in In(stack') <=> j \in In(stack)) /\ StackDistinct'
  <2>1. CASE \E m \in Marks : Push(m)
    BY <2>1, PushMark DEF StackInv
  <2>2. CASE \E m \in Marks : TopIs(m) /\ Pop
    BY <2>2, PopMark DEF StackInv
  <2>3. CASE UNCHANGED stack
    BY <2>3 DEF StackInv, StackDistinct, In
  <2> QED
    BY <2>1, <2>2, <2>3
<1>2. PendingMatchesStack'
  BY <1>1 DEF StackInv, PendingMatchesStack, OnStack
<1>3. PendingUnsettled' /\ FreshIds'
  BY DEF StackInv, PendingUnsettled, FreshIds
<1> QED
  BY <1>1, <1>2, <1>3 DEF StackInv

(* Rejecting what is pending settles it without touching the table.        *)
LEMMA RejectKept ==
  ASSUME TypeOK, StackInv, RejectAllPending, pending' \in {pending, {}},
         stack = <<>> \/ pending' = pending,
         UNCHANGED <<stack, status, resolved, replied>>, asked' \subseteq asked
  PROVE  StackInv'
<1>1. \A i \in Ids : rejected'[i] = IF i \in pending THEN "dropped" ELSE rejected[i]
  BY DEF RejectAllPending
<1>2. stack = <<>> => \A i \in Ids : ~OnStack(i)
  BY InEmpty DEF OnStack
<1>3. PendingMatchesStack'
  BY <1>1, <1>2 DEF StackInv, PendingMatchesStack, OnStack, In
<1>4. StackDistinct'
  BY DEF StackInv, StackDistinct
<1>5. PendingUnsettled' /\ FreshIds'
  BY <1>1 DEF TypeOK, StackInv, PendingUnsettled, FreshIds
<1> QED
  BY <1>3, <1>4, <1>5 DEF StackInv

LEMMA StackInit == Init => StackInv
  BY EmptySeq DEF Init, StackInv, PendingMatchesStack, OnStack, In, StackDistinct,
     PendingUnsettled, FreshIds

LEMMA StackStep == TypeOK /\ StackInv /\ [Next]_vars => StackInv'
<1> SUFFICES ASSUME TypeOK, StackInv, [Next]_vars PROVE StackInv'
  OBVIOUS
<1>1. ASSUME NEW i \in Ids, Execute(i) PROVE StackInv'
  <2> USE <1>1 DEF Execute
  <2>1. /\ Len(stack) \in Nat /\ Len(stack') = Len(stack) + 1
        /\ \A p \in 1..Len(stack) : stack'[p] = stack[p]
        /\ stack'[Len(stack) + 1] = i
        /\ In(stack') = In(stack) \cup {i}
    BY PushFacts
  <2>2. ~OnStack(i) /\ i \notin pending \cup resolved /\ rejected[i] = "none"
    BY DEF StackInv, PendingMatchesStack, FreshIds
  <2>3. \A j \in Ids : status'[j] = IF j = i THEN "waiting" ELSE status[j]
    BY DEF TypeOK
  <2>4. PendingMatchesStack'
    BY <2>1, <2>2, <2>3 DEF StackInv, PendingMatchesStack, OnStack
  <2>5. StackDistinct'
    BY <2>1, <2>2 DEF StackInv, StackDistinct, OnStack, In
  <2>6. PendingUnsettled' /\ FreshIds'
    BY <2>2, <2>3 DEF StackInv, PendingUnsettled, FreshIds
  <2> QED
    BY <2>4, <2>5, <2>6 DEF StackInv
<1>2. ASSUME NEW i \in Ids, ExecuteUnencodable(i) PROVE StackInv'
  <2> USE <1>2 DEF ExecuteUnencodable, remote
  <2>1. ~OnStack(i) /\ i \notin resolved /\ rejected[i] = "none"
    BY DEF StackInv, PendingMatchesStack, FreshIds
  <2>2. \A j \in Ids : status'[j] = IF j = i THEN "died" ELSE status[j]
    BY DEF TypeOK
  <2>3. PendingMatchesStack'
    BY <2>1, <2>2 DEF StackInv, PendingMatchesStack, OnStack, In
  <2>4. StackDistinct'
    BY DEF StackInv, StackDistinct
  <2>5. PendingUnsettled' /\ FreshIds'
    BY <2>1, <2>2 DEF StackInv, PendingUnsettled, FreshIds
  <2> QED
    BY <2>3, <2>4, <2>5 DEF StackInv
<1>3. ASSUME NEW i \in Ids, TopIs(i), Leave(i) PROVE StackInv'
  <2> USE <1>3 DEF Leave, remote
  <2>1. /\ i \notin In(stack')
        /\ \A j \in Ids : j # i => (j \in In(stack') <=> j \in In(stack))
        /\ StackDistinct'
    BY PopRequest DEF StackInv
  <2>2. \A j \in Ids : status'[j] = IF j = i THEN Outcome(i) ELSE status[j]
    BY DEF TypeOK
  <2>3. Outcome(i) \notin {"idle", "waiting"}
    BY DEF Outcome
  <2>4. PendingMatchesStack'
    BY <2>1, <2>2, <2>3 DEF StackInv, PendingMatchesStack, OnStack
  <2>5. PendingUnsettled' /\ FreshIds'
    BY <2>2, <2>3 DEF StackInv, PendingUnsettled, FreshIds
  <2> QED
    BY <2>1, <2>4, <2>5 DEF StackInv
<1>4. CASE BeginWait
  BY <1>4, StackKept DEF BeginWait, Marks, remote
<1>5. CASE EndWait
  BY <1>5, StackKept DEF EndWait, Marks, remote
<1>6. CASE ReadChunk
  BY <1>6, StackKept DEF ReadChunk, Marks, remote
<1>7. CASE ReadEof
  BY <1>7, RejectKept DEF ReadEof, remote
<1>8. CASE HandleResponse
  <2> USE DEF remote
  <2>1. PICK f \in Responses :
          /\ NextFrame(f)
          /\ pending' = pending \ {f.id}
          /\ resolved' = IF f.id \in pending /\ f.kind = "result"
                         THEN resolved \cup {f.id} ELSE resolved
          /\ rejected' = IF f.id \in pending /\ f.kind = "error"
                         THEN [rejected EXCEPT ![f.id] = "server"] ELSE rejected
    BY <1>8 DEF HandleResponse
  <2>2. f.id \in Ids /\ f.kind \in {"result", "error"}
    BY DEF Responses
  <2>3. /\ UNCHANGED <<stack, status, asked, replied>>
        /\ \A j \in Ids : j # f.id => (j \in resolved' <=> j \in resolved)
        /\ \A j \in Ids : j # f.id => rejected'[j] = rejected[j]
        /\ f.id \in pending => f.id \in resolved' \/ rejected'[f.id] = "server"
        /\ f.id \notin pending => resolved' = resolved /\ rejected' = rejected
        /\ f.id \in pending => status[f.id] # "idle"
    BY <1>8, <2>1, <2>2 DEF HandleResponse, TypeOK, StackInv, FreshIds
  <2>4. PendingMatchesStack'
    BY <2>1, <2>2, <2>3 DEF StackInv, PendingMatchesStack, OnStack, In, PendingUnsettled
  <2>5. StackDistinct'
    BY <2>3 DEF StackInv, StackDistinct
  <2>6. PendingUnsettled' /\ FreshIds'
    BY <2>1, <2>2, <2>3 DEF TypeOK, StackInv, PendingUnsettled, FreshIds
  <2> QED
    BY <2>4, <2>5, <2>6 DEF StackInv
<1>9. CASE HandleEvent \/ HandlePing \/ HandleDisconnect
  BY <1>9, StackKept DEF HandleEvent, HandlePing, HandleDisconnect, Marks, remote, local
<1>10. CASE EndLoop
  BY <1>10, StackKept DEF EndLoop, Marks, remote
<1>11. CASE CallbackReturn
  BY <1>11, StackKept DEF CallbackReturn, Marks, remote
<1>12. ASSUME ConnectWs PROVE asked' \subseteq asked
  BY <1>12 DEF ConnectWs
<1>13. CASE Connect
  <2>1. PendingMatchesStack' /\ StackDistinct'
    BY <1>13 DEF Connect, StackInv, PendingMatchesStack, StackDistinct, OnStack, In
  <2>2. PendingUnsettled' /\ FreshIds'
    BY <1>12, <1>13 DEF Connect, StackInv, PendingUnsettled, FreshIds
  <2> QED
    BY <2>1, <2>2 DEF StackInv
<1>14. CASE Reconnect
  BY <1>12, <1>14, RejectKept DEF Reconnect
<1>15. CASE DisconnectWs
  BY <1>15, RejectKept DEF DisconnectWs
<1>16. ASSUME NEW i \in Ids, ServerReply(i) PROVE StackInv'
  <2> USE <1>16 DEF ServerReply, local
  <2>1. /\ status[i] # "idle"
        /\ \A j \in Ids : j # i => replied'[j] = replied[j]
    BY DEF TypeOK, StackInv, FreshIds
  <2>2. PendingMatchesStack' /\ StackDistinct' /\ PendingUnsettled'
    BY DEF StackInv, PendingMatchesStack, StackDistinct, PendingUnsettled, OnStack, In
  <2>3. FreshIds'
    BY <2>1 DEF StackInv, FreshIds
  <2> QED
    BY <2>2, <2>3 DEF StackInv
<1>17. CASE ServerPush
  BY <1>17, StackKept DEF ServerPush, local
<1>18. CASE ServerClose
  <2>1. PendingMatchesStack' /\ StackDistinct'
    BY <1>18 DEF ServerClose, local, StackInv, PendingMatchesStack, StackDistinct, OnStack, In
  <2>2. PendingUnsettled' /\ FreshIds'
    BY <1>18 DEF ServerClose, local, StackInv, PendingUnsettled, FreshIds
  <2> QED
    BY <2>1, <2>2 DEF StackInv
<1>19. CASE UNCHANGED vars
  BY <1>19, StackKept DEF vars
<1> QED
  BY <1>1, <1>2, <1>3, <1>4, <1>5, <1>6, <1>7, <1>8, <1>9, <1>10, <1>11, <1>13,
     <1>14, <1>15, <1>16, <1>17, <1>18, <1>19
     DEF Next, ExecReturn, ExecTimeout, Handle

-----------------------------------------------------------------------------
(* Answers.                                                                *)

Flying == In(wire) \cup In(frames)

(* Steps that answer nothing and settle nothing.                           *)
LEMMA ReplyKept ==
  ASSUME ReplyInv, StackInv, UNCHANGED <<status, resolved, replied>>,
         UNCHANGED rejected \/ RejectAllPending,
         \A f \in Responses : f \in Flying' => f \in Flying,
         asked' \subseteq asked
  PROVE  ReplyInv'
<1>1. \A i \in Ids : rejected'[i] = "server" => rejected[i] = "server"
  BY DEF RejectAllPending
<1> QED
  BY <1>1 DEF ReplyInv, OutcomeMatchesReply, ClosuresMatchReply, FramesMatchReply,
     Flying

LEMMA ReplyInit == Init => ReplyInv
  BY InEmpty DEF Init, ReplyInv, OutcomeMatchesReply, ClosuresMatchReply, FramesMatchReply

LEMMA ReplyStep == TypeOK /\ StackInv /\ ReplyInv /\ [Next]_vars => ReplyInv'
<1> SUFFICES ASSUME TypeOK, StackInv, ReplyInv, [Next]_vars PROVE ReplyInv'
  OBVIOUS
<1>1. ASSUME NEW i \in Ids, Execute(i) PROVE ReplyInv'
  <2>1. replied[i] = "none" /\ asked' \subseteq asked \cup {i}
    BY <1>1 DEF Execute, StackInv, FreshIds
  <2>2. \A j \in Ids : status'[j] = IF j = i THEN "waiting" ELSE status[j]
    BY <1>1 DEF Execute, TypeOK
  <2> QED
    BY <1>1, <2>1, <2>2 DEF Execute, ReplyInv, OutcomeMatchesReply, ClosuresMatchReply,
       FramesMatchReply
<1>2. ASSUME NEW i \in Ids, ExecuteUnencodable(i) PROVE ReplyInv'
  <2>1. \A j \in Ids : status'[j] = IF j = i THEN "died" ELSE status[j]
    BY <1>2 DEF ExecuteUnencodable, TypeOK
  <2> QED
    BY <1>2, <2>1 DEF ExecuteUnencodable, remote, ReplyInv, OutcomeMatchesReply,
       ClosuresMatchReply, FramesMatchReply
<1>3. ASSUME NEW i \in Ids, TopIs(i), Leave(i) PROVE ReplyInv'
  <2>1. \A j \in Ids : status'[j] = IF j = i THEN Outcome(i) ELSE status[j]
    BY <1>3 DEF Leave, TypeOK
  <2>2. /\ Outcome(i) = "result" => replied[i] = "ok"
        /\ Outcome(i) = "error" => replied[i] = "err"
    BY DEF Outcome, ReplyInv, ClosuresMatchReply
  <2> QED
    BY <1>3, <2>1, <2>2 DEF Leave, remote, ReplyInv, OutcomeMatchesReply,
       ClosuresMatchReply, FramesMatchReply
<1>4. CASE BeginWait \/ EndWait \/ EndLoop \/ CallbackReturn \/ UNCHANGED vars
  BY <1>4, ReplyKept DEF BeginWait, EndWait, EndLoop, CallbackReturn, vars, remote, Flying
<1>5. CASE ReadChunk
  <2>1. PICK n \in 1..Len(wire) : /\ frames' = frames \o SubSeq(wire, 1, n)
                                  /\ wire' = SubSeq(wire, n + 1, Len(wire))
    BY <1>5 DEF ReadChunk
  <2>2. Flying' \subseteq Flying
    BY <2>1, InSplit DEF Flying, TypeOK
  <2> QED
    BY <1>5, <2>2, ReplyKept DEF ReadChunk, remote
<1>6. CASE ReadEof
  BY <1>6, ReplyKept DEF ReadEof, remote, Flying
<1>7. ASSUME NEW f, NextFrame(f), wire' = wire
      PROVE  f \in In(frames) /\ Flying' \subseteq Flying
  <2>1. In(Tail(frames)) \subseteq In(frames) /\ Head(frames) \in In(frames)
    BY <1>7, InTail DEF NextFrame, TypeOK
  <2> QED
    BY <1>7, <2>1 DEF NextFrame, Flying
<1>8. CASE HandleResponse
  <2>1. PICK f \in Responses :
          /\ NextFrame(f)
          /\ resolved' = IF f.id \in pending /\ f.kind = "result"
                         THEN resolved \cup {f.id} ELSE resolved
          /\ rejected' = IF f.id \in pending /\ f.kind = "error"
                         THEN [rejected EXCEPT ![f.id] = "server"] ELSE rejected
    BY <1>8 DEF HandleResponse
  <2>2. UNCHANGED <<wire, status, asked, replied>>
    BY <1>8 DEF HandleResponse, remote
  <2>3. f \in In(frames) /\ Flying' \subseteq Flying
    BY <1>7, <2>1, <2>2
  <2>4. replied[f.id] = IF f.kind = "result" THEN "ok" ELSE "err"
    BY <2>3 DEF ReplyInv, FramesMatchReply
  <2>5. f.id \in Ids /\ f.kind \in {"result", "error"}
    BY DEF Responses
  <2>6. ClosuresMatchReply'
    <3>1. \A i \in Ids : i \in resolved' => replied[i] = "ok"
      BY <2>1, <2>4, <2>5 DEF ReplyInv, ClosuresMatchReply
    <3>2. \A i \in Ids : rejected'[i] = "server" => replied[i] = "err"
      BY <2>1, <2>4, <2>5 DEF TypeOK, ReplyInv, ClosuresMatchReply
    <3> QED
      BY <2>2, <3>1, <3>2 DEF ClosuresMatchReply
  <2> QED
    BY <2>2, <2>3, <2>6 DEF ReplyInv, OutcomeMatchesReply, FramesMatchReply, Flying
<1>9. CASE HandleEvent \/ HandlePing \/ HandleDisconnect
  <2>1. /\ \E f : NextFrame(f)
        /\ UNCHANGED <<wire, status, resolved, rejected, asked, replied>>
    BY <1>9 DEF HandleEvent, HandlePing, HandleDisconnect, remote, local
  <2> QED
    BY <1>7, <2>1, ReplyKept
<1>10. CASE Connect \/ Reconnect
  <2>1. Flying' \subseteq Flying /\ asked' \subseteq asked
    BY <1>10, InEmpty DEF Connect, Reconnect, ConnectWs, Flying
  <2> QED
    BY <1>10, <2>1, ReplyKept DEF Connect, Reconnect
<1>11. CASE DisconnectWs
  BY <1>11, InEmpty, ReplyKept DEF DisconnectWs, Flying
<1>12. ASSUME NEW i \in Ids, ServerReply(i) PROVE ReplyInv'
  <2>1. PICK f \in Responses :
          /\ f.id = i
          /\ wire' = Append(wire, f)
          /\ replied' = [replied EXCEPT ![i] = IF f.kind = "result" THEN "ok" ELSE "err"]
    <3>1. CASE /\ wire' = Append(wire, [kind |-> "result", id |-> i])
               /\ replied' = [replied EXCEPT ![i] = "ok"]
      <4> DEFINE r == [kind |-> "result", id |-> i]
      <4>1. r \in Responses /\ r.id = i
        BY DEF Responses
      <4>2. /\ wire' = Append(wire, r)
            /\ replied' = [replied EXCEPT ![i] = IF r.kind = "result" THEN "ok" ELSE "err"]
        BY <3>1
      <4> HIDE DEF r
      <4> QED
        BY <4>1, <4>2
    <3>2. CASE /\ wire' = Append(wire, [kind |-> "error", id |-> i])
               /\ replied' = [replied EXCEPT ![i] = "err"]
      <4> DEFINE r == [kind |-> "error", id |-> i]
      <4>1. r \in Responses /\ r.id = i
        BY DEF Responses
      <4>2. /\ wire' = Append(wire, r)
            /\ replied' = [replied EXCEPT ![i] = IF r.kind = "result" THEN "ok" ELSE "err"]
        BY <3>2
      <4> HIDE DEF r
      <4> QED
        BY <4>1, <4>2
    <3> QED
      BY <1>12, <3>1, <3>2 DEF ServerReply
  <2>2. /\ replied[i] = "none" /\ asked' = asked \ {i}
        /\ UNCHANGED <<frames, status, resolved, rejected>>
    BY <1>12 DEF ServerReply, ReplyInv, local
  <2>3. /\ \A j \in Ids : j # i => replied'[j] = replied[j]
        /\ replied'[i] = IF f.kind = "result" THEN "ok" ELSE "err"
    BY <2>1 DEF TypeOK
  <2>4. In(wire') = In(wire) \cup {f}
    BY <2>1, InAppend DEF TypeOK, Frames
  <2>5. \A g \in Responses : g.id \in Ids
    BY DEF Responses
  <2>6. FramesMatchReply'
    BY <2>1, <2>2, <2>3, <2>4, <2>5 DEF ReplyInv, FramesMatchReply
  <2>7. OutcomeMatchesReply' /\ ClosuresMatchReply'
    BY <2>2, <2>3 DEF ReplyInv, OutcomeMatchesReply, ClosuresMatchReply
  <2>8. \A j \in asked' : replied'[j] = "none"
    BY <2>2, <2>3 DEF TypeOK, ReplyInv
  <2> QED
    BY <2>6, <2>7, <2>8 DEF ReplyInv
<1>13. CASE ServerPush
  <2>1. PICK f \in Requests : wire' = Append(wire, f)
    BY <1>13 DEF ServerPush
  <2>2. In(wire') = In(wire) \cup {f}
    BY <2>1, InAppend DEF TypeOK, Frames
  <2>3. f \notin Responses
    BY DEF Requests, Responses
  <2> QED
    BY <1>13, <2>2, <2>3, ReplyKept DEF ServerPush, local, Flying
<1>14. CASE ServerClose
  BY <1>14, ReplyKept DEF ServerClose, local, Flying
<1> QED
  BY <1>1, <1>2, <1>3, <1>4, <1>5, <1>6, <1>8, <1>9, <1>10, <1>11, <1>12, <1>13,
     <1>14
     DEF Next, ExecReturn, ExecTimeout, Handle

-----------------------------------------------------------------------------
(* The frame buffer.                                                       *)

(* Whatever is pushed, the loops below stay where they are.                *)
LEMMA BufferPush ==
  ASSUME TypeOK, BufferInv, NEW x \in Ids \cup Marks, Push(x),
         x \in Ids => ~Unread(x)',
         \/ In(frames') \subseteq In(frames) /\ (frames = <<>> => frames' = <<>>)
         \/ x = "loop"
  PROVE  BufferInv'
<1>1. /\ Len(stack) \in Nat /\ Len(stack') = Len(stack) + 1
      /\ \A p \in 1..Len(stack) : stack'[p] = stack[p]
      /\ stack'[Len(stack) + 1] = x
      /\ In(stack') = In(stack) \cup {x}
  BY PushFacts
<1>2. "loop" \notin Ids
  BY IdsAreNotMarks DEF Marks
<1>3. CASE x = "loop"
  BY <1>1, <1>2, <1>3 DEF BufferInv, NothingStranded, UnreadBelowLoop, OnStack
<1>4. CASE In(frames') \subseteq In(frames) /\ (frames = <<>> => frames' = <<>>)
  <2>1. \A j : Unread(j)' => Unread(j)
    BY <1>4 DEF Unread
  <2>2. NothingStranded'
    BY <1>1, <1>4 DEF BufferInv, NothingStranded, OnStack
  <2>3. UnreadBelowLoop'
    BY <1>1, <2>1 DEF BufferInv, UnreadBelowLoop
  <2> QED
    BY <2>2, <2>3 DEF BufferInv
<1> QED
  BY <1>3, <1>4

(* A loop is popped only when the buffer is empty.                         *)
LEMMA BufferPop ==
  ASSUME TypeOK, BufferInv, NEW x, TopIs(x), Pop, UNCHANGED frames,
         x = "loop" => frames = <<>>
  PROVE  BufferInv'
<1>1. /\ Len(stack) \in Nat \ {0} /\ Len(stack') = Len(stack) - 1
      /\ \A p \in 1..Len(stack') : stack'[p] = stack[p]
      /\ In(stack) = In(stack') \cup {x}
      /\ stack[Len(stack)] = x
  BY PopFacts DEF TopIs
<1>2. \A j : /\ Unread(j)' <=> Unread(j)
             /\ frames = <<>> => ~Unread(j)
  BY InEmpty DEF Unread
<1>3. NothingStranded'
  BY <1>1 DEF BufferInv, NothingStranded, OnStack
<1>4. UnreadBelowLoop'
  BY <1>1, <1>2 DEF BufferInv, UnreadBelowLoop
<1> QED
  BY <1>3, <1>4 DEF BufferInv

LEMMA BufferKept ==
  ASSUME BufferInv, UNCHANGED stack,
         In(frames') \subseteq In(frames), frames = <<>> => frames' = <<>>
  PROVE  BufferInv'
<1>1. \A j : Unread(j)' => Unread(j)
  BY DEF Unread
<1> QED
  BY <1>1 DEF BufferInv, NothingStranded, UnreadBelowLoop, OnStack

LEMMA BufferInit == Init => BufferInv
  BY EmptySeq DEF Init, BufferInv, NothingStranded, UnreadBelowLoop

LEMMA BufferStep == TypeOK /\ StackInv /\ ReplyInv /\ BufferInv /\ [Next]_vars => BufferInv'
<1> SUFFICES ASSUME TypeOK, StackInv, ReplyInv, BufferInv, [Next]_vars PROVE BufferInv'
  OBVIOUS
<1>1. ASSUME NEW i \in Ids, Execute(i) PROVE BufferInv'
  <2>1. replied[i] = "none" /\ UNCHANGED frames /\ Push(i)
    BY <1>1 DEF Execute, StackInv, FreshIds
  <2>2. ~Unread(i)'
    BY <2>1 DEF Unread, ReplyInv, FramesMatchReply
  <2>3. i \in Ids \cup Marks
    OBVIOUS
  <2> QED
    BY <2>1, <2>2, <2>3, BufferPush
<1>2. ASSUME NEW i \in Ids, ExecuteUnencodable(i) PROVE BufferInv'
  BY <1>2, BufferKept DEF ExecuteUnencodable
<1>3. ASSUME NEW i \in Ids, TopIs(i), Leave(i) PROVE BufferInv'
  <2>1. i # "loop"
    BY IdsAreNotMarks DEF Marks
  <2> QED
    BY <1>3, <2>1, BufferPop DEF Leave
<1>4. "wait" \in Marks /\ "callback" \in Marks /\ "loop" \in Marks /\ Ids \cap Marks = {}
  BY IdsAreNotMarks DEF Marks
<1>5. CASE BeginWait
  BY <1>4, <1>5, BufferPush DEF BeginWait
<1>6. CASE EndWait \/ EndLoop \/ CallbackReturn
  BY <1>6, BufferPop DEF EndWait, EndLoop, CallbackReturn
<1>7. CASE ReadChunk
  BY <1>4, <1>7, BufferPush DEF ReadChunk
<1>8. CASE ReadEof
  BY <1>8, BufferKept DEF ReadEof
<1>9. CASE Handle
  <2>1. (\E f : NextFrame(f)) /\ frames # <<>> /\ (UNCHANGED stack \/ Push("callback"))
    BY <1>9 DEF Handle, HandleResponse, HandleEvent, HandlePing, HandleDisconnect,
       NextFrame, local
  <2>2. In(frames') \subseteq In(frames)
    BY <2>1, InTail DEF NextFrame, TypeOK
  <2> QED
    BY <1>4, <2>1, <2>2, BufferKept, BufferPush
<1>10. CASE Connect \/ Reconnect
  <2>1. UNCHANGED stack /\ (frames' = frames \/ frames' = <<>>)
    BY <1>10 DEF Connect, Reconnect, ConnectWs
  <2> QED
    BY <2>1, InEmpty, BufferKept
<1>11. CASE DisconnectWs \/ ServerPush \/ ServerClose \/ UNCHANGED vars
  BY <1>11, BufferKept DEF DisconnectWs, ServerPush, ServerClose, local, vars
<1>12. ASSUME NEW i \in Ids, ServerReply(i) PROVE BufferInv'
  BY <1>12, BufferKept DEF ServerReply, local
<1> QED
  BY <1>1, <1>2, <1>3, <1>5, <1>6, <1>7, <1>8, <1>9, <1>10, <1>11, <1>12
     DEF Next, ExecReturn, ExecTimeout

-----------------------------------------------------------------------------
(* The theorems.                                                           *)

(* The inductive invariant holds in every reachable state.                 *)
THEOREM InvCorrect == Spec => []RpcInv
<1>1. Init => RpcInv
  BY TypeInit, StackInit, ReplyInit, BufferInit DEF RpcInv
<1>2. RpcInv /\ [Next]_vars => RpcInv'
  BY TypeStep, StackStep, ReplyStep, BufferStep DEF RpcInv
<1> QED
  BY <1>1, <1>2, PTL DEF Spec

(* The pending table and the call stack always agree. *)
THEOREM PendingCorrect == Spec => []PendingMatchesStack
<1>1. RpcInv => PendingMatchesStack
  BY DEF RpcInv, StackInv
<1> QED
  BY <1>1, InvCorrect, PTL

(* No request is ever reported with an outcome the server did not give it. *)
THEOREM OutcomeCorrect == Spec => []OutcomeMatchesReply
<1>1. RpcInv => OutcomeMatchesReply
  BY DEF RpcInv, ReplyInv
<1> QED
  BY <1>1, InvCorrect, PTL

(* A request times out only while its answer has not been read.            *)
THEOREM UnreadCorrect == Spec => []NoUnreadReply
<1>1. RpcInv => NoUnreadReply
  <2> SUFFICES ASSUME RpcInv, NEW i \in Ids, TopIs(i), Unread(i) PROVE FALSE
    BY DEF NoUnreadReply
  <2>1. Len(stack) \in Nat \ {0} /\ stack[Len(stack)] = i
    BY PopType DEF TopIs, RpcInv, TypeOK
  <2> QED
    BY <2>1 DEF RpcInv, BufferInv, UnreadBelowLoop
<1> QED
  BY <1>1, InvCorrect, PTL

(* Frames in the buffer always have a frame loop on the stack.             *)
THEOREM StrandedCorrect == Spec => []NothingStranded
<1>1. RpcInv => NothingStranded
  BY DEF RpcInv, BufferInv
<1> QED
  BY <1>1, InvCorrect, PTL

-----------------------------------------------------------------------------
(* Refinement.                                                             *)

(* A step of the client is a step of the contract or does not concern it.  *)
LEMMA RefineStep == RpcInv /\ [Next]_vars => [Contract!Next]_(Contract!vars)
<1> SUFFICES ASSUME RpcInv, [Next]_vars PROVE [Contract!Next]_(Contract!vars)
  OBVIOUS
<1> USE DEF Contract!Next, Contract!vars, RpcInv, TypeOK
<1>1. ASSUME NEW i \in Ids, Execute(i) PROVE Contract!Next
  BY <1>1 DEF Execute, Contract!Issue
<1>2. ASSUME NEW i \in Ids, ExecuteUnencodable(i) PROVE Contract!Next
  BY <1>2 DEF ExecuteUnencodable, remote, Contract!Refuse
<1>3. ASSUME NEW i \in Ids, TopIs(i), Leave(i) PROVE Contract!Next
  <2>1. status[i] = "waiting"
    BY <1>3, PopType DEF TopIs, StackInv, PendingMatchesStack, OnStack, In
  <2>2. /\ status' = [status EXCEPT ![i] = Outcome(i)]
        /\ UNCHANGED replied
    BY <1>3 DEF Leave, remote
  <2>3. \/ Outcome(i) \in Contract!Failures
        \/ Outcome(i) = "result" /\ replied[i] = "ok"
        \/ Outcome(i) = "error"  /\ replied[i] = "err"
    BY DEF Outcome, ReplyInv, ClosuresMatchReply, Contract!Failures
  <2>4. Contract!Finish(i, Outcome(i))
    BY <2>1, <2>2, <2>3 DEF Contract!Finish
  <2>5. Outcome(i) \in Contract!Failures \cup {"result", "error"}
    BY <2>3
  <2> QED
    BY <2>4, <2>5 DEF Contract!FinishSomehow
<1>4. ASSUME NEW i \in Ids, ServerReply(i) PROVE Contract!Next
  <2>1. status[i] # "idle" /\ replied[i] = "none" /\ UNCHANGED status
    BY <1>4 DEF ServerReply, local, StackInv, FreshIds, ReplyInv
  <2>2. PICK r \in {"ok", "err"} : replied' = [replied EXCEPT ![i] = r]
    BY <1>4 DEF ServerReply
  <2> QED
    BY <2>1, <2>2 DEF Contract!Reply
<1>5. CASE \/ BeginWait \/ EndWait \/ ReadChunk \/ ReadEof \/ Handle \/ EndLoop
           \/ CallbackReturn \/ Connect \/ Reconnect \/ DisconnectWs
           \/ ServerPush \/ ServerClose \/ UNCHANGED vars
  BY <1>5 DEF BeginWait, EndWait, ReadChunk, ReadEof, Handle, HandleResponse,
     HandleEvent, HandlePing, HandleDisconnect, EndLoop, CallbackReturn, Connect,
     Reconnect, DisconnectWs, ServerPush, ServerClose, vars, remote, local
<1> QED
  BY <1>1, <1>2, <1>3, <1>4, <1>5 DEF Next, ExecReturn, ExecTimeout

(* The client implements the safety part of the contract of execute(): an  *)
(* outcome is final, and it is the server's whenever it claims to be.      *)
THEOREM ContractImplemented == Spec => Contract!Init /\ [][Contract!Next]_(Contract!vars)
<1>1. Init => Contract!Init
  BY DEF Init, Contract!Init
<1> QED
  BY <1>1, RefineStep, InvCorrect, PTL DEF Spec
=============================================================================
