--------------------------- MODULE RelayCallProofs ---------------------------
(***************************************************************************)
(* Proofs about RelayCall for any set of actions of any kinds and any      *)
(* bound on dropped connections.                                           *)
(***************************************************************************)
EXTENDS RelayCall, StackLemmas

(* The entries of the call stack, by what is running.                      *)
LEMMA EntryKinds ==
  /\ \A a \in Acts : /\ <<"start", a>> \in Entries /\ <<"wait", a>> \in Entries
                     /\ <<"completed", a>> \in Entries /\ <<"event", a>> \in Entries
  /\ \A S \in SUBSET Acts : <<"ending", S>> \in Entries
  /\ <<"listeners">> \in Entries
<1>1. \A a \in Acts : /\ <<"start", a>> \in Entries /\ <<"wait", a>> \in Entries
                      /\ <<"completed", a>> \in Entries /\ <<"event", a>> \in Entries
  BY DEF Entries
<1>2. \A S \in SUBSET Acts : <<"ending", S>> \in Entries
  BY DEF Entries
<1>3. <<"listeners">> \in Entries
  BY DEF Entries
<1> QED
  BY <1>1, <1>2, <1>3

LEMMA EntryShapes ==
  ASSUME NEW a, NEW S
  PROVE  /\ <<"start", a>>[1] = "start" /\ <<"wait", a>>[1] = "wait"
         /\ <<"completed", a>>[1] = "completed" /\ <<"event", a>>[1] = "event"
         /\ <<"ending", S>>[1] = "ending" /\ <<"ending", S>>[2] = S
         /\ <<"listeners">>[1] = "listeners" /\ <<"run">>[1] = "run"
  OBVIOUS

LEMMA EntryParts ==
  ASSUME NEW e \in Entries
  PROVE  /\ e[1] \in {"start", "wait", "completed", "event", "ending", "listeners"}
         /\ e[1] = "ending" => e[2] \in SUBSET Acts /\ e = <<"ending", e[2]>>
  BY DEF Entries

LEMMA StartParts ==
  ASSUME NEW a, NEW b
  PROVE  /\ <<"start", a>> = <<"start", b>> => a = b
         /\ <<"event", a>> = <<"event", b>> => a = b
  OBVIOUS

(* The entry that TopIs names is the last of a non-empty stack. *)
LEMMA TopEntry ==
  ASSUME NEW e \in Entries, TopIs(e)
  PROVE  stack # <<>> /\ stack[Len(stack)] = e
<1>1. e # <<"run">>
  BY EntryParts, EntryShapes
<1> QED
  BY <1>1 DEF TopIs, Top

LEMMA TopEnding ==
  ASSUME TypeOK, Top[1] = "ending"
  PROVE  \E S \in SUBSET Acts : TopIs(<<"ending", S>>) /\ Top[2] = S
<1>1. stack # <<>> /\ Top = stack[Len(stack)]
  BY EntryShapes DEF Top
<1>2. Top \in Entries
  BY <1>1, EmptySeq, LenProperties, ElementOfSeq DEF TypeOK
<1> QED
  BY <1>2, EntryParts DEF TopIs

-----------------------------------------------------------------------------
(* How the call stack moves to s: k entries stay, at most one above them   *)
(* goes and at most one comes, with callbacks and waits on top of it.      *)
Plain(e) == e[1] \in {"completed", "wait"}

Moves(s, k, old, new) ==
  /\ s \in Seq(Entries) /\ k \in Nat
  /\ \A p \in 1..k : p \in 1..Len(stack) /\ p \in 1..Len(s) /\ s[p] = stack[p]
  /\ \A p \in 1..Len(stack) : p \in Nat /\ (p <= k \/ (p = k + 1 /\ stack[p] \in old))
  /\ \A p \in 1..Len(s) : p \in Nat /\ (p <= k \/ (p = k + 1 /\ s[p] \in new) \/ Plain(s[p]))
  /\ \A e \in new : k + 1 \in 1..Len(s) /\ s[k + 1] = e

LEMMA NoMoves == TypeOK => Moves(stack, Len(stack), {}, {})
  BY LenProperties DEF Moves, TypeOK

LEMMA PushMoves ==
  ASSUME TypeOK, NEW e \in Entries
  PROVE  Moves(Append(stack, e), Len(stack), {}, {e})
<1> DEFINE s == Append(stack, e)
<1>1. /\ s \in Seq(Entries) /\ Len(stack) \in Nat /\ Len(s) = Len(stack) + 1
      /\ \A p \in 1..Len(stack) : s[p] = stack[p]
      /\ s[Len(stack) + 1] = e
  BY PushType DEF TypeOK
<1> HIDE DEF s
<1>2. /\ \A p \in 1..Len(s) : p \in Nat /\ (p <= Len(stack) \/ p = Len(stack) + 1)
      /\ \A p \in 1..Len(stack) : p \in Nat /\ p \in 1..Len(s) /\ p <= Len(stack)
      /\ Len(stack) + 1 \in 1..Len(s)
  BY <1>1
<1>3. Moves(s, Len(stack), {}, {e})
  BY <1>1, <1>2 DEF Moves
<1> QED
  BY <1>3 DEF s

LEMMA PopMoves ==
  ASSUME TypeOK, NEW e \in Entries, TopIs(e)
  PROVE  Moves(Below, Len(stack) - 1, {e}, {})
<1>1. /\ Below \in Seq(Entries) /\ Len(stack) \in Nat \ {0} /\ Len(Below) = Len(stack) - 1
      /\ \A p \in 1..(Len(stack) - 1) : Below[p] = stack[p]
      /\ stack[Len(stack)] = e
  BY TopEntry, PopType DEF TypeOK, Below
<1>2. /\ \A p \in 1..Len(stack) : p \in Nat /\ (p <= Len(stack) - 1 \/ p = Len(stack))
      /\ \A p \in 1..(Len(stack) - 1) : p \in Nat /\ p \in 1..Len(stack) /\ p <= Len(stack) - 1
      /\ Len(stack) - 1 \in Nat /\ (Len(stack) - 1) + 1 = Len(stack)
  BY <1>1
<1> QED
  BY <1>1, <1>2 DEF Moves

LEMMA SwapMoves ==
  ASSUME TypeOK, NEW e \in Entries, TopIs(e), NEW f \in Entries
  PROVE  Moves(Append(Below, f), Len(stack) - 1, {e}, {f})
<1> DEFINE s == Append(Below, f)
<1>1. /\ Below \in Seq(Entries) /\ Len(stack) \in Nat \ {0} /\ Len(Below) = Len(stack) - 1
      /\ \A p \in 1..(Len(stack) - 1) : Below[p] = stack[p]
      /\ stack[Len(stack)] = e
  BY TopEntry, PopType DEF TypeOK, Below
<1>2. /\ s \in Seq(Entries) /\ Len(s) = Len(Below) + 1
      /\ \A p \in 1..Len(Below) : s[p] = Below[p]
      /\ s[Len(Below) + 1] = f
  BY <1>1, PushType
<1> HIDE DEF s
<1>3. /\ \A p \in 1..Len(stack) : p \in Nat /\ (p <= Len(stack) - 1 \/ p = Len(stack))
      /\ \A p \in 1..(Len(stack) - 1) : p \in Nat /\ p \in 1..Len(stack) /\ p <= Len(stack) - 1
      /\ Len(stack) - 1 \in Nat /\ (Len(stack) - 1) + 1 = Len(stack)
      /\ Len(stack) \in 1..Len(stack) /\ Len(s) = Len(stack)
  BY <1>1, <1>2
<1>4. (\A p \in 1..(Len(stack) - 1) : s[p] = stack[p]) /\ s[Len(stack)] = f
  BY <1>1, <1>2, <1>3
<1>5. Moves(s, Len(stack) - 1, {e}, {f})
  BY <1>1, <1>2, <1>3, <1>4 DEF Moves
<1> QED
  BY <1>5 DEF s

(* A callback on top is one plain entry more.                              *)
LEMMA OnTopMoves ==
  ASSUME NEW s, NEW k, NEW old, NEW new, Moves(s, k, old, new), NEW e \in Entries, Plain(e)
  PROVE  Moves(Append(s, e), k, old, new)
<1> DEFINE u == Append(s, e)
<1>1. /\ u \in Seq(Entries) /\ Len(s) \in Nat /\ Len(u) = Len(s) + 1
      /\ \A p \in 1..Len(s) : u[p] = s[p]
      /\ u[Len(s) + 1] = e
  BY PushType DEF Moves
<1> HIDE DEF u
<1>2. /\ \A p \in 1..Len(u) : p \in Nat /\ (p \in 1..Len(s) \/ p = Len(s) + 1)
      /\ \A p \in 1..Len(s) : p \in 1..Len(u)
  BY <1>1
<1>3. Moves(u, k, old, new)
  BY <1>1, <1>2 DEF Moves
<1> QED
  BY <1>3 DEF u

LEMMA ResolveMoves ==
  ASSUME NEW a \in Acts, NEW r, NEW s, NEW k, NEW old, NEW new, Moves(s, k, old, new),
         Resolve(a, r, s)
  PROVE  Moves(stack', k, old, new)
<1>1. stack' = s \/ stack' = Append(s, <<"completed", a>>)
  BY Zenon DEF Resolve
<1>2. <<"completed", a>> \in Entries /\ Plain(<<"completed", a>>)
  BY EntryKinds, EntryShapes DEF Plain
<1> QED
  BY <1>1, <1>2, OnTopMoves

(* What a move does to the entries of one kind.                            *)
LEMMA MovesKeep ==
  ASSUME NEW k, NEW old, NEW new, Moves(stack', k, old, new), NEW K,
         K \notin {"completed", "wait"}, \A e \in old : e[1] # K, \A e \in new : e[1] # K
  PROVE  \A p : p \in 1..Len(stack') /\ stack'[p][1] = K
                  <=> p \in 1..Len(stack) /\ stack[p][1] = K /\ p \in 1..Len(stack')
                      /\ stack'[p] = stack[p]
  BY DEF Moves, Plain

LEMMA MovesKeepOld ==
  ASSUME NEW k, NEW old, NEW new, Moves(stack', k, old, new), NEW K,
         \A e \in old : e[1] # K
  PROVE  \A p \in 1..Len(stack) : stack[p][1] = K => p \in 1..Len(stack') /\ stack'[p] = stack[p]
  BY DEF Moves

LEMMA MovesKeepNew ==
  ASSUME NEW k, NEW old, NEW new, Moves(stack', k, old, new), NEW K,
         K \notin {"completed", "wait"}, \A e \in new : e[1] # K
  PROVE  \A p \in 1..Len(stack') : stack'[p][1] = K => p \in 1..Len(stack) /\ stack'[p] = stack[p]
  BY DEF Moves, Plain

-----------------------------------------------------------------------------
(* The steps of the specification, by what they do to the call stack.      *)
StartEnds(a) == StartReturns(a) \/ StartGone(a) \/ StartRaises(a) \/ StartDies(a)

ServerStep == \/ \E a \in Acts, code \in {"ok", "gone", "failed", "refused"} : ServerAnswers(a, code)
              \/ \E a \in Acts, e \in Events : ServerReports(a, e)
              \/ ServerEndsCall

(* Steps that push or pop at most callbacks and waits.                     *)
CalmStep == \/ \E a \in Acts : \/ OnCompleted(a) \/ Wait(a) \/ WaitEnds(a)
                               \/ CompletedReturns(a) \/ StartWithOption(a)
            \/ HandleAnswer \/ ServerStep \/ Drop \/ UNCHANGED vars

LEMMA NextCases ==
  ASSUME [Next]_vars
  PROVE  \/ CalmStep
         \/ \E a \in Acts : StartAction(a) \/ StartEnds(a) \/ EventContinues(a) \/ ResolveNext(a)
         \/ HandleActionEvent \/ HandleEnded \/ EndingDone \/ ListenersReturn
  BY Zenon DEF Next, CallReturns, CallbackReturns, Dispatch, Handle, Idle, CalmStep, ServerStep,
               StartEnds

LEMMA ServerStepClient ==
  ASSUME ServerStep
  PROVE  UNCHANGED <<stack, status, answer, actions, completed, result, callback, fired,
                     callState, registered, drops>>
  BY Zenon DEF ServerStep, ServerAnswers, ServerReports, ServerEndsCall, actionVars, callVars

LEMMA CalmMoves ==
  ASSUME TypeOK, CalmStep
  PROVE  \E k, old : Moves(stack', k, old, {}) /\ \A e \in old : Plain(e)
<1>0. CASE stack' = stack
  BY <1>0, NoMoves
<1>1. ASSUME NEW a \in Acts, OnCompleted(a)
      PROVE  \E k, old : Moves(stack', k, old, {}) /\ \A e \in old : Plain(e)
  <2>1. stack' = stack \/ stack' = Append(stack, <<"completed", a>>)
    BY <1>1, Zenon DEF OnCompleted
  <2>2. <<"completed", a>> \in Entries /\ Plain(<<"completed", a>>)
    BY EntryKinds, EntryShapes DEF Plain
  <2>3. Moves(stack', Len(stack), {}, {})
    BY <2>1, <2>2, NoMoves, OnTopMoves
  <2> QED
    BY <2>3
<1>2. ASSUME NEW a \in Acts, Wait(a)
      PROVE  \E k, old : Moves(stack', k, old, {}) /\ \A e \in old : Plain(e)
  <2>1. stack' = Append(stack, <<"wait", a>>)
    BY <1>2, Zenon DEF Wait
  <2>2. <<"wait", a>> \in Entries /\ Plain(<<"wait", a>>)
    BY EntryKinds, EntryShapes DEF Plain
  <2>3. Moves(stack', Len(stack), {}, {})
    BY <2>1, <2>2, NoMoves, OnTopMoves
  <2> QED
    BY <2>3
<1>3. ASSUME NEW a \in Acts, WaitEnds(a)
      PROVE  \E k, old : Moves(stack', k, old, {}) /\ \A e \in old : Plain(e)
  <2>1. TopIs(<<"wait", a>>) /\ stack' = Below
    BY <1>3, Zenon DEF WaitEnds
  <2>2. <<"wait", a>> \in Entries /\ Plain(<<"wait", a>>)
    BY EntryKinds, EntryShapes DEF Plain
  <2>3. Moves(stack', Len(stack) - 1, {<<"wait", a>>}, {})
    BY <2>1, <2>2, PopMoves
  <2> QED
    BY <2>2, <2>3
<1>4. ASSUME NEW a \in Acts, CompletedReturns(a)
      PROVE  \E k, old : Moves(stack', k, old, {}) /\ \A e \in old : Plain(e)
  <2>1. TopIs(<<"completed", a>>) /\ stack' = Below
    BY <1>4, Zenon DEF CompletedReturns
  <2>2. <<"completed", a>> \in Entries /\ Plain(<<"completed", a>>)
    BY EntryKinds, EntryShapes DEF Plain
  <2>3. Moves(stack', Len(stack) - 1, {<<"completed", a>>}, {})
    BY <2>1, <2>2, PopMoves
  <2> QED
    BY <2>2, <2>3
<1>5. ASSUME NEW a \in Acts, StartWithOption(a) PROVE stack' = stack
  BY <1>5, Zenon DEF StartWithOption
<1>6. CASE HandleAnswer \/ Drop \/ UNCHANGED vars
  BY <1>0, <1>6, Zenon DEF HandleAnswer, Drop, vars
<1> QED
  BY <1>0, <1>1, <1>2, <1>3, <1>4, <1>5, <1>6, ServerStepClient, Zenon DEF CalmStep

LEMMA StartMoves ==
  ASSUME TypeOK, NEW a \in Acts
  PROVE  /\ StartAction(a) => Moves(stack', Len(stack), {}, {<<"start", a>>})
         /\ StartEnds(a) => Moves(stack', Len(stack) - 1, {<<"start", a>>}, {})
<1>0. <<"start", a>> \in Entries
  BY EntryKinds
<1>1. StartAction(a) => stack' = Append(stack, <<"start", a>>)
  BY Zenon DEF StartAction
<1>2. StartEnds(a) => TopIs(<<"start", a>>) /\ (stack' = Below \/ Resolve(a, "undef", Below))
  BY Zenon DEF StartEnds, StartReturns, StartGone, StartRaises, StartDies
<1>3. TopIs(<<"start", a>>) => Moves(Below, Len(stack) - 1, {<<"start", a>>}, {})
  BY <1>0, PopMoves
<1>4. Resolve(a, "undef", Below) /\ TopIs(<<"start", a>>) =>
        Moves(stack', Len(stack) - 1, {<<"start", a>>}, {})
  BY <1>3, ResolveMoves
<1> QED
  BY <1>0, <1>1, <1>2, <1>3, <1>4, PushMoves

LEMMA EventMoves ==
  ASSUME TypeOK
  PROVE  /\ HandleActionEvent =>
              /\ wire[1] \in Frames /\ wire[1].kind = "event" /\ wire[1].act \in Acts
              /\ \/ UNCHANGED <<stack, completed, result, fired>>
                 \/ Moves(stack', Len(stack), {}, {<<"event", wire[1].act>>})
         /\ \A a \in Acts : EventContinues(a) =>
              Moves(stack', Len(stack) - 1, {<<"event", a>>}, {<<"listeners">>})
<1>1. ASSUME HandleActionEvent
      PROVE  /\ wire[1] \in Frames /\ wire[1].kind = "event" /\ wire[1].act \in Acts
             /\ \/ UNCHANGED <<stack, completed, result, fired>>
                \/ Moves(stack', Len(stack), {}, {<<"event", wire[1].act>>})
  <2>1. wire # <<>> /\ Head(wire).kind = "event"
    BY <1>1, Zenon DEF HandleActionEvent, Arrives
  <2>2. wire[1] \in Frames /\ Head(wire) = wire[1]
    BY <2>1, TakeType DEF TypeOK
  <2>3. wire[1].kind = "event" /\ wire[1].act \in Acts
    BY <2>1, <2>2 DEF Frames
  <2> DEFINE a == wire[1].act
  <2>4. \/ UNCHANGED <<stack, completed, result, fired>>
        \/ Resolve(a, wire[1].event, Append(stack, <<"event", a>>))
        \/ stack' = Append(stack, <<"event", a>>)
    BY <1>1, <2>2, Zenon DEF HandleActionEvent
  <2> HIDE DEF a
  <2>5. a \in Acts /\ <<"event", a>> \in Entries
    BY <2>3, EntryKinds DEF a
  <2>6. Moves(Append(stack, <<"event", a>>), Len(stack), {}, {<<"event", a>>})
    BY <2>5, PushMoves
  <2>7. Resolve(a, wire[1].event, Append(stack, <<"event", a>>)) =>
          Moves(stack', Len(stack), {}, {<<"event", a>>})
    BY <2>5, <2>6, ResolveMoves
  <2>8. \/ UNCHANGED <<stack, completed, result, fired>>
        \/ Moves(stack', Len(stack), {}, {<<"event", a>>})
    BY <2>4, <2>6, <2>7
  <2> QED
    BY <2>2, <2>3, <2>8 DEF a
<1>2. ASSUME NEW a \in Acts, EventContinues(a)
      PROVE  Moves(stack', Len(stack) - 1, {<<"event", a>>}, {<<"listeners">>})
  <2>1. TopIs(<<"event", a>>) /\ stack' = Append(Below, <<"listeners">>)
    BY <1>2, Zenon DEF EventContinues
  <2> QED
    BY <2>1, EntryKinds, SwapMoves
<1> QED
  BY <1>1, <1>2

LEMMA EndingMoves ==
  ASSUME TypeOK
  PROVE  /\ HandleEnded => Moves(stack', Len(stack), {}, {<<"ending", actions>>})
         /\ \A a \in Acts : ResolveNext(a) =>
              \E S \in SUBSET Acts :
                /\ a \in S /\ TopIs(<<"ending", S>>)
                /\ Moves(stack', Len(stack) - 1, {<<"ending", S>>}, {<<"ending", S \ {a}>>})
         /\ EndingDone => Moves(stack', Len(stack) - 1, {<<"ending", {}>>}, {<<"listeners">>})
         /\ ListenersReturn => Moves(stack', Len(stack) - 1, {<<"listeners">>}, {})
<1>1. ASSUME HandleEnded PROVE Moves(stack', Len(stack), {}, {<<"ending", actions>>})
  <2>1. stack' = Append(stack, <<"ending", actions>>) /\ actions \in SUBSET Acts
    BY <1>1 DEF HandleEnded, TypeOK
  <2> QED
    BY <2>1, EntryKinds, PushMoves
<1>2. ASSUME NEW a \in Acts, ResolveNext(a)
      PROVE  \E S \in SUBSET Acts :
               /\ a \in S /\ TopIs(<<"ending", S>>)
               /\ Moves(stack', Len(stack) - 1, {<<"ending", S>>}, {<<"ending", S \ {a}>>})
  <2>1. PICK S \in SUBSET Acts : TopIs(<<"ending", S>>) /\ Top[2] = S
    BY <1>2, TopEnding DEF ResolveNext
  <2>2. a \in S /\ Resolve(a, "undef", Append(Below, <<"ending", S \ {a}>>))
    BY <1>2, <2>1, Zenon DEF ResolveNext
  <2>3. <<"ending", S>> \in Entries /\ <<"ending", S \ {a}>> \in Entries
    BY EntryKinds
  <2>4. Moves(Append(Below, <<"ending", S \ {a}>>), Len(stack) - 1, {<<"ending", S>>},
              {<<"ending", S \ {a}>>})
    BY <2>1, <2>3, SwapMoves
  <2>5. Moves(stack', Len(stack) - 1, {<<"ending", S>>}, {<<"ending", S \ {a}>>})
    BY <2>2, <2>4, ResolveMoves
  <2> QED
    BY <2>1, <2>2, <2>5
<1>3. ASSUME EndingDone
      PROVE  Moves(stack', Len(stack) - 1, {<<"ending", {}>>}, {<<"listeners">>})
  <2>1. TopIs(<<"ending", {}>>) /\ stack' = Append(Below, <<"listeners">>)
    BY <1>3, Zenon DEF EndingDone
  <2>2. <<"ending", {}>> \in Entries /\ <<"listeners">> \in Entries
    BY EntryKinds
  <2> QED
    BY <2>1, <2>2, SwapMoves
<1>4. ASSUME ListenersReturn PROVE Moves(stack', Len(stack) - 1, {<<"listeners">>}, {})
  <2>1. TopIs(<<"listeners">>) /\ stack' = Below
    BY <1>4, Zenon DEF ListenersReturn
  <2> QED
    BY <2>1, EntryKinds, PopMoves
<1> QED
  BY <1>1, <1>2, <1>3, <1>4

-----------------------------------------------------------------------------
(* How actions complete.                                                   *)

(* What a step does to completion: nothing, an on_completed set late, or   *)
(* _resolve for one of its three reasons.                                  *)
Quiet == UNCHANGED <<completed, result, callback, fired>>

LEMMA Effects ==
  ASSUME TypeOK, [Next]_vars
  PROVE  \/ Quiet
         \/ \E a \in Acts : OnCompleted(a)
         \/ \E s : \E a \in Acts, r \in {"undef", "payload", "finished"} :
              /\ Resolve(a, r, s) /\ callback' = callback
              /\ \/ r = "undef" /\ answer[a] = "gone"
                 \/ r = "undef" /\ \E p \in 1..Len(stack) : EndingAt(p)
                 \/ /\ wire # <<>> /\ wire[1].kind = "event" /\ wire[1].act = a
                    /\ wire[1].event = r /\ wire[1] \in Frames
              /\ UNCHANGED <<remoteCall, reported>>
<1> DEFINE Goal == \E s : \E a \in Acts, r \in {"undef", "payload", "finished"} :
              /\ Resolve(a, r, s) /\ callback' = callback
              /\ \/ r = "undef" /\ answer[a] = "gone"
                 \/ r = "undef" /\ \E p \in 1..Len(stack) : EndingAt(p)
                 \/ /\ wire # <<>> /\ wire[1].kind = "event" /\ wire[1].act = a
                    /\ wire[1].event = r /\ wire[1] \in Frames
              /\ UNCHANGED <<remoteCall, reported>>
<1>1. ASSUME NEW a \in Acts, StartGone(a) PROVE Goal
  <2>1. /\ Resolve(a, "undef", Below) /\ callback' = callback /\ answer[a] = "gone"
        /\ UNCHANGED <<remoteCall, reported>>
    BY <1>1, Zenon DEF StartGone, Leave, serverVars
  <2> QED
    BY <2>1
<1>2. ASSUME NEW a \in Acts, ResolveNext(a) PROVE Goal
  <2>1. PICK S \in SUBSET Acts : TopIs(<<"ending", S>>) /\ Top[2] = S
    BY <1>2, TopEnding DEF ResolveNext
  <2>2. /\ Resolve(a, "undef", Append(Below, <<"ending", S \ {a}>>)) /\ callback' = callback
        /\ UNCHANGED <<remoteCall, reported>>
    BY <1>2, <2>1, Zenon DEF ResolveNext, serverVars
  <2>3. stack # <<>> /\ stack[Len(stack)] = <<"ending", S>>
    BY <2>1, EntryKinds, TopEntry
  <2>4. Len(stack) \in 1..Len(stack)
    BY <2>3, EmptySeq, LenProperties DEF TypeOK
  <2>5. EndingAt(Len(stack))
    BY <2>3, <2>4, EntryShapes DEF EndingAt
  <2> QED
    BY <2>2, <2>4, <2>5
<1>3. CASE HandleActionEvent
  <2>1. wire # <<>> /\ Head(wire).kind = "event"
    BY <1>3, Zenon DEF HandleActionEvent, Arrives
  <2>2. wire[1] \in Frames /\ Head(wire) = wire[1]
    BY <2>1, TakeType DEF TypeOK
  <2>3. wire[1].kind = "event" /\ wire[1].act \in Acts
    BY <2>1, <2>2 DEF Frames
  <2>4. /\ \/ UNCHANGED <<completed, result, fired>>
           \/ /\ Completes(wire[1].act, wire[1].event)
              /\ Resolve(wire[1].act, wire[1].event, Append(stack, <<"event", wire[1].act>>))
        /\ callback' = callback /\ UNCHANGED <<remoteCall, reported>>
    BY <1>3, <2>2, Zenon DEF HandleActionEvent, serverVars
  <2>5. CASE UNCHANGED <<completed, result, fired>>
    BY <2>4, <2>5 DEF Quiet
  <2>6. CASE /\ Completes(wire[1].act, wire[1].event)
             /\ Resolve(wire[1].act, wire[1].event, Append(stack, <<"event", wire[1].act>>))
    <3>1. wire[1].event \in {"undef", "payload", "finished"}
      BY <2>6 DEF Completes
    <3>2. Goal
      BY <2>1, <2>2, <2>3, <2>4, <2>6, <3>1, Zenon
    <3> QED
      BY <3>2
  <2> QED
    BY <2>4, <2>5, <2>6
<1>4. ASSUME NEW a \in Acts, StartReturns(a) \/ StartRaises(a) \/ StartDies(a) PROVE Quiet
  BY <1>4, Zenon DEF StartReturns, StartRaises, StartDies, Leave, Quiet
<1>5. ASSUME NEW a \in Acts, StartAction(a) \/ StartWithOption(a) \/ Wait(a) \/ WaitEnds(a)
                             \/ CompletedReturns(a) \/ EventContinues(a)
      PROVE  Quiet
  BY <1>5, Zenon DEF StartAction, StartWithOption, Wait, WaitEnds, CompletedReturns, EventContinues,
                     actionVars, Quiet
<1>6. CASE HandleAnswer \/ HandleEnded \/ EndingDone \/ ListenersReturn \/ Drop \/ UNCHANGED vars
  <2>1. Quiet
    BY <1>6, Zenon DEF HandleAnswer, HandleEnded, EndingDone, ListenersReturn, Drop, vars,
                       actionVars, Quiet
  <2> QED
    BY <2>1
<1>7. CASE ServerStep
  BY <1>7, ServerStepClient, Zenon DEF Quiet
<1> QED
  BY <1>1, <1>2, <1>3, <1>4, <1>5, <1>6, <1>7, NextCases, Zenon DEF CalmStep, StartEnds

LEMMA Resolved ==
  ASSUME TypeOK, FiredOnce, NEW a \in Acts, NEW r, NEW s, Resolve(a, r, s), callback' = callback
  PROVE  /\ completed' = completed \cup {a}
         /\ FiredOnce' /\ fired' \in [Acts -> 0..1]
         /\ \A b \in Acts : result'[b] = IF b = a /\ a \notin completed THEN r ELSE result[b]
         /\ r \in {"undef", "payload", "finished"} =>
              result' \in [Acts -> {"none", "undef", "payload", "finished"}]
<1>1. completed' = completed \cup {a}
  BY Zenon DEF Resolve
<1>2. result' = IF a \in completed THEN result ELSE [result EXCEPT ![a] = r]
  BY Zenon DEF Resolve
<1>3. fired' = IF a \in callback \ completed THEN [fired EXCEPT ![a] = @ + 1] ELSE fired
  BY Zenon DEF Resolve
<1>4. /\ \A b \in Acts : result'[b] = IF b = a /\ a \notin completed THEN r ELSE result[b]
      /\ r \in {"undef", "payload", "finished"} =>
           result' \in [Acts -> {"none", "undef", "payload", "finished"}]
  BY <1>2 DEF TypeOK
<1>5. CASE a \in callback \ completed
  <2>1. fired' = [fired EXCEPT ![a] = @ + 1] /\ fired[a] = 0
    BY <1>3, <1>5 DEF FiredOnce
  <2>2. fired' \in [Acts -> 0..1] /\ fired'[a] = 1 /\ \A b \in Acts : b # a => fired'[b] = fired[b]
    BY <2>1 DEF TypeOK
  <2>3. FiredOnce'
    BY <1>1, <1>5, <2>2 DEF FiredOnce
  <2> QED
    BY <1>1, <1>4, <2>2, <2>3
<1>6. CASE a \notin callback \ completed
  <2>1. fired' = fired
    BY <1>3, <1>6
  <2>2. FiredOnce'
    BY <1>1, <1>6, <2>1 DEF FiredOnce
  <2> QED
    BY <1>1, <1>4, <2>1, <2>2 DEF TypeOK
<1> QED
  BY <1>5, <1>6

LEMMA FiredStep ==
  ASSUME TypeOK, FiredOnce, [Next]_vars
  PROVE  /\ FiredOnce' /\ fired' \in [Acts -> 0..1] /\ completed \subseteq completed'
         /\ completed' \subseteq Acts /\ callback' \subseteq Acts
         /\ result' \in [Acts -> {"none", "undef", "payload", "finished"}]
<1>1. CASE Quiet
  <2>1. FiredOnce'
    BY <1>1, Zenon DEF Quiet, FiredOnce
  <2> QED
    BY <1>1, <2>1 DEF Quiet, TypeOK
<1>2. ASSUME NEW a \in Acts, OnCompleted(a)
      PROVE  /\ FiredOnce' /\ fired' \in [Acts -> 0..1] /\ completed' = completed
             /\ callback' \subseteq Acts /\ result' = result
  <2>1. /\ a \notin callback /\ callback' = callback \cup {a} /\ completed' = completed
        /\ result' = result
        /\ fired' = IF a \in completed THEN [fired EXCEPT ![a] = @ + 1] ELSE fired
    BY <1>2, Zenon DEF OnCompleted
  <2>2. fired[a] = 0
    BY <2>1 DEF FiredOnce
  <2>3. CASE a \in completed
    <3>1. /\ fired' \in [Acts -> 0..1] /\ fired'[a] = 1
          /\ \A b \in Acts : b # a => fired'[b] = fired[b]
      BY <2>1, <2>2, <2>3 DEF TypeOK
    <3> QED
      BY <2>1, <2>3, <3>1 DEF FiredOnce, TypeOK
  <2>4. CASE a \notin completed
    BY <2>1, <2>4 DEF FiredOnce, TypeOK
  <2> QED
    BY <2>3, <2>4
<1>3. ASSUME NEW a \in Acts, NEW r \in {"undef", "payload", "finished"}, NEW s,
             Resolve(a, r, s), callback' = callback
      PROVE  /\ FiredOnce' /\ fired' \in [Acts -> 0..1] /\ completed \subseteq completed'
             /\ completed' \subseteq Acts /\ callback' \subseteq Acts
             /\ result' \in [Acts -> {"none", "undef", "payload", "finished"}]
  <2>1. /\ FiredOnce' /\ fired' \in [Acts -> 0..1] /\ completed' = completed \cup {a}
        /\ result' \in [Acts -> {"none", "undef", "payload", "finished"}]
    BY <1>3, Resolved
  <2> QED
    BY <1>3, <2>1 DEF TypeOK
<1> QED
  BY <1>1, <1>2, <1>3, Effects DEF TypeOK

(* The server only adds to what it has reported, and ends the call once.   *)
LEMMA ServerGrows ==
  ASSUME TypeOK, [Next]_vars
  PROVE  /\ \A a \in Acts : reported[a] \subseteq reported'[a]
         /\ remoteCall = "ended" => remoteCall' = "ended"
<1>1. ASSUME NEW a \in Acts, NEW e \in Events, ServerReports(a, e)
      PROVE  /\ \A b \in Acts : reported[b] \subseteq reported'[b]
             /\ remoteCall = "ended" => remoteCall' = "ended"
  <2>1. reported' = [reported EXCEPT ![a] = @ \cup {e}] /\ remoteCall' = remoteCall
    BY <1>1, Zenon DEF ServerReports
  <2> QED
    BY <2>1 DEF TypeOK
<1>2. ASSUME NEW a \in Acts, NEW code \in {"ok", "gone", "failed", "refused"}, ServerAnswers(a, code)
      PROVE  UNCHANGED <<reported, remoteCall>>
  BY <1>2, Zenon DEF ServerAnswers
<1>3. CASE ServerEndsCall
  BY <1>3, Zenon DEF ServerEndsCall
<1>4. ASSUME NEW a \in Acts, OnCompleted(a) \/ StartAction(a) \/ StartWithOption(a) \/ Wait(a)
                \/ WaitEnds(a) \/ CompletedReturns(a) \/ EventContinues(a) \/ StartEnds(a)
                \/ ResolveNext(a)
      PROVE  UNCHANGED <<reported, remoteCall>>
  BY <1>4, Zenon DEF OnCompleted, StartAction, StartWithOption, Wait, WaitEnds, CompletedReturns,
     EventContinues, StartEnds, StartReturns, StartGone, StartRaises, StartDies, Leave, ResolveNext,
     serverVars
<1>5. CASE HandleAnswer \/ HandleEnded \/ EndingDone \/ ListenersReturn \/ Drop \/ UNCHANGED vars
           \/ HandleActionEvent
  BY <1>5, Zenon DEF HandleAnswer, HandleEnded, EndingDone, ListenersReturn, Drop, vars,
                     HandleActionEvent, serverVars
<1> QED
  BY <1>1, <1>2, <1>3, <1>4, <1>5, NextCases, Zenon DEF CalmStep, ServerStep

LEMMA ResultStep ==
  ASSUME TypeOK, FiredOnce, ResultTruthful, WireTruthful, EndingOnce, [Next]_vars
  PROVE  ResultTruthful'
<1>0. /\ \A a \in Acts : reported[a] \subseteq reported'[a]
      /\ remoteCall = "ended" => remoteCall' = "ended"
  BY ServerGrows
<1>1. ASSUME completed' = completed, result' = result PROVE ResultTruthful'
  BY <1>0, <1>1 DEF ResultTruthful
<1>2. CASE Quiet \/ \E a \in Acts : OnCompleted(a)
  BY <1>1, <1>2, Zenon DEF Quiet, OnCompleted
<1>3. ASSUME NEW a \in Acts, NEW r \in {"undef", "payload", "finished"}, NEW s,
             Resolve(a, r, s), callback' = callback,
             \/ r = "undef" /\ answer[a] = "gone"
             \/ r = "undef" /\ \E p \in 1..Len(stack) : EndingAt(p)
             \/ /\ wire # <<>> /\ wire[1].kind = "event" /\ wire[1].act = a
                /\ wire[1].event = r /\ wire[1] \in Frames
      PROVE  ResultTruthful'
  <2>1. /\ completed' = completed \cup {a}
        /\ \A b \in Acts : result'[b] = IF b = a /\ a \notin completed THEN r ELSE result[b]
    BY <1>3, Resolved
  <2>2. r = "undef" => remoteCall = "ended"
    <3>1. answer[a] = "gone" => remoteCall = "ended"
      BY DEF WireTruthful
    <3>2. (\E p \in 1..Len(stack) : EndingAt(p)) => callState = "ended"
      BY DEF EndingOnce
    <3>3. wire # <<>> /\ wire[1].kind = "event" /\ wire[1] \in Frames => wire[1].event # "undef"
      BY DEF Frames, Events
    <3> QED
      BY <1>3, <3>1, <3>2, <3>3 DEF WireTruthful
  <2>3. r \in Events => r \in reported[a]
    <3>1. "undef" \notin Events
      BY DEF Events
    <3>2. wire # <<>> => 1 \in 1..Len(wire)
      BY EmptySeq, LenProperties DEF TypeOK
    <3> QED
      BY <1>3, <3>1, <3>2 DEF WireTruthful
  <2> SUFFICES ASSUME NEW b \in Acts
               PROVE  /\ b \in completed' <=> result'[b] # "none"
                      /\ result'[b] = "undef" => remoteCall' = "ended"
                      /\ result'[b] \in Events => result'[b] \in reported'[b]
    BY Zenon DEF ResultTruthful
  <2>4. CASE b = a /\ a \notin completed
    BY <1>0, <2>1, <2>2, <2>3, <2>4
  <2>5. CASE ~(b = a /\ a \notin completed)
    BY <1>0, <2>1, <2>5 DEF ResultTruthful
  <2> QED
    BY <2>4, <2>5
<1> QED
  BY <1>2, <1>3, Effects

-----------------------------------------------------------------------------
(* What is on the wire.                                                    *)

Handling == /\ wire # <<>> /\ wire' = Tail(wire) /\ UNCHANGED serverVars
            /\ \/ UNCHANGED <<answer, callState>>
               \/ HandleAnswer /\ UNCHANGED callState
               \/ UNCHANGED answer /\ callState' = "ended" /\ wire[1].kind = "ended"

LEMMA WireCases ==
  ASSUME TypeOK, [Next]_vars
  PROVE  \/ /\ UNCHANGED <<wire, answer, callState, remoteCall, reported>>
            /\ remote' = remote \/ \E a \in Acts : StartAction(a)
         \/ Handling
         \/ ServerStep
         \/ Drop
<1>1. ASSUME NEW a \in Acts, OnCompleted(a) \/ StartWithOption(a) \/ Wait(a)
                \/ WaitEnds(a) \/ CompletedReturns(a) \/ EventContinues(a) \/ StartEnds(a)
                \/ ResolveNext(a)
      PROVE  UNCHANGED <<wire, answer, callState, remoteCall, reported, remote>>
  BY <1>1, Zenon DEF OnCompleted, StartAction, StartWithOption, Wait, WaitEnds, CompletedReturns,
     EventContinues, StartEnds, StartReturns, StartGone, StartRaises, StartDies, Leave, ResolveNext,
     serverVars, actionVars, callVars
<1>2. ASSUME NEW a \in Acts, StartAction(a)
      PROVE  UNCHANGED <<wire, answer, callState, remoteCall, reported>>
  BY <1>2, Zenon DEF StartAction, callVars
<1>3. CASE EndingDone \/ ListenersReturn \/ UNCHANGED vars
  BY <1>3, Zenon DEF EndingDone, ListenersReturn, vars, serverVars, actionVars, callVars
<1>4. CASE HandleAnswer
  BY <1>4, Zenon DEF HandleAnswer, Arrives, Handling, callVars
<1>5. CASE HandleActionEvent
  BY <1>5, Zenon DEF HandleActionEvent, Arrives, Handling, callVars
<1>6. CASE HandleEnded
  <2>1. wire # <<>> /\ Head(wire).kind = "ended"
    BY <1>6, Zenon DEF HandleEnded, Arrives
  <2>2. Head(wire) = wire[1]
    BY <2>1, TakeType DEF TypeOK
  <2> QED
    BY <1>6, <2>1, <2>2, Zenon DEF HandleEnded, Arrives, Handling, actionVars
<1> QED
  BY <1>1, <1>2, <1>3, <1>4, <1>5, <1>6, NextCases, Zenon DEF CalmStep

LEMMA Taken ==
  ASSUME TypeOK, Handling
  PROVE  /\ wire' \in Seq(Frames) /\ wire[1] \in Frames /\ Head(wire) = wire[1]
         /\ 1 \in 1..Len(wire)
         /\ \A p \in 1..Len(wire') : p \in Nat /\ p # 0 /\ p + 1 \in 1..Len(wire)
                                     /\ wire'[p] = wire[p + 1]
<1>1. /\ wire' \in Seq(Frames) /\ Len(wire) \in Nat \ {0} /\ Len(wire') = Len(wire) - 1
      /\ \A p \in 1..(Len(wire) - 1) : wire'[p] = wire[p + 1]
      /\ Head(wire) = wire[1] /\ wire[1] \in Frames
  BY TakeType DEF Handling, TypeOK
<1> QED
  BY <1>1

LEMMA AnswerTaken ==
  ASSUME TypeOK, HandleAnswer
  PROVE  /\ wire[1].kind = "answer" /\ wire[1].act \in Acts
         /\ wire[1].code \in {"ok", "gone", "failed", "refused"}
         /\ answer' \in [Acts -> {"none", "ok", "gone", "failed", "refused"}]
         /\ \A a \in Acts : answer'[a] = answer[a] \/
              (AnswerTo(wire[1], a) /\ answer'[a] = wire[1].code /\ status[a] = "waiting")
<1>1. wire # <<>> /\ Head(wire).kind = "answer"
  BY Zenon DEF HandleAnswer, Arrives
<1>2. wire[1] \in Frames /\ Head(wire) = wire[1]
  BY <1>1, TakeType DEF TypeOK
<1>3. /\ wire[1].kind = "answer" /\ wire[1].act \in Acts
      /\ wire[1].code \in {"ok", "gone", "failed", "refused"}
  BY <1>1, <1>2 DEF Frames
<1>4. \/ answer' = answer
      \/ /\ status[wire[1].act] = "waiting"
         /\ answer' = [answer EXCEPT ![wire[1].act] = wire[1].code]
  BY <1>2, Zenon DEF HandleAnswer
<1> QED
  BY <1>3, <1>4 DEF AnswerTo, TypeOK

LEMMA Sent ==
  ASSUME TypeOK, NEW f \in Frames, wire' = Append(wire, f)
  PROVE  /\ wire' \in Seq(Frames)
         /\ \A p \in 1..Len(wire') : p \in Nat /\ \/ p \in 1..Len(wire) /\ wire'[p] = wire[p]
                                                  \/ p = Len(wire) + 1 /\ wire'[p] = f
<1>1. /\ wire' \in Seq(Frames) /\ Len(wire') = Len(wire) + 1 /\ Len(wire) \in Nat
      /\ \A p \in 1..Len(wire) : wire'[p] = wire[p]
      /\ wire'[Len(wire) + 1] = f
  BY PushType DEF TypeOK
<1>2. \A p \in 1..Len(wire') : p \in Nat /\ (p \in 1..Len(wire) \/ p = Len(wire) + 1)
  BY <1>1
<1> QED
  BY <1>1, <1>2

(* The frames the server sends, and what holds when it sends them.         *)
LEMMA ServerSends ==
  ASSUME TypeOK, ServerStep
  PROVE  \E f \in Frames :
           /\ wire' = Append(wire, f)
           /\ f.kind = "ended" => remoteCall = "live" /\ remoteCall' = "ended"
           /\ f.kind = "answer" => /\ f.code = "gone" <=> remoteCall' = "ended"
                                   /\ remote[f.act] = "asked"
           /\ f.kind = "event" => f.event \in reported'[f.act]
<1> DEFINE Goal == \E f \in Frames :
           /\ wire' = Append(wire, f)
           /\ f.kind = "ended" => remoteCall = "live" /\ remoteCall' = "ended"
           /\ f.kind = "answer" => /\ f.code = "gone" <=> remoteCall' = "ended"
                                   /\ remote[f.act] = "asked"
           /\ f.kind = "event" => f.event \in reported'[f.act]
<1>1. ASSUME NEW a \in Acts, NEW code \in {"ok", "gone", "failed", "refused"}, ServerAnswers(a, code)
      PROVE  Goal
  <2> DEFINE f == [kind |-> "answer", act |-> a, code |-> code]
  <2>1. f \in Frames
    BY DEF Frames
  <2>2. /\ wire' = Append(wire, f) /\ remote[a] = "asked" /\ remoteCall' = remoteCall
        /\ (code = "gone") <=> (remoteCall = "ended")
    BY <1>1, Zenon DEF ServerAnswers
  <2>3. /\ f.kind = "ended" => remoteCall = "live" /\ remoteCall' = "ended"
        /\ f.kind = "answer" => /\ f.code = "gone" <=> remoteCall' = "ended"
                                /\ remote[f.act] = "asked"
        /\ f.kind = "event" => f.event \in reported'[f.act]
    BY <2>2
  <2> HIDE DEF f
  <2> QED
    BY <2>1, <2>2, <2>3
<1>2. ASSUME NEW a \in Acts, NEW e \in Events, ServerReports(a, e) PROVE Goal
  <2> DEFINE f == [kind |-> "event", act |-> a, event |-> e]
  <2>1. f \in Frames
    BY DEF Frames
  <2>2. wire' = Append(wire, f) /\ reported' = [reported EXCEPT ![a] = @ \cup {e}]
    BY <1>2, Zenon DEF ServerReports
  <2>3. e \in reported'[a]
    BY <2>2 DEF TypeOK
  <2>4. /\ f.kind = "ended" => remoteCall = "live" /\ remoteCall' = "ended"
        /\ f.kind = "answer" => /\ f.code = "gone" <=> remoteCall' = "ended"
                                /\ remote[f.act] = "asked"
        /\ f.kind = "event" => f.event \in reported'[f.act]
    BY <2>3
  <2> HIDE DEF f
  <2> QED
    BY <2>1, <2>2, <2>4
<1>3. CASE ServerEndsCall
  <2> DEFINE f == [kind |-> "ended"]
  <2>1. f \in Frames
    BY DEF Frames
  <2>2. wire' = Append(wire, f) /\ remoteCall = "live" /\ remoteCall' = "ended"
    BY <1>3, Zenon DEF ServerEndsCall
  <2>3. f.kind = "ended"
    OBVIOUS
  <2> HIDE DEF f
  <2> QED
    BY <2>1, <2>2, <2>3
<1> QED
  BY <1>1, <1>2, <1>3, Zenon DEF ServerStep

LEMMA WireStep == TypeOK /\ WireTruthful /\ [Next]_vars => WireTruthful'
<1> SUFFICES ASSUME TypeOK, WireTruthful, [Next]_vars PROVE WireTruthful'
  OBVIOUS
<1>0. /\ \A a \in Acts : reported[a] \subseteq reported'[a]
      /\ remoteCall = "ended" => remoteCall' = "ended"
  BY ServerGrows
<1>1. ASSUME UNCHANGED <<wire, answer, callState, remoteCall, reported>> PROVE WireTruthful'
  BY <1>1, Zenon DEF WireTruthful
<1>2. CASE Drop
  <2>1. UNCHANGED <<answer, callState, remoteCall>> /\ wire' = <<>> /\ Len(wire') = 0
    BY <1>2 DEF Drop, actionVars, callVars
  <2>2. 1..Len(wire') = {}
    BY <2>1
  <2> QED
    BY <2>1, <2>2, Zenon DEF WireTruthful
<1>3. CASE Handling
  <2>1. /\ wire[1] \in Frames /\ 1 \in 1..Len(wire)
        /\ \A p \in 1..Len(wire') : p \in Nat /\ p # 0 /\ p + 1 \in 1..Len(wire)
                                    /\ wire'[p] = wire[p + 1]
    BY <1>3, Taken
  <2>2. remoteCall' = remoteCall /\ reported' = reported
    BY <1>3, Zenon DEF Handling, serverVars
  <2>3. ASSUME NEW p \in 1..Len(wire')
        PROVE  /\ wire'[p].kind = "ended" =>
                    /\ remoteCall' = "ended" /\ callState' = "live"
                    /\ \A q \in 1..Len(wire') : wire'[q].kind = "ended" => p = q
               /\ wire'[p].kind = "answer" /\ wire'[p].code = "gone" => remoteCall' = "ended"
               /\ wire'[p].kind = "event" => wire'[p].event \in reported'[wire'[p].act]
    <3>1. p + 1 \in 1..Len(wire) /\ wire'[p] = wire[p + 1] /\ p + 1 # 1 /\ p \in Nat
      BY <2>1
    <3>2. ASSUME wire'[p].kind = "ended"
          PROVE  callState' = "live"
      <4>1. wire[1].kind # "ended" /\ callState = "live"
        BY <2>1, <3>1, <3>2 DEF WireTruthful
      <4> QED
        BY <1>3, <4>1 DEF Handling
    <3>3. ASSUME wire'[p].kind = "ended", NEW q \in 1..Len(wire'), wire'[q].kind = "ended"
          PROVE  p = q
      <4>1. p + 1 = q + 1 /\ q \in Nat
        BY <2>1, <3>1, <3>3 DEF WireTruthful
      <4> QED
        BY <3>1, <4>1
    <3> QED
      BY <2>2, <3>1, <3>2, <3>3 DEF WireTruthful
  <2>4. ASSUME NEW a \in Acts, answer'[a] = "gone" PROVE remoteCall' = "ended"
    <3>1. CASE answer' = answer
      BY <2>2, <2>4, <3>1 DEF WireTruthful
    <3>2. CASE HandleAnswer
      <4>1. answer'[a] = answer[a] \/ (wire[1].kind = "answer" /\ answer'[a] = wire[1].code)
        BY <3>2, AnswerTaken
      <4> QED
        BY <2>1, <2>2, <2>4, <4>1 DEF WireTruthful
    <3> QED
      BY <1>3, <3>1, <3>2 DEF Handling
  <2>5. callState' = "ended" => remoteCall' = "ended"
    BY <1>3, <2>1, <2>2 DEF Handling, WireTruthful
  <2> QED
    BY <2>3, <2>4, <2>5, Zenon DEF WireTruthful
<1>4. CASE ServerStep
  <2>1. answer' = answer /\ callState' = callState
    BY <1>4, ServerStepClient
  <2>2. PICK f \in Frames :
           /\ wire' = Append(wire, f)
           /\ f.kind = "ended" => remoteCall = "live" /\ remoteCall' = "ended"
           /\ f.kind = "answer" => /\ f.code = "gone" <=> remoteCall' = "ended"
                                   /\ remote[f.act] = "asked"
           /\ f.kind = "event" => f.event \in reported'[f.act]
    BY <1>4, ServerSends
  <2>3. \A p \in 1..Len(wire') : p \in Nat /\ \/ p \in 1..Len(wire) /\ wire'[p] = wire[p]
                                              \/ p = Len(wire) + 1 /\ wire'[p] = f
    BY <2>2, Sent
  <2>4. f.kind = "ended" => /\ callState = "live"
                            /\ \A p \in 1..Len(wire) : wire[p].kind # "ended"
    BY <2>2 DEF WireTruthful, TypeOK
  <2>5. ASSUME NEW p \in 1..Len(wire), wire[p].kind = "event"
        PROVE  wire[p].event \in reported'[wire[p].act]
    <3>1. wire[p] \in Frames
      BY ElementOfSeq DEF TypeOK
    <3>2. wire[p].act \in Acts
      BY <2>5, <3>1 DEF Frames
    <3> QED
      BY <1>0, <2>5, <3>2 DEF WireTruthful
  <2>6. ASSUME NEW p \in 1..Len(wire')
        PROVE  /\ wire'[p].kind = "ended" =>
                    /\ remoteCall' = "ended" /\ callState' = "live"
                    /\ \A q \in 1..Len(wire') : wire'[q].kind = "ended" => p = q
               /\ wire'[p].kind = "answer" /\ wire'[p].code = "gone" => remoteCall' = "ended"
               /\ wire'[p].kind = "event" => wire'[p].event \in reported'[wire'[p].act]
    <3>1. CASE p \in 1..Len(wire) /\ wire'[p] = wire[p]
      <4>1. \A q \in 1..Len(wire') : wire[p].kind = "ended" /\ wire'[q].kind = "ended" => p = q
        BY <2>3, <2>4, <3>1 DEF WireTruthful
      <4> QED
        BY <1>0, <2>1, <2>5, <3>1, <4>1 DEF WireTruthful
    <3>2. CASE p = Len(wire) + 1 /\ wire'[p] = f
      <4>1. \A q \in 1..Len(wire') : f.kind = "ended" /\ wire'[q].kind = "ended" => p = q
        BY <2>3, <2>4, <3>2
      <4> QED
        BY <2>1, <2>2, <2>4, <3>2, <4>1
    <3> QED
      BY <2>3, <3>1, <3>2
  <2> QED
    BY <1>0, <2>1, <2>6, Zenon DEF WireTruthful
<1> QED
  BY <1>1, <1>2, <1>3, <1>4, WireCases

-----------------------------------------------------------------------------
(* What a step does to the other variables.                                *)

LEMMA StackStep == TypeOK /\ [Next]_vars => stack' \in Seq(Entries)
<1> SUFFICES ASSUME TypeOK, [Next]_vars PROVE stack' \in Seq(Entries)
  OBVIOUS
<1>1. \A k, old, new : Moves(stack', k, old, new) => stack' \in Seq(Entries)
  BY DEF Moves
<1>2. stack \in Seq(Entries)
  BY DEF TypeOK
<1>3. CASE CalmStep
  BY <1>1, <1>3, CalmMoves
<1>4. ASSUME NEW a \in Acts, StartAction(a) \/ StartEnds(a) \/ EventContinues(a) \/ ResolveNext(a)
      PROVE  stack' \in Seq(Entries)
  BY <1>1, <1>4, StartMoves, EventMoves, EndingMoves
<1>5. CASE HandleActionEvent \/ HandleEnded \/ EndingDone \/ ListenersReturn
  BY <1>1, <1>2, <1>5, EventMoves, EndingMoves
<1> QED
  BY <1>3, <1>4, <1>5, NextCases

LEMMA Statuses ==
  ASSUME TypeOK, [Next]_vars
  PROVE  /\ status' \in [Acts -> {"idle", "waiting", "returned", "raised", "died"}]
         /\ \A b \in Acts :
              \/ status'[b] = status[b]
              \/ StartAction(b) /\ status[b] = "idle" /\ status'[b] = "waiting"
              \/ StartWithOption(b) /\ status[b] = "idle" /\ status'[b] = "died"
              \/ StartEnds(b) /\ status'[b] \in {"returned", "raised", "died"}
<1>1. ASSUME NEW a \in Acts, NEW v \in {"idle", "waiting", "returned", "raised", "died"},
             status' = [status EXCEPT ![a] = v]
      PROVE  /\ status' \in [Acts -> {"idle", "waiting", "returned", "raised", "died"}]
             /\ status'[a] = v /\ \A b \in Acts : b # a => status'[b] = status[b]
  BY <1>1 DEF TypeOK
<1>2. CASE status' = status
  BY <1>2 DEF TypeOK
<1>3. ASSUME NEW a \in Acts, StartAction(a)
      PROVE  status[a] = "idle" /\ status' = [status EXCEPT ![a] = "waiting"]
  BY <1>3, Zenon DEF StartAction
<1>4. ASSUME NEW a \in Acts, StartWithOption(a)
      PROVE  status[a] = "idle" /\ status' = [status EXCEPT ![a] = "died"]
  BY <1>4, Zenon DEF StartWithOption
<1>5. ASSUME NEW a \in Acts, StartEnds(a)
      PROVE  \E v \in {"returned", "raised", "died"} : status' = [status EXCEPT ![a] = v]
  BY <1>5, Zenon DEF StartEnds, StartReturns, StartGone, StartRaises, StartDies, Leave
<1>6. ASSUME NEW a \in Acts, OnCompleted(a) \/ Wait(a) \/ WaitEnds(a) \/ CompletedReturns(a)
                             \/ EventContinues(a) \/ ResolveNext(a)
      PROVE  status' = status
  BY <1>6, Zenon DEF OnCompleted, Wait, WaitEnds, CompletedReturns, EventContinues, ResolveNext,
                     actionVars
<1>7. CASE HandleAnswer \/ HandleActionEvent \/ HandleEnded \/ EndingDone \/ ListenersReturn
           \/ Drop \/ UNCHANGED vars
  <2>1. status' = status
    BY <1>7, Zenon DEF HandleAnswer, HandleActionEvent, HandleEnded, EndingDone, ListenersReturn,
                       Drop, vars, actionVars
  <2> QED
    BY <1>2, <2>1
<1>8. CASE ServerStep
  BY <1>2, <1>8, ServerStepClient
<1>9. CASE \E a \in Acts : StartAction(a)
  BY <1>1, <1>3, <1>9
<1>10. CASE \E a \in Acts : StartWithOption(a)
  BY <1>1, <1>4, <1>10
<1>11. CASE \E a \in Acts : StartEnds(a)
  BY <1>1, <1>5, <1>11
<1> QED
  BY <1>2, <1>6, <1>7, <1>8, <1>9, <1>10, <1>11, NextCases, Zenon DEF CalmStep

LEMMA Tables ==
  ASSUME TypeOK, [Next]_vars
  PROVE  \/ actions' = actions
         \/ \E a \in Acts : \/ actions' = actions \cup {a} /\ (StartAction(a) \/ StartWithOption(a))
                            \/ actions' = actions \ {a} /\ StartRaises(a)
                            \/ actions' = actions \ (completed \cap {a}) /\ EventContinues(a)
         \/ actions' = {} /\ EndingDone
<1>1. ASSUME NEW a \in Acts, StartAction(a) \/ StartWithOption(a) PROVE actions' = actions \cup {a}
  BY <1>1, Zenon DEF StartAction, StartWithOption
<1>2. ASSUME NEW a \in Acts, StartEnds(a)
      PROVE  actions' = actions \/ (actions' = actions \ {a} /\ StartRaises(a))
  BY <1>2, Zenon DEF StartEnds, StartReturns, StartGone, StartRaises, StartDies
<1>3. ASSUME NEW a \in Acts, EventContinues(a) PROVE actions' = actions \ (completed \cap {a})
  BY <1>3, Zenon DEF EventContinues
<1>4. ASSUME NEW a \in Acts, OnCompleted(a) \/ Wait(a) \/ WaitEnds(a) \/ CompletedReturns(a)
                             \/ ResolveNext(a)
      PROVE  actions' = actions
  BY <1>4, Zenon DEF OnCompleted, Wait, WaitEnds, CompletedReturns, ResolveNext, actionVars
<1>5. CASE HandleAnswer \/ HandleActionEvent \/ HandleEnded \/ ListenersReturn
           \/ Drop \/ UNCHANGED vars
  BY <1>5, Zenon DEF HandleAnswer, HandleActionEvent, HandleEnded, ListenersReturn,
                     Drop, vars, actionVars
<1>6. CASE EndingDone
  BY <1>6, Zenon DEF EndingDone
<1>7. CASE ServerStep
  BY <1>7, ServerStepClient, Zenon
<1> QED
  BY <1>1, <1>2, <1>3, <1>4, <1>5, <1>6, <1>7, NextCases, Zenon DEF CalmStep

LEMMA Answers ==
  ASSUME TypeOK, [Next]_vars
  PROVE  /\ answer' \in [Acts -> {"none", "ok", "gone", "failed", "refused"}]
         /\ \A b \in Acts : \/ answer'[b] = answer[b]
                            \/ /\ HandleAnswer /\ status[b] = "waiting" /\ wire # <<>>
                               /\ AnswerTo(wire[1], b) /\ answer'[b] = wire[1].code
<1>1. CASE answer' = answer
  BY <1>1 DEF TypeOK
<1>2. CASE HandleAnswer
  BY <1>2, AnswerTaken DEF HandleAnswer, Arrives
<1>3. CASE ServerStep
  BY <1>1, <1>3, ServerStepClient
<1>4. CASE Drop
  BY <1>1, <1>4, Zenon DEF Drop, actionVars
<1> QED
  BY <1>1, <1>2, <1>3, <1>4, WireCases, Zenon DEF Handling

LEMMA ServerTypes ==
  ASSUME TypeOK, [Next]_vars
  PROVE  /\ remote' \in [Acts -> {"unknown", "asked", "running", "done"}]
         /\ remoteCall' \in {"live", "ended"} /\ reported' \in [Acts -> SUBSET Events]
         /\ wire' \in Seq(Frames)
<1> DEFINE Good == /\ remote' \in [Acts -> {"unknown", "asked", "running", "done"}]
                   /\ remoteCall' \in {"live", "ended"} /\ reported' \in [Acts -> SUBSET Events]
                   /\ wire' \in Seq(Frames)
<1>1. /\ remote \in [Acts -> {"unknown", "asked", "running", "done"}]
      /\ remoteCall \in {"live", "ended"} /\ reported \in [Acts -> SUBSET Events]
      /\ wire \in Seq(Frames)
  BY DEF TypeOK
<1>2. ASSUME NEW a \in Acts, StartAction(a) PROVE remote' = [remote EXCEPT ![a] = "asked"]
  BY <1>2, Zenon DEF StartAction
<1>3. CASE UNCHANGED <<wire, remoteCall, reported>> /\ (remote' = remote \/ \E a \in Acts : StartAction(a))
  BY <1>1, <1>2, <1>3
<1>4. CASE Handling
  <2>1. UNCHANGED <<remote, remoteCall, reported>>
    BY <1>4, Zenon DEF Handling, serverVars
  <2>2. wire' \in Seq(Frames)
    BY <1>4, Taken
  <2> QED
    BY <1>1, <2>1, <2>2
<1>5. CASE ServerStep
  <2>1. wire' \in Seq(Frames)
    BY <1>5, ServerSends, Sent
  <2>2. ASSUME NEW a \in Acts, NEW code \in {"ok", "gone", "failed", "refused"}, ServerAnswers(a, code)
        PROVE  Good
    <3>1. /\ remote' = [remote EXCEPT ![a] = IF code = "ok" THEN "running" ELSE "done"]
          /\ UNCHANGED <<remoteCall, reported>>
      BY <2>2, Zenon DEF ServerAnswers
    <3> QED
      BY <1>1, <2>1, <3>1
  <2>3. ASSUME NEW a \in Acts, NEW e \in Events, ServerReports(a, e) PROVE Good
    <3>1. /\ remote' = IF e = "finished" THEN [remote EXCEPT ![a] = "done"] ELSE remote
          /\ reported' = [reported EXCEPT ![a] = @ \cup {e}] /\ remoteCall' = remoteCall
      BY <2>3, Zenon DEF ServerReports
    <3> QED
      BY <1>1, <2>1, <3>1
  <2>4. CASE ServerEndsCall
    <3>1. remoteCall' = "ended" /\ UNCHANGED <<remote, reported>>
      BY <2>4, Zenon DEF ServerEndsCall
    <3> QED
      BY <1>1, <2>1, <3>1
  <2> QED
    BY <1>5, <2>2, <2>3, <2>4, Zenon DEF ServerStep
<1>6. CASE Drop
  <2>1. /\ wire' = <<>> /\ UNCHANGED <<remoteCall, reported>>
        /\ remote' = [a \in Acts |-> IF remote[a] = "asked" THEN "unknown" ELSE remote[a]]
    BY <1>6, Zenon DEF Drop
  <2>2. wire' \in Seq(Frames)
    BY <2>1, EmptySeq
  <2> QED
    BY <1>1, <2>1, <2>2
<1> QED
  BY <1>3, <1>4, <1>5, <1>6, WireCases

LEMMA CallTypes ==
  ASSUME TypeOK, [Next]_vars
  PROVE  callState' \in {"live", "ended"} /\ registered' \in BOOLEAN /\ drops' \in 0..MaxDrops
<1>1. callState \in {"live", "ended"} /\ registered \in BOOLEAN /\ drops \in 0..MaxDrops
  BY DEF TypeOK
<1>2. ASSUME NEW a \in Acts, OnCompleted(a) \/ StartWithOption(a) \/ Wait(a)
                \/ WaitEnds(a) \/ CompletedReturns(a) \/ EventContinues(a) \/ StartEnds(a)
                \/ ResolveNext(a) \/ StartAction(a)
      PROVE  UNCHANGED <<callState, registered, drops>>
  BY <1>2, Zenon DEF OnCompleted, StartAction, StartWithOption, Wait, WaitEnds, CompletedReturns,
     EventContinues, StartEnds, StartReturns, StartGone, StartRaises, StartDies, Leave, ResolveNext,
     serverVars, callVars
<1>3. CASE HandleAnswer \/ HandleActionEvent \/ EndingDone \/ UNCHANGED vars
  BY <1>1, <1>3, Zenon DEF HandleAnswer, HandleActionEvent, EndingDone, vars, callVars, serverVars
<1>4. CASE HandleEnded
  BY <1>1, <1>4, Zenon DEF HandleEnded, serverVars
<1>5. CASE ListenersReturn
  <2>1. registered' = (registered /\ callState # "ended") /\ UNCHANGED <<callState, drops>>
    BY <1>5, Zenon DEF ListenersReturn, serverVars
  <2> QED
    BY <1>1, <2>1
<1>6. CASE ServerStep
  BY <1>1, <1>6, ServerStepClient
<1>7. CASE Drop
  <2>1. drops < MaxDrops /\ drops' = drops + 1 /\ UNCHANGED <<callState, registered>>
    BY <1>7, Zenon DEF Drop, callVars
  <2> QED
    BY <1>1, <2>1, ActionKinds
<1> QED
  BY <1>1, <1>2, <1>3, <1>4, <1>5, <1>6, <1>7, NextCases DEF CalmStep

LEMMA TypeStep == TypeOK /\ FiredOnce /\ [Next]_vars => TypeOK'
<1> SUFFICES ASSUME TypeOK, FiredOnce, [Next]_vars PROVE TypeOK'
  OBVIOUS
<1>1. actions' \subseteq Acts
  BY Tables DEF TypeOK
<1>2. /\ fired' \in [Acts -> 0..1] /\ completed' \subseteq Acts /\ callback' \subseteq Acts
      /\ result' \in [Acts -> {"none", "undef", "payload", "finished"}]
  BY FiredStep
<1>3. /\ status' \in [Acts -> {"idle", "waiting", "returned", "raised", "died"}]
      /\ answer' \in [Acts -> {"none", "ok", "gone", "failed", "refused"}]
  BY Statuses, Answers
<1> QED
  BY <1>1, <1>2, <1>3, StackStep, ServerTypes, CallTypes, Zenon DEF TypeOK

LEMMA ActionsInit == Init => ActionsInv
<1> SUFFICES ASSUME Init PROVE ActionsInv
  OBVIOUS
<1>1. stack = <<>> /\ wire = <<>> /\ Len(stack) = 0 /\ Len(wire) = 0
  BY DEF Init
<1>2. 1..Len(stack) = {} /\ 1..Len(wire) = {}
  BY <1>1
<1>3. TypeOK
  <2>1. stack \in Seq(Entries) /\ wire \in Seq(Frames)
    BY <1>1, EmptySeq
  <2> QED
    BY <2>1, ActionKinds DEF Init, TypeOK
<1>4. FiredOnce /\ ResultTruthful
  BY DEF Init, FiredOnce, ResultTruthful, Events
<1>5. StartsRun /\ IdleUntouched
  BY <1>2 DEF Init, StartsRun, OnStack, IdleUntouched
<1>6. OpenListed /\ DoneLeave /\ WireTruthful
  BY <1>2 DEF Init, OpenListed, DoneLeave, WireTruthful
<1>7. EndingOnce /\ EndedStarts /\ EndedReturned /\ EndedDispatch
  BY <1>2 DEF Init, EndingOnce, EndedStarts, EndedReturned, EndedDispatch
<1> QED
  BY <1>3, <1>4, <1>5, <1>6, <1>7 DEF ActionsInv

-----------------------------------------------------------------------------
(* An action waits while its start is on the stack.                        *)

LEMMA StartCases ==
  ASSUME TypeOK, [Next]_vars
  PROVE  \/ \E a \in Acts : StartAction(a) \/ StartEnds(a)
         \/ /\ status' = status \/ \E a \in Acts : StartWithOption(a)
            /\ \E k, old, new : /\ Moves(stack', k, old, new)
                                /\ \A e \in old : e[1] # "start"
                                /\ \A e \in new : e[1] # "start"
<1> DEFINE Rest == \E k, old, new : /\ Moves(stack', k, old, new)
                                    /\ \A e \in old : e[1] # "start"
                                    /\ \A e \in new : e[1] # "start"
<1>1. ASSUME NEW a \in Acts, OnCompleted(a) \/ Wait(a) \/ WaitEnds(a) \/ CompletedReturns(a)
                             \/ EventContinues(a) \/ ResolveNext(a)
      PROVE  status' = status
  BY <1>1, Zenon DEF OnCompleted, Wait, WaitEnds, CompletedReturns, EventContinues, ResolveNext,
                     actionVars
<1>2. ASSUME HandleAnswer \/ HandleActionEvent \/ HandleEnded \/ EndingDone \/ ListenersReturn
             \/ Drop \/ UNCHANGED vars
      PROVE  status' = status
  BY <1>2, Zenon DEF HandleAnswer, HandleActionEvent, HandleEnded, EndingDone, ListenersReturn,
                     Drop, vars, actionVars
<1>3. ASSUME CalmStep PROVE Rest
  <2>1. PICK k, old : Moves(stack', k, old, {}) /\ \A e \in old : Plain(e)
    BY <1>3, CalmMoves
  <2>2. \A e \in old : e[1] # "start"
    BY <2>1 DEF Plain
  <2> QED
    BY <2>1, <2>2
<1>4. ASSUME NEW a \in Acts, EventContinues(a) PROVE Rest
  <2>1. Moves(stack', Len(stack) - 1, {<<"event", a>>}, {<<"listeners">>})
    BY <1>4, EventMoves
  <2>2. \A e \in {<<"event", a>>, <<"listeners">>} : e[1] # "start"
    OBVIOUS
  <2> QED
    BY <2>1, <2>2
<1>5. ASSUME NEW a \in Acts, ResolveNext(a) PROVE Rest
  <2>1. PICK S \in SUBSET Acts :
          Moves(stack', Len(stack) - 1, {<<"ending", S>>}, {<<"ending", S \ {a}>>})
    BY <1>5, EndingMoves
  <2>2. \A e \in {<<"ending", S>>, <<"ending", S \ {a}>>} : e[1] # "start"
    OBVIOUS
  <2> QED
    BY <2>1, <2>2
<1>6. ASSUME HandleActionEvent PROVE Rest
  <2>1. CASE stack' = stack
    BY <2>1, NoMoves
  <2>2. CASE Moves(stack', Len(stack), {}, {<<"event", wire[1].act>>})
    BY <2>2, EntryShapes
  <2> QED
    BY <1>6, <2>1, <2>2, EventMoves
<1>7. ASSUME HandleEnded \/ EndingDone \/ ListenersReturn PROVE Rest
  BY <1>7, EndingMoves, EntryShapes
<1>8. ASSUME ServerStep PROVE status' = status
  BY <1>8, ServerStepClient
<1> QED
  BY <1>1, <1>2, <1>3, <1>4, <1>5, <1>6, <1>7, <1>8, NextCases, Zenon DEF CalmStep

LEMMA StartsStep == TypeOK /\ StartsRun /\ [Next]_vars => StartsRun'
<1> SUFFICES ASSUME TypeOK, StartsRun, [Next]_vars,
                    NEW b \in Acts
             PROVE  /\ status'[b] = "waiting" <=> \E p \in 1..Len(stack') : stack'[p] = <<"start", b>>
                    /\ \A p, q \in 1..Len(stack') :
                         stack'[p] = <<"start", b>> /\ stack'[q] = <<"start", b>> => p = q
  BY Zenon DEF StartsRun, OnStack
<1> DEFINE e == <<"start", b>>
<1>0. /\ status[b] = "waiting" <=> \E p \in 1..Len(stack) : stack[p] = e
      /\ \A p, q \in 1..Len(stack) : stack[p] = e /\ stack[q] = e => p = q
  BY Zenon DEF StartsRun, OnStack
<1>1. e[1] = "start" /\ ~Plain(e) /\ \A a \in Acts : <<"start", a>> = e <=> a = b
  BY DEF Plain
<1> HIDE DEF e
<1>2. ASSUME NEW k, NEW old, NEW new, Moves(stack', k, old, new),
             \A f \in old : f[1] # "start", \A f \in new : f[1] # "start",
             status'[b] = status[b] \/ (status[b] = "idle" /\ status'[b] = "died")
      PROVE  /\ status'[b] = "waiting" <=> \E p \in 1..Len(stack') : stack'[p] = e
             /\ \A p, q \in 1..Len(stack') : stack'[p] = e /\ stack'[q] = e => p = q
  <2>1. \A p : p \in 1..Len(stack') /\ stack'[p] = e <=> p \in 1..Len(stack) /\ stack[p] = e
    <3>1. \A p \in 1..Len(stack) : stack[p][1] = "start" => p \in 1..Len(stack') /\ stack'[p] = stack[p]
      BY <1>2 DEF Moves
    <3>2. \A p \in 1..Len(stack') : stack'[p][1] = "start" => p \in 1..Len(stack) /\ stack'[p] = stack[p]
      BY <1>2 DEF Moves, Plain
    <3> QED
      BY <1>1, <3>1, <3>2
  <2> QED
    BY <1>0, <1>2, <2>1
<1>3. ASSUME NEW a \in Acts, StartAction(a)
      PROVE  /\ status'[b] = "waiting" <=> \E p \in 1..Len(stack') : stack'[p] = e
             /\ \A p, q \in 1..Len(stack') : stack'[p] = e /\ stack'[q] = e => p = q
  <2>1. Moves(stack', Len(stack), {}, {<<"start", a>>})
    BY <1>3, StartMoves
  <2>2. status[a] = "idle" /\ status'[b] = IF b = a THEN "waiting" ELSE status[b]
    BY <1>3 DEF StartAction, TypeOK
  <2>3. \A p \in 1..Len(stack') : stack'[p] = e =>
           (p \in 1..Len(stack) /\ stack[p] = e) \/ (p = Len(stack) + 1 /\ a = b)
    BY <1>1, <2>1 DEF Moves
  <2>4. /\ \A p \in 1..Len(stack) : p \in 1..Len(stack') /\ stack'[p] = stack[p]
        /\ a = b => Len(stack) + 1 \in 1..Len(stack') /\ stack'[Len(stack) + 1] = e
    BY <1>1, <2>1 DEF Moves
  <2>5. a = b => \A p \in 1..Len(stack) : stack[p] # e
    BY <1>0, <2>2
  <2> QED
    BY <1>0, <2>2, <2>3, <2>4, <2>5
<1>4. ASSUME NEW a \in Acts, StartEnds(a)
      PROVE  /\ status'[b] = "waiting" <=> \E p \in 1..Len(stack') : stack'[p] = e
             /\ \A p, q \in 1..Len(stack') : stack'[p] = e /\ stack'[q] = e => p = q
  <2>1. Moves(stack', Len(stack) - 1, {<<"start", a>>}, {})
    BY <1>4, StartMoves
  <2>2. PICK v \in {"returned", "raised", "died"} : status' = [status EXCEPT ![a] = v]
    BY <1>4, Zenon DEF StartEnds, StartReturns, StartGone, StartRaises, StartDies, Leave
  <2>3. status'[b] = IF b = a THEN v ELSE status[b]
    BY <2>2 DEF TypeOK
  <2>4. TopIs(<<"start", a>>)
    BY <1>4, Zenon DEF StartEnds, StartReturns, StartGone, StartRaises, StartDies
  <2>5. stack[Len(stack)] = <<"start", a>> /\ Len(stack) \in 1..Len(stack)
    <3>1. stack # <<>> /\ stack[Len(stack)] = <<"start", a>>
      BY <2>4, EntryKinds, TopEntry
    <3> QED
      BY <3>1, EmptySeq, LenProperties DEF TypeOK
  <2>6. \A p \in 1..Len(stack') : stack'[p] = e => p \in 1..Len(stack) /\ stack[p] = e /\ p # Len(stack)
    BY <1>1, <2>1, <2>5 DEF Moves
  <2>7. \A p \in 1..Len(stack) : stack[p] = e =>
          a = b \/ (p \in 1..Len(stack') /\ stack'[p] = e)
    BY <1>1, <2>1 DEF Moves
  <2>8. a = b => \A p \in 1..Len(stack) : stack[p] = e => p = Len(stack)
    BY <1>0, <1>1, <2>5
  <2> QED
    BY <1>0, <2>2, <2>3, <2>6, <2>7, <2>8
<1>5. ASSUME status' = status \/ \E a \in Acts : StartWithOption(a)
      PROVE  status'[b] = status[b] \/ (status[b] = "idle" /\ status'[b] = "died")
  <2>1. ASSUME NEW a \in Acts, StartWithOption(a)
        PROVE  status[a] = "idle" /\ status' = [status EXCEPT ![a] = "died"]
    BY <2>1, Zenon DEF StartWithOption
  <2> QED
    BY <1>5, <2>1 DEF TypeOK
<1>6. /\ status'[b] = "waiting" <=> \E p \in 1..Len(stack') : stack'[p] = e
      /\ \A p, q \in 1..Len(stack') : stack'[p] = e /\ stack'[q] = e => p = q
  BY <1>2, <1>3, <1>4, <1>5, StartCases
<1> QED
  BY <1>6 DEF e

-----------------------------------------------------------------------------
(* The dispatch of the end of the call on the stack.                       *)

(* Steps that neither begin, continue nor end one.                         *)
LEMMA EndingCases ==
  ASSUME TypeOK, [Next]_vars
  PROVE  \/ HandleEnded \/ EndingDone \/ \E a \in Acts : ResolveNext(a)
         \/ \E k, old, new : /\ Moves(stack', k, old, new)
                             /\ \A e \in old : e[1] # "ending"
                             /\ \A e \in new : e[1] # "ending"
<1> DEFINE Rest == \E k, old, new : /\ Moves(stack', k, old, new)
                                    /\ \A e \in old : e[1] # "ending"
                                    /\ \A e \in new : e[1] # "ending"
<1>1. ASSUME CalmStep PROVE Rest
  <2>1. PICK k, old : Moves(stack', k, old, {}) /\ \A e \in old : Plain(e)
    BY <1>1, CalmMoves
  <2>2. \A e \in old : e[1] # "ending"
    BY <2>1 DEF Plain
  <2> QED
    BY <2>1, <2>2
<1>2. ASSUME NEW a \in Acts, EventContinues(a) PROVE Rest
  <2>1. Moves(stack', Len(stack) - 1, {<<"event", a>>}, {<<"listeners">>})
    BY <1>2, EventMoves
  <2>2. \A e \in {<<"event", a>>, <<"listeners">>} : e[1] # "ending"
    OBVIOUS
  <2> QED
    BY <2>1, <2>2
<1>3. ASSUME NEW a \in Acts, StartAction(a) \/ StartEnds(a) PROVE Rest
  <2>1. \/ Moves(stack', Len(stack), {}, {<<"start", a>>})
        \/ Moves(stack', Len(stack) - 1, {<<"start", a>>}, {})
    BY <1>3, StartMoves
  <2>2. \A e \in {<<"start", a>>} : e[1] # "ending"
    OBVIOUS
  <2> QED
    BY <2>1, <2>2
<1>5. ASSUME HandleActionEvent PROVE Rest
  <2>1. CASE stack' = stack
    BY <2>1, NoMoves
  <2>2. CASE Moves(stack', Len(stack), {}, {<<"event", wire[1].act>>})
    BY <2>2, EntryShapes
  <2> QED
    BY <1>5, <2>1, <2>2, EventMoves
<1>6. ASSUME ListenersReturn PROVE Rest
  BY <1>6, EndingMoves, EntryShapes
<1> QED
  BY <1>1, <1>2, <1>3, <1>5, <1>6, NextCases, Zenon

(* Where such a dispatch comes from, and what becomes of it.               *)
Listing(q, a) == /\ ResolveNext(a) /\ q = Len(stack) /\ q \in 1..Len(stack) /\ q \in 1..Len(stack')
                 /\ stack[q] = <<"ending", stack[q][2]>>
                 /\ a \in stack[q][2] /\ stack'[q] = <<"ending", stack[q][2] \ {a}>>

LEMMA EndingsMove ==
  ASSUME TypeOK, [Next]_vars
  PROVE  /\ \A q : EndingAt(q)' =>
              \/ q \in 1..Len(stack) /\ stack'[q] = stack[q]
              \/ HandleEnded /\ q = Len(stack) + 1 /\ stack'[q] = <<"ending", actions>>
              \/ \E a \in Acts : Listing(q, a)
         /\ \A q : EndingAt(q) =>
              \/ q \in 1..Len(stack') /\ stack'[q] = stack[q]
              \/ EndingDone /\ q = Len(stack) /\ stack[q] = <<"ending", {}>>
              \/ \E a \in Acts : Listing(q, a)
         /\ HandleEnded => Len(stack) + 1 \in 1..Len(stack')
                           /\ stack'[Len(stack) + 1] = <<"ending", actions>>
<1> DEFINE Goal ==
         /\ \A q : EndingAt(q)' =>
              \/ q \in 1..Len(stack) /\ stack'[q] = stack[q]
              \/ HandleEnded /\ q = Len(stack) + 1 /\ stack'[q] = <<"ending", actions>>
              \/ \E a \in Acts : Listing(q, a)
         /\ \A q : EndingAt(q) =>
              \/ q \in 1..Len(stack') /\ stack'[q] = stack[q]
              \/ EndingDone /\ q = Len(stack) /\ stack[q] = <<"ending", {}>>
              \/ \E a \in Acts : Listing(q, a)
<1>0. \A q : /\ EndingAt(q)' <=> q \in 1..Len(stack') /\ stack'[q][1] = "ending"
             /\ EndingAt(q) <=> q \in 1..Len(stack) /\ stack[q][1] = "ending"
  BY Zenon DEF EndingAt
<1>1. ASSUME NEW k, NEW old, NEW new, Moves(stack', k, old, new),
             \A e \in old : e[1] # "ending", \A e \in new : e[1] # "ending"
      PROVE  Goal
  BY <1>0, <1>1 DEF Moves, Plain
<1>2. CASE HandleEnded
  <2>1. Moves(stack', Len(stack), {}, {<<"ending", actions>>})
    BY <1>2, EndingMoves
  <2>2. Goal
    BY <1>0, <1>2, <2>1 DEF Moves, Plain
  <2> QED
    BY <2>1, <2>2 DEF Moves
<1>3. CASE EndingDone
  <2>1. Moves(stack', Len(stack) - 1, {<<"ending", {}>>}, {<<"listeners">>})
    BY <1>3, EndingMoves
  <2>2. \A e \in {<<"listeners">>} : e[1] # "ending"
    OBVIOUS
  <2>3. Len(stack) \in Nat
    BY LenProperties DEF TypeOK
  <2>4. \A q : EndingAt(q)' => q \in 1..Len(stack) /\ stack'[q] = stack[q]
    <3> SUFFICES ASSUME NEW q, EndingAt(q)'
                 PROVE  q \in 1..Len(stack) /\ stack'[q] = stack[q]
      OBVIOUS
    <3>1. q \in 1..Len(stack') /\ ~Plain(stack'[q]) /\ stack'[q] # <<"listeners">>
      BY <1>0, <2>2 DEF Plain
    <3>2. q \in Nat /\ q <= Len(stack) - 1
      BY <2>1, <3>1 DEF Moves
    <3>3. q \in 1..(Len(stack) - 1)
      BY <2>3, <3>1, <3>2
    <3> QED
      BY <2>1, <3>3 DEF Moves
  <2>5. \A q : EndingAt(q) => \/ q \in 1..Len(stack') /\ stack'[q] = stack[q]
                              \/ q = Len(stack) /\ stack[q] = <<"ending", {}>>
    BY <1>0, <2>1, <2>3 DEF Moves
  <2>6. HandleEnded => Len(stack) + 1 \in 1..Len(stack') /\ stack'[Len(stack) + 1] = <<"ending", actions>>
    <3>1. HandleEnded => Moves(stack', Len(stack), {}, {<<"ending", actions>>})
      BY EndingMoves
    <3> QED
      BY <3>1 DEF Moves
  <2> QED
    BY <1>3, <2>4, <2>5, <2>6
<1>4. ASSUME NEW a \in Acts, ResolveNext(a) PROVE Goal
  <2>1. PICK S \in SUBSET Acts :
          /\ a \in S /\ TopIs(<<"ending", S>>)
          /\ Moves(stack', Len(stack) - 1, {<<"ending", S>>}, {<<"ending", S \ {a}>>})
    BY <1>4, EndingMoves
  <2>2. stack # <<>> /\ stack[Len(stack)] = <<"ending", S>>
    BY <2>1, EntryKinds, TopEntry
  <2>3. Len(stack) \in 1..Len(stack) /\ Len(stack) \in Nat /\ (Len(stack) - 1) + 1 = Len(stack)
    BY <2>2, EmptySeq, LenProperties DEF TypeOK
  <2>4. Listing(Len(stack), a)
    <3>1. Len(stack) \in 1..Len(stack') /\ stack'[Len(stack)] = <<"ending", S \ {a}>>
      BY <2>1, <2>3 DEF Moves
    <3>2. <<"ending", S>>[2] = S
      OBVIOUS
    <3> QED
      BY <1>4, <2>1, <2>2, <2>3, <3>1, <3>2 DEF Listing
  <2>5. ASSUME NEW q, EndingAt(q)'
        PROVE  (q \in 1..Len(stack) /\ stack'[q] = stack[q]) \/ q = Len(stack)
    <3>1. q \in 1..Len(stack') /\ ~Plain(stack'[q])
      BY <1>0, <2>5 DEF Plain
    <3>2. q \in Nat /\ (q <= Len(stack) - 1 \/ q = (Len(stack) - 1) + 1)
      BY <2>1, <3>1 DEF Moves
    <3>3. q <= Len(stack) - 1 => q \in 1..(Len(stack) - 1)
      BY <2>3, <3>1
    <3> QED
      BY <2>1, <2>3, <3>2, <3>3 DEF Moves
  <2>6. ASSUME NEW q, EndingAt(q)
        PROVE  (q \in 1..Len(stack') /\ stack'[q] = stack[q]) \/ q = Len(stack)
    <3>1. q \in 1..Len(stack)
      BY <1>0, <2>6
    <3>2. q \in Nat /\ (q <= Len(stack) - 1 \/ q = (Len(stack) - 1) + 1)
      BY <2>1, <3>1 DEF Moves
    <3>3. q <= Len(stack) - 1 => q \in 1..(Len(stack) - 1)
      BY <2>3, <3>1
    <3> QED
      BY <2>1, <2>3, <3>2, <3>3 DEF Moves
  <2> QED
    BY <2>4, <2>5, <2>6
<1>5. HandleEnded => Len(stack) + 1 \in 1..Len(stack') /\ stack'[Len(stack) + 1] = <<"ending", actions>>
  <2>1. HandleEnded => Moves(stack', Len(stack), {}, {<<"ending", actions>>})
    BY EndingMoves
  <2> QED
    BY <2>1 DEF Moves
<1> QED
  BY <1>1, <1>2, <1>3, <1>4, <1>5, EndingCases

(* An action completes because its answer was "gone", as one of the call's *)
(* table, or as one of the list of the end of the call.                    *)
LEMMA Completing ==
  ASSUME TypeOK, [Next]_vars, NEW b \in Acts, b \in completed', b \notin completed
  PROVE  \/ answer[b] = "gone" /\ StartGone(b)
         \/ b \in actions /\ \E p \in 1..Len(stack') : stack'[p] = <<"event", b>>
         \/ \E p \in 1..Len(stack) : Listing(p, b)
<1>1. CASE Quiet \/ \E a \in Acts : OnCompleted(a)
  <2>1. completed' = completed
    BY <1>1, Zenon DEF Quiet, OnCompleted
  <2> QED
    BY <2>1
<1>2. ASSUME NEW a \in Acts, StartEnds(a)
      PROVE  answer[b] = "gone" /\ StartGone(b)
  <2>1. \/ completed' = completed
        \/ answer[a] = "gone" /\ StartGone(a) /\ completed' = completed \cup {a}
    BY <1>2, Zenon DEF StartEnds, StartReturns, StartGone, StartRaises, StartDies, Resolve
  <2> QED
    BY <2>1
<1>3. ASSUME NEW a \in Acts, ResolveNext(a)
      PROVE  \E p \in 1..Len(stack) : Listing(p, b)
  <2>1. completed' = completed \cup {a}
    BY <1>3, Zenon DEF ResolveNext, Resolve
  <2>2. a = b
    BY <2>1
  <2>3. PICK S \in SUBSET Acts :
          /\ a \in S /\ TopIs(<<"ending", S>>)
          /\ Moves(stack', Len(stack) - 1, {<<"ending", S>>}, {<<"ending", S \ {a}>>})
    BY <1>3, EndingMoves
  <2>4. stack # <<>> /\ stack[Len(stack)] = <<"ending", S>>
    BY <2>3, EntryKinds, TopEntry
  <2>5. Len(stack) \in 1..Len(stack) /\ (Len(stack) - 1) + 1 = Len(stack)
    BY <2>4, EmptySeq, LenProperties DEF TypeOK
  <2>6. Len(stack) \in 1..Len(stack') /\ stack'[Len(stack)] = <<"ending", S \ {a}>>
    BY <2>3, <2>5 DEF Moves
  <2>7. <<"ending", S>>[2] = S
    OBVIOUS
  <2> QED
    BY <1>3, <2>2, <2>3, <2>4, <2>5, <2>6, <2>7 DEF Listing
<1>4. CASE HandleActionEvent
  <2>1. wire # <<>> /\ wire[1].act \in Acts /\ Head(wire) = wire[1]
    <3>1. wire # <<>>
      BY <1>4, Zenon DEF HandleActionEvent, Arrives
    <3> QED
      BY <1>4, <3>1, EventMoves, TakeType DEF TypeOK
  <2>2. \/ completed' = completed
        \/ wire[1].act \in actions /\ completed' = completed \cup {wire[1].act}
    BY <1>4, <2>1, Zenon DEF HandleActionEvent, Resolve
  <2>3. b = wire[1].act /\ b \in actions /\ completed' # completed
    BY <2>2
  <2>4. Moves(stack', Len(stack), {}, {<<"event", b>>})
    BY <1>4, <2>3, EventMoves
  <2> QED
    BY <2>3, <2>4 DEF Moves
<1>5. ASSUME NEW a \in Acts, StartAction(a) \/ StartWithOption(a) \/ Wait(a) \/ WaitEnds(a)
                             \/ CompletedReturns(a) \/ EventContinues(a) \/ OnCompleted(a)
      PROVE  completed' = completed
  BY <1>5, Zenon DEF StartAction, StartWithOption, Wait, WaitEnds, CompletedReturns, EventContinues,
                     actionVars, OnCompleted
<1>6. CASE HandleAnswer \/ HandleEnded \/ EndingDone \/ ListenersReturn \/ Drop \/ UNCHANGED vars
  <2>1. completed' = completed
    BY <1>6, Zenon DEF HandleAnswer, HandleEnded, EndingDone, ListenersReturn, Drop, vars,
                       actionVars
  <2> QED
    BY <2>1
<1>7. CASE ServerStep
  BY <1>7, ServerStepClient
<1> QED
  BY <1>2, <1>3, <1>4, <1>5, <1>6, <1>7, NextCases DEF CalmStep

(* What the server has of an action, and its answers on the wire.          *)
LEMMA AnswersMove ==
  ASSUME TypeOK, [Next]_vars, NEW b \in Acts
  PROVE  /\ \A p \in 1..Len(wire') : AnswerTo(wire'[p], b) =>
              \/ \E q \in 1..Len(wire) : wire'[p] = wire[q]
              \/ /\ remote[b] = "asked" /\ UNCHANGED <<answer, callState>>
                 /\ wire'[p].code = "gone" <=> remoteCall' = "ended"
         /\ remote[b] = "unknown" => remote'[b] = "unknown" \/ StartAction(b)
<1> DEFINE Old == \A p \in 1..Len(wire') : AnswerTo(wire'[p], b) =>
                    \/ \E q \in 1..Len(wire) : wire'[p] = wire[q]
                    \/ /\ remote[b] = "asked" /\ UNCHANGED <<answer, callState>>
                       /\ wire'[p].code = "gone" <=> remoteCall' = "ended"
<1>1. CASE /\ UNCHANGED <<wire, answer, callState, remoteCall, reported>>
           /\ remote' = remote \/ \E a \in Acts : StartAction(a)
  <2>1. ASSUME NEW a \in Acts, StartAction(a)
        PROVE  remote'[b] = remote[b] \/ StartAction(b)
    BY <2>1 DEF StartAction, TypeOK
  <2> QED
    BY <1>1, <2>1
<1>2. CASE Handling
  <2>1. Old
    BY <1>2, Taken
  <2> QED
    BY <1>2, <2>1, Zenon DEF Handling, serverVars
<1>3. CASE ServerStep
  <2>1. answer' = answer /\ callState' = callState
    BY <1>3, ServerStepClient
  <2>2. PICK f \in Frames :
           /\ wire' = Append(wire, f)
           /\ f.kind = "ended" => remoteCall = "live" /\ remoteCall' = "ended"
           /\ f.kind = "answer" => /\ f.code = "gone" <=> remoteCall' = "ended"
                                   /\ remote[f.act] = "asked"
           /\ f.kind = "event" => f.event \in reported'[f.act]
    BY <1>3, ServerSends
  <2>3. Old
    BY <2>1, <2>2, Sent DEF AnswerTo
  <2>4. remote[b] = "unknown" => remote'[b] = "unknown"
    <3>1. ASSUME NEW a \in Acts, NEW code \in {"ok", "gone", "failed", "refused"}, ServerAnswers(a, code)
          PROVE  remote[b] = "unknown" => remote'[b] = "unknown"
      <4>1. /\ remote' = [remote EXCEPT ![a] = IF code = "ok" THEN "running" ELSE "done"]
            /\ remote[a] = "asked"
        BY <3>1, Zenon DEF ServerAnswers
      <4> QED
        BY <4>1 DEF TypeOK
    <3>2. ASSUME NEW a \in Acts, NEW e \in Events, ServerReports(a, e)
          PROVE  remote[b] = "unknown" => remote'[b] = "unknown"
      <4>1. /\ remote' = IF e = "finished" THEN [remote EXCEPT ![a] = "done"] ELSE remote
            /\ remote[a] = "running"
        BY <3>2, Zenon DEF ServerReports
      <4> QED
        BY <4>1 DEF TypeOK
    <3>3. ServerEndsCall => remote' = remote
      BY Zenon DEF ServerEndsCall
    <3> QED
      BY <1>3, <3>1, <3>2, <3>3 DEF ServerStep
  <2> QED
    BY <2>3, <2>4
<1>4. CASE Drop
  <2>1. /\ wire' = <<>>
        /\ remote' = [a \in Acts |-> IF remote[a] = "asked" THEN "unknown" ELSE remote[a]]
    BY <1>4, Zenon DEF Drop
  <2>2. 1..Len(wire') = {}
    BY <2>1
  <2> QED
    BY <2>1, <2>2
<1> QED
  BY <1>1, <1>2, <1>3, <1>4, WireCases

LEMMA IdleOpen ==
  ASSUME TypeOK, IdleUntouched, [Next]_vars, NEW b \in Acts, status[b] = "idle"
  PROVE  b \notin completed'
<1>1. /\ b \notin actions /\ b \notin completed /\ answer[b] = "none"
      /\ \A p \in 1..Len(stack) : EndingAt(p) => b \notin stack[p][2]
  BY Zenon DEF IdleUntouched
<1>2. \A p \in 1..Len(stack) : ~Listing(p, b)
  BY <1>1, EntryShapes DEF Listing, EndingAt
<1> QED
  BY <1>1, <1>2, Completing

LEMMA IdleStep == TypeOK /\ IdleUntouched /\ [Next]_vars => IdleUntouched'
<1> SUFFICES ASSUME TypeOK, IdleUntouched, [Next]_vars,
                    NEW b \in Acts, status'[b] = "idle"
             PROVE  /\ b \notin actions' /\ b \notin completed'
                    /\ answer'[b] = "none" /\ remote'[b] = "unknown"
                    /\ \A p \in 1..Len(wire') : ~AnswerTo(wire'[p], b)
                    /\ \A p \in 1..Len(stack') : EndingAt(p)' => b \notin stack'[p][2]
  BY Zenon DEF IdleUntouched, AnswerTo, EndingAt
<1>1. status[b] = "idle"
  BY Statuses
<1>2. /\ b \notin actions /\ b \notin completed /\ answer[b] = "none" /\ remote[b] = "unknown"
      /\ \A p \in 1..Len(wire) : ~AnswerTo(wire[p], b)
      /\ \A p \in 1..Len(stack) : EndingAt(p) => b \notin stack[p][2]
  BY <1>1, Zenon DEF IdleUntouched
<1>3. ~StartAction(b) /\ ~StartWithOption(b)
  BY DEF StartAction, StartWithOption, TypeOK
<1>4. b \notin actions'
  BY <1>2, <1>3, Tables
<1>5. b \notin completed'
  BY <1>1, IdleOpen
<1>6. answer'[b] = "none"
  BY <1>1, <1>2, Answers
<1>7. remote'[b] = "unknown" /\ \A p \in 1..Len(wire') : ~AnswerTo(wire'[p], b)
  BY <1>2, <1>3, AnswersMove
<1>8. ASSUME NEW p \in 1..Len(stack'), EndingAt(p)' PROVE b \notin stack'[p][2]
  <2>0. \A S : <<"ending", S>>[2] = S /\ <<"ending", S>>[1] = "ending"
    OBVIOUS
  <2>1. CASE p \in 1..Len(stack) /\ stack'[p] = stack[p]
    BY <1>2, <1>8, <2>1, Zenon DEF EndingAt
  <2>2. CASE stack'[p] = <<"ending", actions>>
    BY <1>2, <2>0, <2>2
  <2>3. ASSUME NEW a \in Acts, Listing(p, a) PROVE b \notin stack'[p][2]
    <3>1. EndingAt(p) /\ stack'[p] = <<"ending", stack[p][2] \ {a}>> /\ p \in 1..Len(stack)
      BY <2>0, <2>3 DEF Listing, EndingAt
    <3>2. stack'[p][2] = stack[p][2] \ {a}
      BY <2>0, <3>1
    <3> QED
      BY <1>2, <3>1, <3>2
  <2> QED
    BY <1>8, <2>1, <2>2, <2>3, EndingsMove
<1> QED
  BY <1>4, <1>5, <1>6, <1>7, <1>8

LEMMA CallStates ==
  ASSUME TypeOK, WireTruthful, [Next]_vars
  PROVE  \/ callState' = callState /\ ~HandleEnded
         \/ HandleEnded /\ callState = "live" /\ callState' = "ended"
<1>1. CASE HandleEnded
  <2>1. wire # <<>> /\ Head(wire).kind = "ended" /\ callState' = "ended"
    BY <1>1, Zenon DEF HandleEnded, Arrives
  <2>2. wire[1] = Head(wire) /\ 1 \in 1..Len(wire)
    BY <2>1, TakeType, EmptySeq, LenProperties DEF TypeOK
  <2> QED
    BY <1>1, <2>1, <2>2 DEF WireTruthful
<1>2. ASSUME NEW a \in Acts, StartEnds(a) \/ EventContinues(a) \/ ResolveNext(a) \/ StartAction(a)
                \/ OnCompleted(a) \/ Wait(a) \/ WaitEnds(a) \/ CompletedReturns(a) \/ StartWithOption(a)
      PROVE  callState' = callState
  BY <1>2, Zenon DEF OnCompleted, StartAction, StartWithOption, Wait, WaitEnds, CompletedReturns,
     EventContinues, StartEnds, StartReturns, StartGone, StartRaises, StartDies, Leave, ResolveNext,
     callVars
<1>3. CASE HandleAnswer \/ HandleActionEvent \/ EndingDone \/ ListenersReturn \/ Drop \/ UNCHANGED vars
  BY <1>1, <1>3, Zenon DEF HandleAnswer, HandleActionEvent, EndingDone, ListenersReturn, Drop, vars,
                     callVars
<1>4. CASE ServerStep
  BY <1>1, <1>4, ServerStepClient, Zenon
<1> QED
  BY <1>1, <1>2, <1>3, <1>4, NextCases, Zenon DEF CalmStep

LEMMA EndingOnceStep == TypeOK /\ WireTruthful /\ EndingOnce /\ [Next]_vars => EndingOnce'
<1> SUFFICES ASSUME TypeOK, WireTruthful, EndingOnce, [Next]_vars,
                    NEW p, EndingAt(p)', NEW q
             PROVE  callState' = "ended" /\ (EndingAt(q)' => p = q)
  BY Zenon DEF EndingOnce, EndingAt
<1>0. \A r : EndingAt(r) => r \in 1..Len(stack)
  BY DEF EndingAt
<1>1. CASE HandleEnded
  <2>1. callState = "live" /\ callState' = "ended"
    BY <1>1, CallStates
  <2>2. \A r : ~EndingAt(r)
    BY <1>0, <2>1 DEF EndingOnce
  <2>3. \A r : EndingAt(r)' /\ r \in 1..Len(stack) /\ stack'[r] = stack[r] => EndingAt(r)
    BY Zenon DEF EndingAt
  <2>4. \A r, a : Listing(r, a) => EndingAt(r)
    BY EntryShapes DEF Listing, EndingAt
  <2>5. \A r : EndingAt(r)' => r = Len(stack) + 1
    BY <2>2, <2>3, <2>4, EndingsMove
  <2> QED
    BY <2>1, <2>5
<1>2. CASE callState' = callState /\ ~HandleEnded
  <2>1. \A r : EndingAt(r)' /\ r \in 1..Len(stack) /\ stack'[r] = stack[r] => EndingAt(r)
    BY Zenon DEF EndingAt
  <2>2. \A r, a : Listing(r, a) => EndingAt(r)
    BY EntryShapes DEF Listing, EndingAt
  <2>3. \A r : EndingAt(r)' => EndingAt(r) /\ r \in 1..Len(stack)
    BY <1>0, <1>2, <2>1, <2>2, EndingsMove
  <2> QED
    BY <1>2, <2>3 DEF EndingOnce
<1> QED
  BY <1>1, <1>2, CallStates

LEMMA OpenStep ==
  TypeOK /\ StartsRun /\ OpenListed /\ EndingOnce /\ EndedStarts /\ EndedReturned /\ FiredOnce
    /\ [Next]_vars => OpenListed'
<1> SUFFICES ASSUME TypeOK, StartsRun, OpenListed, EndingOnce, EndedStarts, EndedReturned, FiredOnce,
                    [Next]_vars,
                    NEW b \in Acts, status'[b] \in {"waiting", "returned"}, b \notin completed'
             PROVE  b \in actions'
  BY Zenon DEF OpenListed
<1>1. b \notin completed
  BY FiredStep
<1>2. CASE StartAction(b)
  BY <1>2 DEF StartAction
<1>3. CASE status[b] \in {"waiting", "returned"}
  <2>1. b \in actions
    BY <1>1, <1>3 DEF OpenListed
  <2>2. ASSUME NEW a \in Acts, actions' = actions \ {a}, StartRaises(a) PROVE b \in actions'
    <3>1. status' = [status EXCEPT ![a] = "raised"]
      BY <2>2, Zenon DEF StartRaises, Leave
    <3>2. a # b
      BY <3>1 DEF TypeOK
    <3> QED
      BY <2>1, <2>2, <3>2
  <2>3. ~EndingDone
    <3> SUFFICES ASSUME EndingDone PROVE FALSE
      OBVIOUS
    <3> DEFINE n == Len(stack)
    <3>1. stack # <<>> /\ stack[n] = <<"ending", {}>>
      BY EntryKinds, TopEntry DEF EndingDone
    <3>2. n \in 1..n /\ n \in Nat
      BY <3>1, EmptySeq, LenProperties DEF TypeOK
    <3>3. EndingAt(n) /\ stack[n][2] = {}
      BY <3>1, <3>2, EntryShapes DEF EndingAt
    <3> HIDE DEF n
    <3>4. callState = "ended" /\ \A p \in 1..n : EndingAt(p) => p = n
      BY <3>2, <3>3 DEF EndingOnce, n
    <3>5. \A p \in 1..n : ~OnList(b, p)
      BY <3>3, <3>4 DEF OnList
    <3>6. CASE status[b] = "returned"
      BY <1>1, <3>4, <3>5, <3>6 DEF EndedReturned, n
    <3>7. CASE status[b] = "waiting"
      <4>1. PICK q \in 1..n : stack[q] = <<"start", b>>
        BY <3>7 DEF StartsRun, OnStack, n
      <4>2. \A p \in 1..n : EndingAt(p) => p < q
        BY <1>1, <3>4, <3>5, <4>1 DEF EndedStarts, n
      <4> QED
        BY <3>2, <3>3, <4>1, <4>2
    <3> QED
      BY <1>3, <3>6, <3>7
  <2> QED
    BY <1>1, <2>1, <2>2, <2>3, Tables
<1>4. ASSUME StartEnds(b) PROVE status[b] = "waiting"
  <2>1. TopIs(<<"start", b>>)
    BY <1>4, Zenon DEF StartEnds, StartReturns, StartGone, StartRaises, StartDies
  <2>2. stack # <<>> /\ stack[Len(stack)] = <<"start", b>>
    BY <2>1, EntryKinds, TopEntry
  <2>3. Len(stack) \in 1..Len(stack)
    BY <2>2, EmptySeq, LenProperties DEF TypeOK
  <2> QED
    BY <2>2, <2>3 DEF StartsRun, OnStack
<1> QED
  BY <1>2, <1>3, <1>4, Statuses

(* The dispatch of an event stays on the stack until it continues.         *)
LEMMA EventsKept ==
  ASSUME TypeOK, [Next]_vars, NEW b \in Acts, NEW p \in 1..Len(stack), stack[p] = <<"event", b>>
  PROVE  (p \in 1..Len(stack') /\ stack'[p] = stack[p]) \/ EventContinues(b)
<1> DEFINE Kept == p \in 1..Len(stack') /\ stack'[p] = stack[p]
<1>0. stack[p][1] = "event"
  BY EntryShapes
<1>1. ASSUME NEW k, NEW old, NEW new, Moves(stack', k, old, new), \A e \in old : e[1] # "event"
      PROVE  Kept
  <2>1. p \in Nat /\ p <= k /\ 1 <= p /\ k \in Nat
    BY <1>0, <1>1 DEF Moves
  <2>2. p \in 1..k
    BY <2>1
  <2> QED
    BY <1>1, <2>2 DEF Moves
<1>2. CASE CalmStep
  <2>1. PICK k, old : Moves(stack', k, old, {}) /\ \A e \in old : Plain(e)
    BY <1>2, CalmMoves
  <2>2. \A e \in old : e[1] # "event"
    BY <2>1 DEF Plain
  <2> QED
    BY <1>1, <2>1, <2>2
<1>3. ASSUME NEW a \in Acts, StartAction(a) \/ StartEnds(a) PROVE Kept
  <2>1. \/ Moves(stack', Len(stack), {}, {<<"start", a>>})
        \/ Moves(stack', Len(stack) - 1, {<<"start", a>>}, {})
    BY <1>3, StartMoves
  <2>2. \A e \in {<<"start", a>>} : e[1] # "event"
    OBVIOUS
  <2> QED
    BY <1>1, <2>1, <2>2
<1>4. ASSUME NEW a \in Acts, EventContinues(a) PROVE Kept \/ EventContinues(b)
  <2>1. Moves(stack', Len(stack) - 1, {<<"event", a>>}, {<<"listeners">>})
    BY <1>4, EventMoves
  <2>2. a = b \/ stack[p] \notin {<<"event", a>>}
    BY StartParts
  <2>3. a = b \/ (p \in Nat /\ p <= Len(stack) - 1 /\ 1 <= p /\ Len(stack) - 1 \in Nat)
    BY <2>1, <2>2 DEF Moves
  <2>4. a = b \/ p \in 1..(Len(stack) - 1)
    BY <2>3
  <2> QED
    BY <1>4, <2>1, <2>4 DEF Moves
<1>5. ASSUME NEW a \in Acts, ResolveNext(a) PROVE Kept
  <2>1. PICK S : Moves(stack', Len(stack) - 1, {<<"ending", S>>}, {<<"ending", S \ {a}>>})
    BY <1>5, EndingMoves
  <2>2. \A e \in {<<"ending", S>>} : e[1] # "event"
    OBVIOUS
  <2> QED
    BY <1>1, <2>1, <2>2
<1>6. CASE HandleActionEvent
  BY <1>1, <1>6, EventMoves
<1>7. CASE HandleEnded \/ EndingDone \/ ListenersReturn
  <2>1. \A e \in {<<"ending", {}>>, <<"listeners">>} : e[1] # "event"
    OBVIOUS
  <2> QED
    BY <1>1, <1>7, <2>1, EndingMoves
<1> QED
  BY <1>2, <1>3, <1>4, <1>5, <1>6, <1>7, NextCases

LEMMA DoneStep ==
  TypeOK /\ IdleUntouched /\ DoneLeave /\ [Next]_vars => DoneLeave'
<1> SUFFICES ASSUME TypeOK, IdleUntouched, DoneLeave, [Next]_vars,
                    NEW b, b \in actions', b \in completed'
             PROVE  \/ answer'[b] = "gone" /\ status'[b] # "waiting"
                    \/ \E p \in 1..Len(stack') : stack'[p][1] = "ending"
                    \/ \E p \in 1..Len(stack') : stack'[p] = <<"event", b>>
  BY Zenon DEF DoneLeave, Ending, OnStack
<1>0. b \in Acts
  BY Tables DEF TypeOK
<1>1. status[b] # "idle"
  BY <1>0, IdleOpen
<1>2. ~StartAction(b) /\ ~StartWithOption(b)
  BY <1>1 DEF StartAction, StartWithOption
<1>3. b \in actions
  BY <1>0, <1>2, Tables
<1>4. ASSUME NEW p, NEW a, Listing(p, a)
      PROVE  \E q \in 1..Len(stack') : stack'[q][1] = "ending"
  BY <1>4, EntryShapes DEF Listing
<1>5. CASE b \notin completed
  <2>1. CASE answer[b] = "gone" /\ StartGone(b)
    <3>1. answer' = answer /\ status' = [status EXCEPT ![b] = "returned"]
      BY <2>1, Zenon DEF StartGone, Leave
    <3>2. status'[b] = "returned"
      BY <1>0, <3>1 DEF TypeOK
    <3> QED
      BY <2>1, <3>1, <3>2
  <2> QED
    BY <1>0, <1>4, <1>5, <2>1, Completing
<1>6. CASE b \in completed
  <2>1. CASE answer[b] = "gone" /\ status[b] # "waiting"
    <3>1. answer'[b] = answer[b]
      BY <1>0, <2>1, Answers
    <3>2. status'[b] # "waiting"
      BY <1>0, <1>2, <2>1, Statuses
    <3> QED
      BY <2>1, <3>1, <3>2
  <2>2. ASSUME NEW p \in 1..Len(stack), stack[p][1] = "ending"
        PROVE  \E q \in 1..Len(stack') : stack'[q][1] = "ending"
    <3>1. EndingAt(p)
      BY <2>2, Zenon DEF EndingAt
    <3>2. CASE EndingDone
      BY <1>3, <3>2 DEF EndingDone
    <3>3. CASE p \in 1..Len(stack') /\ stack'[p] = stack[p]
      BY <2>2, <3>3
    <3> QED
      BY <1>4, <3>1, <3>2, <3>3, EndingsMove
  <2>3. ASSUME NEW p \in 1..Len(stack), stack[p] = <<"event", b>>
        PROVE  \E q \in 1..Len(stack') : stack'[q] = <<"event", b>>
    <3>1. ~EventContinues(b)
      BY <1>6 DEF EventContinues
    <3> QED
      BY <1>0, <2>3, <3>1, EventsKept
  <2> QED
    BY <1>0, <1>3, <1>6, <2>1, <2>2, <2>3 DEF DoneLeave, Ending, OnStack
<1> QED
  BY <1>5, <1>6

-----------------------------------------------------------------------------
(* After the end of the call.                                              *)

(* What is on the list of the end is completed from it.                    *)
LEMMA ListedKept ==
  ASSUME TypeOK, FiredOnce, [Next]_vars, NEW a \in Acts, NEW p, OnList(a, p)
  PROVE  a \in completed' \/ OnList(a, p)'
<1>0. \A S : <<"ending", S>>[2] = S /\ <<"ending", S>>[1] = "ending"
  OBVIOUS
<1>1. EndingAt(p) /\ a \in stack[p][2]
  BY Zenon DEF OnList
<1>2. CASE p \in 1..Len(stack') /\ stack'[p] = stack[p]
  BY <1>1, <1>2, Zenon DEF OnList, EndingAt
<1>3. CASE EndingDone /\ stack[p] = <<"ending", {}>>
  BY <1>0, <1>1, <1>3
<1>4. ASSUME NEW b \in Acts, Listing(p, b) PROVE a \in completed' \/ OnList(a, p)'
  <2>1. /\ ResolveNext(b) /\ p \in 1..Len(stack')
        /\ stack'[p] = <<"ending", stack[p][2] \ {b}>>
    BY <1>4, Zenon DEF Listing
  <2>2. completed' = completed \cup {b}
    BY <2>1, Zenon DEF ResolveNext, Resolve
  <2>3. stack'[p][1] = "ending" /\ stack'[p][2] = stack[p][2] \ {b}
    BY <1>0, <2>1
  <2>4. a # b => OnList(a, p)'
    BY <1>1, <2>1, <2>3 DEF OnList, EndingAt
  <2> QED
    BY <2>2, <2>4
<1> QED
  BY <1>1, <1>2, <1>3, <1>4, EndingsMove

(* An action that can only be told that the call is gone stays so.         *)
LEMMA ToldKept ==
  ASSUME TypeOK, WireTruthful, [Next]_vars, callState = "ended", NEW a \in Acts, ToldGone(a)
  PROVE  ToldGone(a)'
<1>0. remoteCall' = "ended"
  BY ServerGrows DEF WireTruthful
<1>1. answer'[a] \in {"none", "gone"}
  <2>1. CASE answer'[a] = answer[a]
    BY <2>1 DEF ToldGone
  <2>2. CASE wire # <<>> /\ AnswerTo(wire[1], a) /\ answer'[a] = wire[1].code
    <3>1. 1 \in 1..Len(wire)
      BY <2>2, EmptySeq, LenProperties DEF TypeOK
    <3> QED
      BY <2>2, <3>1 DEF ToldGone
  <2> QED
    BY <2>1, <2>2, Answers
<1>2. ASSUME NEW p \in 1..Len(wire'), AnswerTo(wire'[p], a) PROVE wire'[p].code = "gone"
  BY <1>0, <1>2, AnswersMove DEF ToldGone
<1> QED
  BY <1>1, <1>2, Zenon DEF ToldGone, AnswerTo

(* What the end finds: an action of the table is on its list.              *)
LEMMA EndLists ==
  ASSUME TypeOK, HandleEnded, [Next]_vars, NEW a \in actions
  PROVE  \E n \in Nat : n = Len(stack) + 1 /\ n \in 1..Len(stack') /\ OnList(a, n)'
<1>1. PICK n \in Nat : n = Len(stack) + 1
  BY LenProperties DEF TypeOK
<1>2. n \in 1..Len(stack') /\ stack'[n] = <<"ending", actions>>
  BY <1>1, EndingsMove
<1>3. <<"ending", actions>>[1] = "ending" /\ <<"ending", actions>>[2] = actions
  OBVIOUS
<1>4. stack'[n][1] = "ending" /\ a \in stack'[n][2]
  BY <1>2, <1>3
<1>5. OnList(a, n)'
  BY <1>2, <1>4, Zenon DEF OnList, EndingAt
<1> QED
  BY <1>1, <1>2, <1>5

(* Starts come from the application and leave when they end.               *)
LEMMA StartsMove ==
  ASSUME TypeOK, [Next]_vars, NEW a \in Acts, NEW q \in 1..Len(stack'), stack'[q] = <<"start", a>>
  PROVE  \/ q \in 1..Len(stack) /\ stack[q] = <<"start", a>>
         \/ StartAction(a) /\ q = Len(stack) + 1 /\ Len(stack) \in Nat
<1>0. /\ <<"start", a>>[1] = "start" /\ ~Plain(stack'[q])
      /\ Len(stack) \in Nat
  BY LenProperties DEF Plain, TypeOK
<1>1. ASSUME NEW k, NEW old, NEW new, Moves(stack', k, old, new), <<"start", a>> \notin new
      PROVE  q \in 1..Len(stack) /\ stack[q] = <<"start", a>>
  <2>1. q \in Nat /\ q <= k /\ 1 <= q /\ k \in Nat
    BY <1>0, <1>1 DEF Moves
  <2>2. q \in 1..k
    BY <2>1
  <2> QED
    BY <1>1, <2>2 DEF Moves
<1>2. ASSUME NEW b \in Acts, StartAction(b)
      PROVE  \/ q \in 1..Len(stack) /\ stack[q] = <<"start", a>>
             \/ StartAction(a) /\ q = Len(stack) + 1
  <2>1. Moves(stack', Len(stack), {}, {<<"start", b>>})
    BY <1>2, StartMoves
  <2>2. CASE a = b
    <3>1. q \in Nat /\ (q <= Len(stack) \/ q = Len(stack) + 1)
      BY <1>0, <2>1 DEF Moves
    <3>2. q \in 1..Len(stack) \/ q = Len(stack) + 1
      BY <1>0, <3>1
    <3> QED
      BY <1>2, <2>1, <2>2, <3>2 DEF Moves
  <2>3. CASE a # b
    <3>1. <<"start", a>> \notin {<<"start", b>>}
      BY <2>3
    <3> QED
      BY <1>1, <2>1, <3>1
  <2> QED
    BY <2>2, <2>3
<1>3. ASSUME NEW b \in Acts, StartEnds(b)
      PROVE  q \in 1..Len(stack) /\ stack[q] = <<"start", a>>
  BY <1>1, <1>3, StartMoves
<1>4. CASE \E k, old, new : /\ Moves(stack', k, old, new)
                            /\ \A e \in old : e[1] # "start"
                            /\ \A e \in new : e[1] # "start"
  BY <1>0, <1>1, <1>4
<1> QED
  BY <1>0, <1>2, <1>3, <1>4, StartCases

LEMMA EndedStartsStep ==
  TypeOK /\ FiredOnce /\ StartsRun /\ IdleUntouched /\ OpenListed /\ WireTruthful /\ EndedStarts
    /\ [Next]_vars => EndedStarts'
<1> SUFFICES ASSUME TypeOK, FiredOnce, StartsRun, IdleUntouched, OpenListed, WireTruthful, EndedStarts,
                    [Next]_vars, callState' = "ended",
                    NEW a \in Acts, NEW q \in 1..Len(stack'), stack'[q] = <<"start", a>>
             PROVE  \/ a \in completed'
                    \/ \E p \in 1..Len(stack') : p > q /\ OnList(a, p)'
                    \/ ToldGone(a)' /\ \A p \in 1..Len(stack') : EndingAt(p)' => p < q
  BY Zenon DEF EndedStarts, OnList, EndingAt
<1>0. /\ completed \subseteq completed' /\ Len(stack) \in Nat
      /\ \A p, b : OnList(b, p)' => p \in 1..Len(stack')
      /\ \A p : EndingAt(p) => p \in 1..Len(stack)
      /\ \A p : EndingAt(p)' /\ ~HandleEnded => EndingAt(p)
  <2>1. \A r : EndingAt(r)' /\ r \in 1..Len(stack) /\ stack'[r] = stack[r] => EndingAt(r)
    BY Zenon DEF EndingAt
  <2>2. \A r, b : Listing(r, b) => EndingAt(r)
    BY EntryShapes DEF Listing, EndingAt
  <2>3. \A p : EndingAt(p)' /\ ~HandleEnded => EndingAt(p)
    BY <2>1, <2>2, EndingsMove
  <2>4. \A p, b : OnList(b, p)' => p \in 1..Len(stack')
    BY DEF OnList, EndingAt
  <2> QED
    BY <2>3, <2>4, FiredStep, LenProperties DEF EndingAt, TypeOK
<1>1. CASE q \in 1..Len(stack) /\ stack[q] = <<"start", a>>
  <2>1. CASE HandleEnded
    <3>1. status[a] = "waiting"
      BY <1>1 DEF StartsRun, OnStack
    <3>2. a \in completed \/ a \in actions
      BY <3>1 DEF OpenListed
    <3>3. a \in actions => \E n \in Nat : n = Len(stack) + 1 /\ n \in 1..Len(stack') /\ OnList(a, n)'
      BY <2>1, EndLists
    <3>4. \A n \in Nat : n = Len(stack) + 1 => n > q
      BY <1>0, <1>1
    <3> QED
      BY <1>0, <3>2, <3>3, <3>4
  <2>2. CASE callState = "ended" /\ ~HandleEnded
    <3>1. \/ a \in completed
          \/ \E p \in 1..Len(stack) : p > q /\ OnList(a, p)
          \/ ToldGone(a) /\ \A p \in 1..Len(stack) : EndingAt(p) => p < q
      BY <1>1, <2>2, Zenon DEF EndedStarts
    <3>2. ASSUME NEW p \in 1..Len(stack), p > q, OnList(a, p)
          PROVE  a \in completed' \/ \E r \in 1..Len(stack') : r > q /\ OnList(a, r)'
      <4>1. a \in completed' \/ OnList(a, p)'
        BY <3>2, ListedKept
      <4> QED
        BY <1>0, <3>2, <4>1
    <3>3. ASSUME ToldGone(a), \A p \in 1..Len(stack) : EndingAt(p) => p < q
          PROVE  ToldGone(a)' /\ \A p \in 1..Len(stack') : EndingAt(p)' => p < q
      BY <1>0, <2>2, <3>3, ToldKept
    <3> QED
      BY <1>0, <3>1, <3>2, <3>3
  <2> QED
    BY <2>1, <2>2, CallStates
<1>2. CASE StartAction(a) /\ q = Len(stack) + 1
  <2>1. /\ status[a] = "idle" /\ answer' = answer /\ wire' = wire /\ callState' = callState
    BY <1>2, Zenon DEF StartAction, callVars
  <2>2. answer[a] = "none" /\ \A p \in 1..Len(wire) : ~AnswerTo(wire[p], a)
    BY <2>1, Zenon DEF IdleUntouched
  <2>3. ToldGone(a)'
    BY <2>1, <2>2 DEF ToldGone, AnswerTo
  <2>4. ~HandleEnded
    BY <2>1, CallStates
  <2>5. \A p \in 1..Len(stack) : p < q
    BY <1>0, <1>2
  <2> QED
    BY <1>0, <2>3, <2>4, <2>5
<1> QED
  BY <1>1, <1>2, StartsMove

LEMMA EndedReturnedStep ==
  TypeOK /\ FiredOnce /\ OpenListed /\ WireTruthful /\ EndedStarts /\ EndedReturned
    /\ [Next]_vars => EndedReturned'
<1> SUFFICES ASSUME TypeOK, FiredOnce, OpenListed, WireTruthful, EndedStarts, EndedReturned,
                    [Next]_vars, callState' = "ended", NEW a \in Acts, status'[a] = "returned"
             PROVE  a \in completed' \/ \E p \in 1..Len(stack') : OnList(a, p)'
  BY Zenon DEF EndedReturned, OnList, EndingAt
<1>0. /\ completed \subseteq completed'
      /\ \A p : OnList(a, p)' => p \in 1..Len(stack')
  BY FiredStep DEF OnList, EndingAt
<1>1. CASE HandleEnded
  <2>1. status[a] = "returned"
    BY <1>1, Zenon DEF HandleEnded, actionVars
  <2>2. a \in completed \/ a \in actions
    BY <2>1 DEF OpenListed
  <2> QED
    BY <1>0, <1>1, <2>2, EndLists
<1>2. CASE callState = "ended" /\ status[a] = "returned"
  BY <1>0, <1>2, ListedKept DEF EndedReturned
<1>3. CASE callState = "ended" /\ StartEnds(a)
  <2>1. CASE StartGone(a)
    BY <2>1 DEF StartGone, Resolve
  <2>2. CASE StartReturns(a)
    <3>1. TopIs(<<"start", a>>) /\ answer[a] \in {"ok", "failed"}
      BY <2>2, Zenon DEF StartReturns
    <3>2. stack # <<>> /\ stack[Len(stack)] = <<"start", a>>
      BY <3>1, EntryKinds, TopEntry
    <3>3. Len(stack) \in 1..Len(stack) /\ \A p \in 1..Len(stack) : ~(p > Len(stack))
      BY <3>2, EmptySeq, LenProperties DEF TypeOK
    <3>4. ~ToldGone(a)
      BY <3>1 DEF ToldGone
    <3>5. a \in completed
      BY <1>3, <3>2, <3>3, <3>4, Zenon DEF EndedStarts
    <3> QED
      BY <1>0, <3>5
  <2>3. CASE StartRaises(a) \/ StartDies(a)
    <3>1. status' = [status EXCEPT ![a] = "raised"] \/ status' = [status EXCEPT ![a] = "died"]
      BY <2>3, Zenon DEF StartRaises, StartDies, Leave
    <3>2. status'[a] # "returned"
      BY <3>1 DEF TypeOK
    <3> QED
      BY <3>2
  <2> QED
    BY <1>3, <2>1, <2>2, <2>3 DEF StartEnds
<1> QED
  BY <1>1, <1>2, <1>3, CallStates, Statuses

LEMMA RegisteredStep ==
  ASSUME TypeOK, [Next]_vars, registered'
  PROVE  registered /\ (ListenersReturn => callState # "ended")
<1>1. ListenersReturn => registered /\ callState # "ended"
  BY DEF ListenersReturn
<1>2. ASSUME NEW a \in Acts, StartEnds(a) \/ EventContinues(a) \/ ResolveNext(a) \/ StartAction(a)
                \/ OnCompleted(a) \/ Wait(a) \/ WaitEnds(a) \/ CompletedReturns(a) \/ StartWithOption(a)
      PROVE  registered
  BY <1>2, Zenon DEF OnCompleted, StartAction, StartWithOption, Wait, WaitEnds, CompletedReturns,
     EventContinues, StartEnds, StartReturns, StartGone, StartRaises, StartDies, Leave, ResolveNext,
     callVars
<1>3. CASE HandleAnswer \/ HandleActionEvent \/ HandleEnded \/ EndingDone \/ Drop \/ UNCHANGED vars
  <2>1. registered
    BY <1>3, Zenon DEF HandleAnswer, HandleActionEvent, HandleEnded, EndingDone, Drop, vars, callVars
  <2> QED
    BY <1>1, <2>1
<1>4. CASE ServerStep
  BY <1>1, <1>4, ServerStepClient
<1> QED
  BY <1>1, <1>2, <1>3, <1>4, NextCases, Zenon DEF CalmStep

(* A dispatch goes on, in one shape or another, until its listeners return.*)
LEMMA DispatchKept ==
  ASSUME TypeOK, [Next]_vars, NEW p \in 1..Len(stack),
         stack[p][1] \in {"ending", "event", "listeners"}
  PROVE  \/ \E q \in 1..Len(stack') : stack'[q][1] \in {"ending", "event", "listeners"}
         \/ ListenersReturn
<1> DEFINE D == {"ending", "event", "listeners"}
           Kept == \E q \in 1..Len(stack') : stack'[q][1] \in D
<1>1. ASSUME NEW k, NEW old, NEW new, Moves(stack', k, old, new), \A e \in old : e[1] \notin D
      PROVE  Kept
  <2>1. p \in Nat /\ p <= k /\ 1 <= p /\ k \in Nat
    BY <1>1 DEF Moves
  <2>2. p \in 1..k
    BY <2>1
  <2>3. p \in 1..Len(stack') /\ stack'[p] = stack[p]
    BY <1>1, <2>2 DEF Moves
  <2> QED
    BY <2>3
<1>2. ASSUME NEW k, NEW old, NEW e, Moves(stack', k, old, {e}), e[1] \in D
      PROVE  Kept
  <2>1. k + 1 \in 1..Len(stack') /\ stack'[k + 1] = e
    BY <1>2 DEF Moves
  <2> QED
    BY <1>2, <2>1
<1>3. ASSUME CalmStep PROVE Kept
  <2>1. PICK k, old : Moves(stack', k, old, {}) /\ \A e \in old : Plain(e)
    BY <1>3, CalmMoves
  <2>2. \A e \in old : e[1] \notin D
    BY <2>1 DEF Plain
  <2> HIDE DEF Kept
  <2> QED
    BY <1>1, <2>1, <2>2
<1>4. ASSUME NEW a \in Acts, StartAction(a) \/ StartEnds(a) PROVE Kept
  <2>1. \/ Moves(stack', Len(stack), {}, {<<"start", a>>})
        \/ Moves(stack', Len(stack) - 1, {<<"start", a>>}, {})
    BY <1>4, StartMoves
  <2>2. \A e \in {<<"start", a>>} : e[1] \notin D
    OBVIOUS
  <2> HIDE DEF Kept
  <2> QED
    BY <1>1, <2>1, <2>2
<1>5. ASSUME NEW a \in Acts, EventContinues(a) PROVE Kept
  <2>1. Moves(stack', Len(stack) - 1, {<<"event", a>>}, {<<"listeners">>})
    BY <1>5, EventMoves
  <2>2. <<"listeners">>[1] \in D
    OBVIOUS
  <2> HIDE DEF Kept, D
  <2> QED
    BY <1>2, <2>1, <2>2
<1>6. ASSUME NEW a \in Acts, ResolveNext(a) PROVE Kept
  <2>1. PICK S : Moves(stack', Len(stack) - 1, {<<"ending", S>>}, {<<"ending", S \ {a}>>})
    BY <1>6, EndingMoves
  <2>2. <<"ending", S \ {a}>>[1] \in D
    OBVIOUS
  <2> HIDE DEF Kept, D
  <2> QED
    BY <1>2, <2>1, <2>2
<1>7. ASSUME HandleActionEvent \/ HandleEnded PROVE Kept
  <2>1. stack' = stack \/ \E new : Moves(stack', Len(stack), {}, new)
    BY <1>7, EventMoves, EndingMoves
  <2>2. stack' = stack => Kept
    OBVIOUS
  <2> HIDE DEF Kept
  <2> QED
    BY <1>1, <2>1, <2>2
<1>8. ASSUME EndingDone PROVE Kept
  <2>1. Moves(stack', Len(stack) - 1, {<<"ending", {}>>}, {<<"listeners">>})
    BY <1>8, EndingMoves
  <2>2. <<"listeners">>[1] \in D
    OBVIOUS
  <2> HIDE DEF Kept, D
  <2> QED
    BY <1>2, <2>1, <2>2
<1> HIDE DEF Kept
<1>9. Kept \/ ListenersReturn
  BY <1>3, <1>4, <1>5, <1>6, <1>7, <1>8, NextCases
<1> QED
  BY <1>9 DEF Kept

LEMMA EndedDispatchStep ==
  TypeOK /\ WireTruthful /\ EndedDispatch /\ [Next]_vars => EndedDispatch'
<1> SUFFICES ASSUME TypeOK, WireTruthful, EndedDispatch, [Next]_vars,
                    callState' = "ended", registered'
             PROVE  \E p \in 1..Len(stack') : stack'[p][1] \in {"ending", "event", "listeners"}
  BY Zenon DEF EndedDispatch
<1>1. registered /\ (ListenersReturn => callState # "ended")
  BY RegisteredStep
<1>2. CASE HandleEnded
  <2>1. Len(stack) + 1 \in 1..Len(stack') /\ stack'[Len(stack) + 1] = <<"ending", actions>>
    BY <1>2, EndingsMove
  <2>2. <<"ending", actions>>[1] = "ending"
    OBVIOUS
  <2> QED
    BY <2>1, <2>2
<1>3. CASE callState = "ended"
  BY <1>1, <1>3, DispatchKept DEF EndedDispatch
<1> QED
  BY <1>2, <1>3, CallStates

LEMMA ActionsStep == ActionsInv /\ [Next]_vars => ActionsInv'
<1> SUFFICES ASSUME ActionsInv, [Next]_vars PROVE ActionsInv'
  OBVIOUS
<1>0. /\ TypeOK /\ FiredOnce /\ ResultTruthful
      /\ StartsRun /\ IdleUntouched /\ OpenListed /\ DoneLeave /\ WireTruthful
      /\ EndingOnce /\ EndedStarts /\ EndedReturned /\ EndedDispatch
  BY Zenon DEF ActionsInv
<1>1. TypeOK' /\ FiredOnce' /\ ResultTruthful'
  BY <1>0, TypeStep, FiredStep, ResultStep
<1>2. StartsRun' /\ IdleUntouched' /\ OpenListed' /\ DoneLeave' /\ WireTruthful'
  BY <1>0, StartsStep, IdleStep, OpenStep, DoneStep, WireStep
<1>3. EndingOnce' /\ EndedStarts' /\ EndedReturned' /\ EndedDispatch'
  BY <1>0, EndingOnceStep, EndedStartsStep, EndedReturnedStep, EndedDispatchStep
<1> QED
  BY <1>1, <1>2, <1>3, Zenon DEF ActionsInv

-----------------------------------------------------------------------------
(* The invariant holds in every state the call can reach.                  *)
THEOREM ActionsCorrect == Spec => []ActionsInv
<1> QED
  BY ActionsInit, ActionsStep, PTL DEF Spec

(* An action the application holds and that is not completed is in the     *)
(* call's table, completed ones leave it with the dispatch that completed  *)
(* them, and after the end of the call none is left open.  (CallInv)       *)
THEOREM ActionsTracked == Spec => []CallInv
<1>1. ActionsInv => CallInv
  <2> SUFFICES ASSUME ActionsInv PROVE CallInv
    OBVIOUS
  <2>0. /\ TypeOK /\ OpenListed /\ DoneLeave /\ EndedReturned /\ EndedDispatch
    BY Zenon DEF ActionsInv
  <2>1. TableHoldsOpenActions
    BY <2>0 DEF OpenListed, DoneLeave, TableHoldsOpenActions
  <2>2. EndedCallHasNoOpenAction
    BY <2>0 DEF EndedReturned, EndedDispatch, EndedCallHasNoOpenAction, OnList, EndingAt, Ending
  <2> QED
    BY <2>0, <2>1, <2>2 DEF CallInv
<1> QED
  BY <1>1, ActionsCorrect, PTL

(* on_completed fires exactly once for every action that is completed and  *)
(* has a callback, whatever completes it and however callbacks nest.       *)
THEOREM CallbackFiresOnce == Spec => []FiredOnce
<1>1. ActionsInv => FiredOnce
  BY Zenon DEF ActionsInv
<1> QED
  BY <1>1, ActionsCorrect, PTL

(* A completed action's result is an event the server reported for it, or  *)
(* undef when the call is over.                                            *)
THEOREM ResultsTruthful == Spec => []ResultTruthful
<1>1. ActionsInv => ResultTruthful
  BY Zenon DEF ActionsInv
<1> QED
  BY <1>1, ActionsCorrect, PTL
=============================================================================
