--------------------------- MODULE RestPagination ---------------------------
(***************************************************************************)
(* SignalWire::REST::Pagination::PaginatedIterator over RestRequest: items *)
(* are taken one by one, and pages fetched when the items run out.  A      *)
(* fetch is a GET that may die after its retries; the application may then *)
(* ask the same iterator again.  In between it makes other requests.       *)
(***************************************************************************)
EXTENDS RestRequest, Sequences, FiniteSets

CONSTANTS Pages,      \* number of pages the server has; page 1 is the first
          MaxItems    \* bound: items on a page

ASSUME SomePages == Pages \in Nat \ {0} /\ MaxItems \in Nat

VARIABLES
  book,      \* the server's pages: how many items, and the page next links to
             \* (0 for none)
  caller,    \* who waits for the request: "none", "app", "next"
  items,     \* $self->{_items}, as <<page, position>>
  index,     \* $self->{_index}
  done,      \* $self->{_done}
  seen,      \* $self->{_seen_next}
  cursor,    \* $self->params: the page they ask for
  yielded,   \* history: what __next__ has returned
  ended      \* history: __next__ has returned undef

iterator == <<caller, items, index, done, seen, cursor, yielded, ended>>
vars     == <<request, book, iterator>>

Books == [1..Pages -> [count : 0..MaxItems, next : 0..Pages]]
Item  == (1..Pages) \X (1..MaxItems)

TypeOK ==
  /\ RequestTypeOK
  /\ book \in Books
  /\ caller \in {"none", "app", "next"}
  /\ items \in Seq(Item) /\ index \in 0..Len(items) /\ yielded \in Seq(Item)
  /\ done \in BOOLEAN /\ ended \in BOOLEAN
  /\ seen \subseteq 1..Pages /\ cursor \in 1..Pages

Init ==
  /\ RequestInit
  /\ book \in Books
  /\ caller = "none"
  /\ items = <<>> /\ index = 0 /\ done = FALSE /\ seen = {} /\ cursor = 1
  /\ yielded = <<>> /\ ended = FALSE

-----------------------------------------------------------------------------
(* __next__ with an item at hand, exhausted, or in need of a page. *)
NextItem ==
  /\ caller = "none" /\ index < Len(items)
  /\ yielded' = Append(yielded, items[index + 1])
  /\ index' = index + 1
  /\ UNCHANGED <<request, book, caller, items, done, seen, cursor, ended>>

NextEnds ==
  /\ caller = "none" /\ index >= Len(items) /\ done
  /\ ended' = TRUE
  /\ UNCHANGED <<request, book, caller, items, index, done, seen, cursor, yielded>>

NextFetches ==
  /\ caller = "none" /\ index >= Len(items) /\ ~done
  /\ caller' = "next" /\ Begin("GET")
  /\ UNCHANGED <<book, items, index, done, seen, cursor, yielded, ended>>

(* Mutants of PageArrives: an empty page ends the walk; no cycle guard.    *)
PageArrivesEmptyEnds ==
  /\ items' = items \o [n \in 1..book[cursor].count |-> <<cursor, n>>]
  /\ IF book[cursor].next \in {0} \cup seen \/ book[cursor].count = 0
     THEN done' = TRUE /\ UNCHANGED <<seen, cursor>>
     ELSE /\ seen' = seen \cup {book[cursor].next}
          /\ cursor' = book[cursor].next
          /\ UNCHANGED done
PageArrivesUnguarded ==
  /\ items' = items \o [n \in 1..book[cursor].count |-> <<cursor, n>>]
  /\ done' = (book[cursor].next = 0)
  /\ cursor' = IF done' THEN cursor ELSE book[cursor].next
  /\ UNCHANGED seen

(* What _fetch_next does with a page: the items are appended; a next link  *)
(* that was not followed before becomes the cursor, else this was the last *)
(* page, empty or not.                                                     *)
PageArrives ==
  /\ items' = items \o [n \in 1..book[cursor].count |-> <<cursor, n>>]
  /\ IF book[cursor].next \in {0} \cup seen
     THEN done' = TRUE /\ UNCHANGED <<seen, cursor>>
     ELSE /\ seen' = seen \cup {book[cursor].next}
          /\ cursor' = book[cursor].next
          /\ UNCHANGED done

FetchReturns ==
  /\ caller = "next" /\ phase = "idle" /\ outcome = "result"
  /\ caller' = "none"
  /\ PageArrives
  /\ UNCHANGED <<request, book, index, yielded, ended>>

(* The request dies, and __next__ with it. *)
FetchDies ==
  /\ caller = "next" /\ phase = "idle" /\ outcome # "result"
  /\ caller' = "none"
  /\ UNCHANGED <<request, book, items, index, done, seen, cursor, yielded, ended>>

(* The application makes a request of its own. *)
AppRequest ==
  /\ caller = "none" /\ caller' = "app"
  /\ \E m \in Methods : Begin(m)
  /\ UNCHANGED <<book, items, index, done, seen, cursor, yielded, ended>>

AppReturns ==
  /\ caller = "app" /\ phase = "idle" /\ caller' = "none"
  /\ UNCHANGED <<request, book, items, index, done, seen, cursor, yielded, ended>>

-----------------------------------------------------------------------------
IteratorStep == NextItem \/ NextEnds \/ NextFetches \/ FetchReturns \/ FetchDies

Next == \/ IteratorStep
        \/ AppRequest \/ AppReturns
        \/ (RequestStep \/ Abort) /\ UNCHANGED <<book, iterator>>

(* Every request gets some response or times out (RestRequest: status 599),*)
(* and the application keeps asking the iterator.                          *)
Fairness == /\ WF_vars(RequestStep /\ UNCHANGED <<book, iterator>>)
            /\ WF_vars(AppReturns) /\ WF_vars(FetchReturns \/ FetchDies)
            /\ SF_vars(NextItem \/ NextEnds \/ NextFetches)

Spec == Init /\ [][Next]_vars /\ Fairness

-----------------------------------------------------------------------------
(* The walk the links of a book describe: page 1, then each next page      *)
(* until there is none or its link has been followed before; and its items.*)
Chain(b) ==
  LET C[n \in 1..(Pages + 1)] ==
        IF n = 1 THEN 1
        ELSE IF C[n - 1] = 0 \/ b[C[n - 1]].next \in {C[k] : k \in 2..(n - 1)} THEN 0
             ELSE b[C[n - 1]].next
  IN  C

ItemsOf(b, p) == IF p = 0 THEN <<>> ELSE [n \in 1..b[p].count |-> <<p, n>>]
Walk(b) ==
  LET W[n \in 0..(Pages + 1)] ==
        IF n = 0 THEN <<>> ELSE W[n - 1] \o ItemsOf(b, Chain(b)[n])
  IN  W

(* However often fetches die and are asked for again, and whatever other   *)
(* requests run in between, the iterator yields the walk in order: no page *)
(* skipped, none twice, and nothing left when it says it is exhausted.     *)
YieldsTheWalk ==
  LET walk == Walk(book)[Pages + 1]
  IN  /\ Len(yielded) <= Len(walk) /\ yielded = SubSeq(walk, 1, Len(yielded))
      /\ ended => yielded = walk
WalkInv == TypeOK /\ YieldsTheWalk

(* The invariant this follows from: k pages of the chain have been         *)
(* appended, and the cursor is the next of it until the chain ends.        *)
Walked(k) ==
  /\ items = Walk(book)[k]
  /\ done => k = Pages + 1 \/ Chain(book)[k + 1] = 0
  /\ ~done => /\ k <= Pages /\ cursor = Chain(book)[k + 1]
              /\ seen = {Chain(book)[j] : j \in 2..(k + 1)} /\ Cardinality(seen) = k
IteratorInv ==
  /\ TypeOK
  /\ \E k \in 0..(Pages + 1) : Walked(k)
  /\ caller = "next" => ~done
  /\ yielded = SubSeq(items, 1, index)
  /\ ended => done /\ index = Len(items)

(* Links that run in a circle do not keep the application in the iterator  *)
(* for ever: it comes to its end, unless fetches die again and again.      *)
WalkEnds == <>ended \/ []<>(caller = "next" /\ phase = "idle" /\ outcome # "result")
=============================================================================
