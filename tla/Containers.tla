----------------------------- MODULE Containers -----------------------------
(***************************************************************************)
(* The intrusive containers of runtime/Container.h that the runtime uses:   *)
(* Queue (ready queues, statistics) and List over Ring (blocking queues,    *)
(* idle processors), with the links of ContainerLink.h in the elements.     *)
(* Every operation is checked against a sequence.                           *)
(***************************************************************************)
EXTENDS Integers, Sequences

CONSTANTS Elems,
          Sentinel,   \* the end of a Queue
          Anchor,     \* the anchor of a List
          NoLink      \* nullptr: an element that is in no container

VARIABLES
  container,  \* "Queue" or "List"
  nextLink,   \* element (or anchor) -> its Next
  prevLink,   \* element (or anchor) -> its Prev
  front,      \* head of the Queue
  back,       \* tail of the Queue
  content,    \* the elements in order (reference)
  chain       \* elements taken out together, still linked (reference)

listVars == <<container, nextLink, prevLink, front, back, content, chain>>

Range(s) == {s[i] : i \in 1 .. Len(s)}

ListsInit ==
  /\ container \in {"Queue", "List"}
  /\ nextLink = [e \in Elems \cup {Anchor} |-> IF e = Anchor THEN Anchor ELSE NoLink]
  /\ prevLink = nextLink
  /\ front = Sentinel /\ back = Sentinel
  /\ content = <<>> /\ chain = <<>>

\* What can be put in: the chain taken out before, or one element.
Loose(s) ==
  IF chain # <<>> THEN s = chain
                  ELSE \E e \in Elems \ Range(content) : s = <<e>>

\* The loop of pop(count) and remove(first, count): up to count - 1 steps on,
\* stopping at the last element.
Walk(elem, count, edge) ==
  LET at[i \in 1 .. count] ==
        IF i = 1 THEN elem
        ELSE IF nextLink[at[i - 1]] = edge THEN at[i - 1] ELSE nextLink[at[i - 1]]
  IN at[count]

Position(e) == CHOOSE i \in 1 .. Len(content) : content[i] = e

---------------------------------------------------------------------------
(* Queue                                                                   *)

Empty == front = Sentinel

\* push(first, last) and push(elem).
Push(s) ==
  LET first == s[1]
      last  == s[Len(s)] IN
  /\ container = "Queue" /\ Loose(s)
  /\ nextLink[last] = NoLink
  /\ nextLink' = IF Empty
                   THEN [nextLink EXCEPT ![last] = Sentinel]
                   ELSE [nextLink EXCEPT ![last] = Sentinel, ![back] = first]
  /\ front' = IF Empty THEN first ELSE front
  /\ back' = last
  /\ content' = content \o s
  /\ chain' = <<>>
  /\ UNCHANGED <<container, prevLink>>

\* Mutant of Pop: the tail is kept when the last element goes.
PopKeepsTail(count) ==
  LET elem == Walk(front, count, Sentinel) IN
  /\ container = "Queue" /\ ~Empty /\ chain = <<>>
  /\ front' = nextLink[elem]
  /\ nextLink' = [nextLink EXCEPT ![elem] = NoLink]
  /\ content' = SubSeq(content, Position(elem) + 1, Len(content))
  /\ chain' = SubSeq(content, 1, Position(elem))
  /\ UNCHANGED <<container, prevLink, back>>

\* pop() and pop(count).
Pop(count) ==
  LET elem == Walk(front, count, Sentinel) IN
  /\ container = "Queue" /\ ~Empty /\ chain = <<>>
  /\ front' = nextLink[elem]
  /\ back' = IF back = elem THEN Sentinel ELSE back
  /\ nextLink' = [nextLink EXCEPT ![elem] = NoLink]
  /\ content' = SubSeq(content, Position(elem) + 1, Len(content))
  /\ chain' = SubSeq(content, 1, Position(elem))
  /\ UNCHANGED <<container, prevLink>>

---------------------------------------------------------------------------
(* Ring and List                                                           *)

CombineBefore(n, first, last) ==
  /\ nextLink' = [nextLink EXCEPT ![last] = n, ![prevLink[n]] = first]
  /\ prevLink' = [prevLink EXCEPT ![first] = prevLink[n], ![n] = last]

CombineAfter(p, first, last) ==
  /\ prevLink' = [prevLink EXCEPT ![first] = p, ![nextLink[p]] = last]
  /\ nextLink' = [nextLink EXCEPT ![last] = nextLink[p], ![p] = first]

\* The sequence with s after its first k elements.
Inserted(k, s) == SubSeq(content, 1, k) \o s \o SubSeq(content, k + 1, Len(content))

\* front() and back() of a List, which are the anchor when it is empty.
ListFront == nextLink[Anchor]
ListBack  == prevLink[Anchor]

\* insert_before(next, first, last).
InsertBefore(n, s) ==
  /\ container = "List" /\ Loose(s)
  /\ n \in Range(content) \cup {Anchor}
  /\ prevLink[s[1]] = NoLink /\ nextLink[s[Len(s)]] = NoLink
  /\ CombineBefore(n, s[1], s[Len(s)])
  /\ content' = Inserted(IF n = Anchor THEN Len(content) ELSE Position(n) - 1, s)
  /\ chain' = <<>>
  /\ UNCHANGED <<container, front, back>>

\* insert_after(prev, first, last).
InsertAfter(p, s) ==
  /\ container = "List" /\ Loose(s)
  /\ p \in Range(content) \cup {Anchor}
  /\ prevLink[s[1]] = NoLink /\ nextLink[s[Len(s)]] = NoLink
  /\ CombineAfter(p, s[1], s[Len(s)])
  /\ content' = Inserted(IF p = Anchor THEN 0 ELSE Position(p), s)
  /\ chain' = <<>>
  /\ UNCHANGED <<container, front, back>>

TakeOut(first, last) ==
  /\ nextLink' = [nextLink EXCEPT ![prevLink[first]] = nextLink[last], ![last] = NoLink]
  /\ prevLink' = [prevLink EXCEPT ![nextLink[last]] = prevLink[first], ![first] = NoLink]

\* remove(first, count), and remove(elem) with a count of one.
Remove(first, count) ==
  LET last == Walk(first, count, Anchor)
      i    == Position(first)
      j    == Position(last) IN
  /\ container = "List" /\ first \in Range(content) /\ chain = <<>>
  /\ TakeOut(first, last)
  /\ content' = SubSeq(content, 1, i - 1) \o SubSeq(content, j + 1, Len(content))
  /\ chain' = SubSeq(content, i, j)
  /\ UNCHANGED <<container, front, back>>

\* The named ends: push_front(); push_back() and splice_back(); pop_front(),
\* pop_back(); removeAll(), which takes everything from front() to back().
PushEnd(s) ==
  \/ Len(s) = 1 /\ InsertBefore(ListFront, s)
  \/ InsertAfter(ListBack, s)

PopEnd ==
  /\ ListFront # Anchor
  /\ Remove(ListFront, 1) \/ Remove(ListBack, 1) \/ Remove(ListFront, Len(content))

\* Whoever took a single element out has its links invalidated.
Drop ==
  /\ Len(chain) = 1 /\ chain' = <<>>
  /\ UNCHANGED <<container, nextLink, prevLink, front, back, content>>

ListsNext ==
  \/ \E s \in {<<e>> : e \in Elems} \cup {chain} :
       /\ s # <<>>
       /\ \/ Push(s) \/ PushEnd(s)
          \/ \E e \in Elems : InsertBefore(e, s) \/ InsertAfter(e, s)
  \/ \E count \in 1 .. 3 : Pop(count) \/ \E e \in Elems : Remove(e, count)
  \/ PopEnd
  \/ Drop

ListsSpec == ListsInit /\ [][ListsNext]_listVars

---------------------------------------------------------------------------

\* The elements of s follow one another, from one before to one after.
Linked(s, before, after) ==
  LET full == <<before>> \o s \o <<after>> IN
  \A i \in 1 .. Len(s) :
    /\ nextLink[s[i]] = full[i + 2]
    /\ container = "List" => prevLink[s[i]] = full[i]

\* The links spell the sequence that the operations stand for, forwards and
\* backwards, whatever chain was taken out and put back, and an element that is
\* outside has no link that the next push would trip over.
ListsExact ==
  /\ Linked(chain, NoLink, NoLink)
  /\ \A e \in Elems \ (Range(content) \cup Range(chain)) :
       nextLink[e] = NoLink /\ prevLink[e] = NoLink
  /\ container = "Queue" =>
       /\ Linked(content, Sentinel, Sentinel)
       /\ front = IF content = <<>> THEN Sentinel ELSE content[1]
       /\ back = IF content = <<>> THEN Sentinel ELSE content[Len(content)]
  /\ container = "List" =>
       /\ Linked(content, Anchor, Anchor)
       /\ nextLink[Anchor] = IF content = <<>> THEN Anchor ELSE content[1]
       /\ prevLink[Anchor] = IF content = <<>> THEN Anchor ELSE content[Len(content)]
=============================================================================
