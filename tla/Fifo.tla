-------------------------------- MODULE Fifo ---------------------------------
(***************************************************************************)
(* What the work queue promises: items come out in the order in which they *)
(* were added, each to one worker that has none.                           *)
(***************************************************************************)
EXTENDS Sequences

CONSTANTS Workers, Items, NoItem

VARIABLES queue, added, given

Init == queue = <<>> /\ added = {} /\ given = [w \in Workers |-> NoItem]

Add(i) == /\ i \notin added
          /\ added' = added \cup {i}
          /\ queue' = Append(queue, i)
          /\ UNCHANGED given

Give(w) == /\ queue # <<>>
           /\ given[w] = NoItem
           /\ given' = [given EXCEPT ![w] = Head(queue)]
           /\ queue' = Tail(queue)
           /\ UNCHANGED added

Done(w) == /\ given[w] # NoItem
           /\ given' = [given EXCEPT ![w] = NoItem]
           /\ UNCHANGED <<queue, added>>

Next == (\E i \in Items : Add(i)) \/ (\E w \in Workers : Give(w) \/ Done(w))

Spec == Init /\ [][Next]_<<queue, added, given>>
=============================================================================
