----------------------------- MODULE QueueSpec -----------------------------
(***************************************************************************)
(* What an OSAL message queue promises (spec.md 4.5): a bounded FIFO of     *)
(* at most Cap items.  An item can be appended while fewer than Cap items   *)
(* are stored; a receiver takes the oldest item into its own buffer.        *)
(* Blocking, timeouts and wake-ups are invisible at this level: they are    *)
(* stuttering steps.                                                        *)
(***************************************************************************)
EXTENDS Naturals, Sequences

CONSTANTS Cap,        \* capacity given to osal_queue_create
          Items,      \* the item values callers send
          Receivers,  \* the threads that call osal_queue_receive
          NoItem      \* content of a receive buffer nothing was copied into

VARIABLES q,          \* the stored items, oldest first
          rcv         \* rcv[r]: the last item copied out to receiver r

Init == /\ q = <<>>
        /\ rcv = [r \in Receivers |-> NoItem]

Enqueue(x) == /\ Len(q) < Cap
              /\ q' = Append(q, x)
              /\ UNCHANGED rcv

Dequeue(r) == /\ q # <<>>
              /\ q' = Tail(q)
              /\ rcv' = [rcv EXCEPT ![r] = Head(q)]

Next == \/ \E x \in Items : Enqueue(x)
        \/ \E r \in Receivers : Dequeue(r)

Spec == Init /\ [][Next]_<<q, rcv>>
=============================================================================
