----------------------------- MODULE BoundedFifo -----------------------------
(***************************************************************************)
(* What a pipe promises: bytes come out in the order they went in, each    *)
(* once, at most Size of them are on their way, and after the last writer  *)
(* has gone no more go in.                                                 *)
(***************************************************************************)
EXTENDS Naturals, Sequences

CONSTANTS Bytes, Size

VARIABLES
  queue,   \* bytes on their way
  got,     \* the last byte delivered to a reader
  open     \* whether a writer is left

Init == queue = <<>> /\ got \in Bytes /\ open = 1

Put(b) ==
  /\ open = 1 /\ Len(queue) < Size
  /\ queue' = Append(queue, b)
  /\ UNCHANGED <<got, open>>

Get ==
  /\ queue # <<>>
  /\ got' = Head(queue)
  /\ queue' = Tail(queue)
  /\ UNCHANGED open

Close == open = 1 /\ open' = 0 /\ UNCHANGED <<queue, got>>

Next == Get \/ Close \/ \E b \in Bytes : Put(b)

Spec == Init /\ [][Next]_<<queue, got, open>>
=============================================================================
