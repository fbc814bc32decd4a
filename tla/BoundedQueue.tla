---------------------------- MODULE BoundedQueue ----------------------------
(***************************************************************************)
(* muxd/queue.go: the two admission policies shared by every queue between *)
(* a producer that must never block (the PTY read loop, or code holding a  *)
(* session lock) and a consumer that may stall.  A Go buffered channel is  *)
(* a sequence; both policies run under the producer's lock, so each is one *)
(* atomic change of the sequence.                                          *)
(***************************************************************************)
EXTENDS Naturals, Sequences

\* Room for one more element the system can afford to lose: `reserve` slots
\* at the tail are kept for the ones it cannot.  A queue smaller than its own
\* reserve still admits one element.
AdmitExpendable(q, cap, reserve) ==
  LET room == IF cap > reserve THEN cap - reserve ELSE 1
  IN  Len(q) < room

\* Deliver v without blocking; a full queue gives up its OLDEST element.
PushNewestOnFull(q, cap, v) ==
  IF Len(q) < cap THEN Append(q, v) ELSE Append(Tail(q), v)

\* The push that is about to happen removes something already queued.
Evicts(q, cap) == Len(q) >= cap
=============================================================================
