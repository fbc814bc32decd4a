---------------------------- MODULE RecentBytes -----------------------------
(***************************************************************************)
(* What muxd/ring_buffer.go promises its callers: the last Cap bytes       *)
(* written since the buffer was last emptied, and a marker that moves with *)
(* every change.  RingBuffer implements it with a circular array.          *)
(***************************************************************************)
EXTENDS Integers, Sequences

CONSTANTS
  Cap,       \* bytes the buffer can hold
  MaxWrite   \* bound: bytes of one write

VARIABLES
  held,      \* the bytes held, oldest first
  seq        \* Seq(): the position the stream has reached

recentVars == <<held, seq>>

\* The end of s that a buffer of Cap bytes can keep.
LastBytes(s) == IF Len(s) <= Cap THEN s ELSE SubSeq(s, Len(s) - Cap + 1, Len(s))

\* Write: seq counts bytes, not calls.
WriteBytes(p) ==
  /\ held' = LastBytes(held \o p)
  /\ seq'  = seq + Len(p)

\* Reset: emptying is a change too.
ResetBytes ==
  /\ held' = <<>>
  /\ seq'  = seq + 1

\* ReadFrom's ok, and its bytes.
Readable(from) == from >= seq - Len(held) /\ from <= seq
After(from)    == SubSeq(held, Len(held) - (seq - from) + 1, Len(held))

\* Bytes named by the stream positions they take.
NextBytes(n) == [i \in 1 .. n |-> seq + i]

RecentInit == held = <<>> /\ seq = 0
RecentNext == ResetBytes \/ \E n \in 1 .. MaxWrite : WriteBytes(NextBytes(n))
RecentSpec == RecentInit /\ [][RecentNext]_recentVars
=============================================================================
