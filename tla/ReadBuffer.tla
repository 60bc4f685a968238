----------------------------- MODULE ReadBuffer -----------------------------
(***************************************************************************)
(* core.ReadBuffer (pkg/core/readbuffer.go): a reader that can keep what   *)
(* it reads and give it again, so that a producer may probe a stream.      *)
(*                                                                         *)
(* The stream is the numbers of its bytes, from 1.  A reader is            *)
(* [size, buf, pos, net]: BufferSize, what is kept, the place in it, and   *)
(* how much of the stream has been taken from the network.                 *)
(***************************************************************************)
EXTENDS Integers, Sequences

Drain == -1   (* BufferDrainAndClear *)

NewReadBuffer == [size |-> 0, buf |-> <<>>, pos |-> 0, net |-> 0]

Bytes(from, n) == [i \in 1 .. n |-> from + i]

(* What one Read of at most want bytes may do, when the stream has come up *)
(* to byte total: the reader afterwards, what it gave, and whether it      *)
(* failed.  The network gives some of what it has.                         *)
Read(r, want, total) ==
  LET kept == SubSeq(r.buf, r.pos + 1, Len(r.buf))
      given(n) == Bytes(r.net, n)
      some == {n \in 1 .. want : r.net + n <= total}
      plain == [r EXCEPT !.size = 0, !.buf = <<>>, !.pos = 0]
  IN  IF r.size # 0 /\ kept # <<>>
      THEN LET n == IF Len(kept) < want THEN Len(kept) ELSE want
           IN  {[r |-> [r EXCEPT !.pos = @ + n], got |-> SubSeq(kept, 1, n), fails |-> FALSE]}
      ELSE {IF r.size <= 0
            THEN [r |-> [plain EXCEPT !.net = @ + n], got |-> given(n), fails |-> FALSE]
            ELSE IF Len(r.buf) + n > r.size
            THEN [r |-> [r EXCEPT !.net = @ + n], got |-> <<>>, fails |-> TRUE]
            ELSE [r |-> [r EXCEPT !.net = @ + n, !.buf = @ \o given(n), !.pos = @ + n],
                  got |-> given(n), fails |-> FALSE] : n \in some}

ResetHere(r) == [r EXCEPT !.size = Drain]
Reset(r) == [r EXCEPT !.size = Drain, !.pos = 0]

(* n bytes that will be read again; the network has them. *)
Peek(r, n) ==
  Reset([r EXCEPT !.size = n, !.net = IF n > Len(r.buf) THEN @ + (n - Len(r.buf)) ELSE @,
                  !.buf = @ \o Bytes(r.net, IF n > Len(r.buf) THEN n - Len(r.buf) ELSE 0)])
=============================================================================
