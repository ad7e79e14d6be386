----------------------------- MODULE EventSource -----------------------------
(***************************************************************************)
(* The browser's end of a stream of server-sent events, and what the       *)
(* application does with a message (frontend: SseProvider.tsx).            *)
(*                                                                         *)
(* The server ends an event with one newline, so a block of the stream     *)
(* goes on until a heartbeat, the only text with a blank line: the parser  *)
(* joins the data of all events of the block into one message and gives    *)
(* it the last id.                                                         *)
(***************************************************************************)
EXTENDS Sequences

\* A source: the id it would resume from, and the events of the unfinished block.
NewSource(none) == [lastId |-> none, block |-> <<>>]

Receive(src, id) == [src EXCEPT !.block = Append(@, id)]

\* A blank line ends the block.
EndBlock(src) ==
  [src EXCEPT !.lastId = IF src.block = <<>> THEN @ ELSE src.block[Len(src.block)],
              !.block = <<>>]

\* A lost connection discards the unfinished block.
Cut(src) == [src EXCEPT !.block = <<>>]

InBlock(src) == {src.block[i] : i \in DOMAIN src.block}

\* Joined data is not JSON: the application reads only a block of one event,
\* and skips it when it has seen its id, on whatever stream.
Read(src, seen) ==
  IF Len(src.block) = 1 THEN InBlock(src) \ seen ELSE {}
=============================================================================
