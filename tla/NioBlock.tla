------------------------------ MODULE NioBlock ------------------------------
(***************************************************************************)
(* nio_writeblock at one end of a connection and nio_readblock at the      *)
(* other, down to what one system call moves.  The callers write a header  *)
(* and the body it announces, and read them in the same way.               *)
(***************************************************************************)
EXTENDS Framing

CONSTANTS HeaderSize,  \* sizeof(struct rb_header)
          Room,        \* what the kernel buffers of a stream
          SizeMax,     \* size_t is 0 .. SizeMax
          ShortWrites  \* write() may return having copied a part: a signal came

ASSUME NioAssumption ==
  /\ HeaderSize \in Nat \ {0}
  /\ Room \in Nat \ {0}
  /\ SizeMax \in Nat \ {0}
  /\ HeaderSize <= SizeMax /\ \A n \in BodySizes : n <= SizeMax
  /\ ShortWrites \in BOOLEAN

VARIABLES writer,  \* "open" or "gone"
          begun,   \* messages given to nio_writeblock
          from,    \* where in the stream each of them starts
          left,    \* L2 of nio_writeblock; 0 when nobody is in it
          off,     \* buf of nio_writeblock, from where it was
          copied,  \* what the current write() has copied
          stream,  \* every byte the kernel took: its message and its place there
          taken,   \* how many of them the reader has
          reader,  \* "open", "error" or "gone"
          want,    \* L2 of nio_readblock
          need,    \* L of nio_readblock; 0 when nobody is in it
          got      \* messages that nio_readblock has returned

writeVars == <<writer, begun, from, left, off, copied>>
readVars == <<taken, reader, want, need, got>>
nioVars == <<writeVars, stream, readVars>>

-----------------------------------------------------------------------------
\* Bytes that are no message.
Junk == [t |-> "junk", len |-> 0]

Size(m) == IF m.t = "hdr" THEN HeaderSize ELSE m.len

Smaller(a, b) == IF a <= b THEN a ELSE b

\* size_t subtraction.
Minus(a, b) == (a - b) % (SizeMax + 1)

\* What the kernel holds.
Buffered == Len(stream) - taken

-----------------------------------------------------------------------------
\* nio_writeblock.

Current == begun[Len(begun)]

\* The call, up to the first write().
WriteBlock ==
  /\ writer = "open" /\ left = 0
  /\ Len(begun) < MaxMsgs
  /\ \E m \in Allowed(begun) :
       /\ begun' = Append(begun, m)
       /\ left' = Size(m)
  /\ from' = Append(from, Len(stream))
  /\ off' = 0
  /\ copied' = 0
  /\ UNCHANGED <<writer, stream, readVars>>

\* A byte of the stream: the message it is of, and its place there.
Byte == Nat \X Nat
ByteAt(j, i) == <<j, i>>

\* c bytes of message j, from place o on.
Bytes(j, o, c) == [i \in 1 .. c |-> ByteAt(j, o + i)]

\* write(s, buf, L) in the kernel: L, and not L2, bytes from buf on, as there
\* is room for them.
WriteCopies ==
  /\ writer = "open" /\ left > 0
  /\ \E c \in 1 .. Smaller(Size(Current) - copied, Room - Buffered) :
       /\ stream' = stream \o Bytes(Len(begun), off + copied, c)
       /\ copied' = copied + c
  /\ UNCHANGED <<writer, begun, from, left, off, readVars>>

\* write() returns.  An interrupted call that has copied nothing is repeated.
WriteReturns ==
  /\ writer = "open" /\ left > 0
  /\ copied = Size(Current) \/ (ShortWrites /\ copied > 0)
  /\ left' = Minus(left, copied)
  /\ off' = off + copied
  /\ copied' = 0
  /\ UNCHANGED <<writer, begun, from, stream, readVars>>

\* The reader's end is closed: -1, and the callers close their end.
WriteFails ==
  /\ writer = "open" /\ left > 0
  /\ reader # "open"
  /\ writer' = "gone"
  /\ UNCHANGED <<begun, from, left, off, copied, stream, readVars>>

\* The process closes the connection or dies, wherever it is.
WriterStops ==
  /\ writer = "open"
  /\ writer' = "gone"
  /\ UNCHANGED <<begun, from, left, off, copied, stream, readVars>>

-----------------------------------------------------------------------------
\* nio_readblock.

\* The message that n bytes of the stream are.
Assembled(start, n) ==
  LET j == stream[start + 1][1]
  IN  IF Size(begun[j]) = n /\ \A i \in 1 .. n : stream[start + i] = ByteAt(j, i)
      THEN begun[j] ELSE Junk

\* Mutant: a header is read where a body is owed.
ReadBlock_NoBody ==
  /\ reader = "open" /\ need = 0
  /\ want' = HeaderSize
  /\ need' = want'
  /\ UNCHANGED <<writeVars, stream, taken, reader, got>>

\* The call: a body if the last header announced one, else a header.
ReadBlock ==
  /\ reader = "open" /\ need = 0
  /\ want' = IF Owed(got) # 0 THEN Owed(got) ELSE HeaderSize
  /\ need' = want'
  /\ UNCHANGED <<writeVars, stream, taken, reader, got>>

\* Mutant: the request is never reduced.
Request_WholeBlock(c) == want
\* The bytes that a read() asks for, once c have come.
Request(c) == want - c

\* read() returns some bytes; the last of them end the loop.
ReadSome ==
  /\ reader = "open" /\ need > 0
  /\ \E c \in 1 .. Smaller(Request(want - need), Buffered) :
       /\ taken' = taken + c
       /\ need' = Minus(need, c)
       /\ got' = IF c = need THEN Append(got, Assembled(taken' - want, want)) ELSE got
  /\ UNCHANGED <<writeVars, stream, reader, want>>

\* Mutant: no bytes are taken for none yet.
ReadEnds_TriesAgain ==
  /\ reader = "open" /\ need > 0
  /\ Buffered = 0 /\ writer = "gone"
  /\ UNCHANGED nioVars

\* read() returns 0, or the reset that comes after the last byte: -1, and the
\* callers close their end.
ReadEnds ==
  /\ reader = "open" /\ need > 0
  /\ Buffered = 0 /\ writer = "gone"
  /\ reader' = "error"
  /\ UNCHANGED <<writeVars, stream, taken, want, need, got>>

ReaderStops ==
  /\ reader = "open"
  /\ reader' = "gone"
  /\ UNCHANGED <<writeVars, stream, taken, want, need, got>>

-----------------------------------------------------------------------------
NioInit ==
  /\ writer = "open" /\ begun = <<>> /\ from = <<>>
  /\ left = 0 /\ off = 0 /\ copied = 0
  /\ stream = <<>> /\ taken = 0
  /\ reader = "open" /\ want = 0 /\ need = 0 /\ got = <<>>

NioNext ==
  \/ WriteBlock \/ WriteCopies \/ WriteReturns \/ WriteFails \/ WriterStops
  \/ ReadBlock \/ ReadSome \/ ReadEnds \/ ReaderStops

\* A reader that goes on calling nio_readblock is scheduled, and its read()
\* returns when there is something to return.
NioFairness == WF_nioVars(ReadBlock) /\ WF_nioVars(ReadSome) /\ WF_nioVars(ReadEnds)

NioSpec == NioInit /\ [][NioNext]_nioVars /\ NioFairness

-----------------------------------------------------------------------------
\* Every variable has its type.
NioTypeOK ==
  /\ writer \in {"open", "gone"}
  /\ begun \in Seq(Message)
  /\ from \in Seq(Nat)
  /\ left \in 0 .. SizeMax /\ off \in Nat /\ copied \in Nat
  /\ stream \in Seq(Byte)
  /\ taken \in 0 .. Len(stream)
  /\ reader \in {"open", "error", "gone"}
  /\ want \in 0 .. SizeMax
  /\ need \in 0 .. want
  /\ got \in Seq(Message)

\* However the transfers are cut, nio_readblock stands inside the message that
\* it is asked for: the bytes it holds are the first ones of the next message
\* that the writer began.
ReaderInStep ==
  need # want =>
    LET next == Len(got) + (IF need = 0 THEN 0 ELSE 1)
    IN  /\ next \in 1 .. Len(begun)
        /\ Size(begun[next]) = want
        /\ from[next] = taken - (want - need)
        /\ \A i \in 1 .. want - need : stream[from[next] + i] = ByteAt(next, i)

\* The last message is complete when the kernel has all of it, whether or not
\* nio_writeblock has returned.
Complete == begun = <<>> \/ Len(stream) >= from[Len(begun)] + Size(Current)

Sent == IF Complete THEN begun ELSE SubSeq(begun, 1, Len(begun) - 1)

Whole == INSTANCE Messages WITH sent <- Sent, sender <- writer, receiver <- reader

\* The two loops together move whole messages, in order, lose none that the
\* writer completed, report the end only then, and do not stand still while
\* there is something to read or to report.
WholeMessages == Whole!MsgSpec
=============================================================================
