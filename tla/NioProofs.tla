----------------------------- MODULE NioProofs -----------------------------
(***************************************************************************)
(* nio_readblock and nio_writeblock move whole messages, for any lengths,  *)
(* any cut of the transfers and any room in the kernel, as long as no      *)
(* signal makes write() stop half-way.                                     *)
(***************************************************************************)
EXTENDS NioBlock, TLAPS

-----------------------------------------------------------------------------
\* The invariant.

\* What message j - 1 announces for message j.
Due(j) == IF j > 1 /\ begun[j - 1].t = "hdr" THEN begun[j - 1].len ELSE 0

SizeDue(j) == IF Due(j) # 0 THEN Due(j) ELSE HeaderSize

\* Every message is one that its predecessor allows.
FollowOK ==
  /\ Len(begun) <= MaxMsgs
  /\ begun # <<>> => Current \in Allowed(SubSeq(begun, 1, Len(begun) - 1))
  /\ \A j \in 1 .. Len(begun) :
       /\ Size(begun[j]) = SizeDue(j) /\ SizeDue(j) \in 1 .. SizeMax
       /\ begun[j].len <= SizeMax

\* Messages lie one behind the other in the stream, in their own bytes.
LayoutOK ==
  /\ Len(from) = Len(begun)
  /\ \A j, k \in 1 .. Len(begun) : j < k => from[j] + Size(begun[j]) <= from[k]
  /\ \A j \in 1 .. Len(begun) : j + 1 \in 1 .. Len(begun)
       => from[j + 1] = from[j] + Size(begun[j])
  /\ \A j \in 1 .. Len(begun) : \A i \in 1 .. Size(begun[j]) :
       from[j] + i <= Len(stream) => stream[from[j] + i] = ByteAt(j, i)

\* Where the writer is in the last message.
WriterOK ==
  /\ begun = <<>> => left = 0 /\ Len(stream) = 0
  /\ begun # <<>> /\ left = 0 => Len(stream) = from[Len(begun)] + Size(Current)
  /\ left > 0 => /\ begun # <<>>
                 /\ off = 0 /\ left = Size(Current)
                 /\ copied \in 0 .. Size(Current)
                 /\ Len(stream) = from[Len(begun)] + copied

\* Where the message starts that the reader is in or will be in.
Base == taken - (IF need = 0 THEN 0 ELSE want - need)

\* The reader has the first messages and the first bytes of the next.
ReaderOK ==
  /\ Len(got) <= Len(begun)
  /\ \A j \in 1 .. Len(got) : got[j] = begun[j]
  /\ Len(got) < Len(begun) => Base = from[Len(got) + 1]
  /\ Len(got) = Len(begun) => Base = Len(stream)
  /\ Len(got) # 0 => Base = from[Len(got)] + Size(begun[Len(got)])
  /\ need > 0 => want = SizeDue(Len(got) + 1)
  /\ need = 0 /\ want > 0 => /\ Len(got) # 0
                             /\ want = Size(begun[Len(got)])
                             /\ from[Len(got)] = taken - want

NioInv == NioTypeOK /\ FollowOK /\ LayoutOK /\ WriterOK /\ ReaderOK

-----------------------------------------------------------------------------
\* Subtraction of no more than there is does not wrap.
LEMMA MinusExact ==
  ASSUME NEW a \in 0 .. SizeMax, NEW b \in 0 .. a
  PROVE  Minus(a, b) = a - b
  <1>1. a - b \in 0 .. SizeMax /\ SizeMax \in Nat
    BY NioAssumption
  <1>2. \A n \in Nat : \A x \in 0 .. n : x % (n + 1) = x
    OBVIOUS
  <1> QED
    BY <1>1, <1>2 DEF Minus

\* s with c more bytes of message k.
Extended(s, k, o, c) == s \o Bytes(k, o, c)

LEMMA ExtendedStream ==
  ASSUME NEW s \in Seq(Byte), NEW c \in Nat, NEW k \in Nat, NEW o \in Nat
  PROVE  /\ Extended(s, k, o, c) \in Seq(Byte)
         /\ Len(Extended(s, k, o, c)) = Len(s) + c
         /\ \A p \in 1 .. Len(s) : Extended(s, k, o, c)[p] = s[p]
         /\ \A p \in 1 .. c : Extended(s, k, o, c)[Len(s) + p] = ByteAt(k, o + p)
  <1>4. \A p \in 1 .. c : ByteAt(k, o + p) \in Byte
    BY DEF Byte, ByteAt
  <1>5. ASSUME NEW u, u = [i \in 1 .. c |-> ByteAt(k, o + i)]
        PROVE  u \in Seq(Byte) /\ Len(u) = c
    <2>1. u \in [1 .. c -> Byte]
      BY <1>4, <1>5, Zenon
    <2> QED
      BY <2>1, SMTT(30)
  <1>1. Bytes(k, o, c) \in Seq(Byte) /\ Len(Bytes(k, o, c)) = c
    BY <1>5 DEF Bytes
  <1>2. \A p \in 1 .. c : Bytes(k, o, c)[p] = ByteAt(k, o + p)
    BY DEF Bytes
  <1>3. ASSUME NEW u \in Seq(Byte)
        PROVE  /\ s \o u \in Seq(Byte)
               /\ Len(s \o u) = Len(s) + Len(u)
               /\ \A p \in 1 .. Len(s) : (s \o u)[p] = s[p]
               /\ \A p \in 1 .. Len(u) : (s \o u)[Len(s) + p] = u[p]
    OBVIOUS
  <1> QED
    BY <1>1, <1>2, <1>3 DEF Extended

LEMMA BelowSmaller ==
  ASSUME NEW a \in Int, NEW b \in Int, NEW c \in 1 .. Smaller(a, b)
  PROVE  c \in Nat /\ c >= 1 /\ c <= a /\ c <= b
  BY DEF Smaller

\* Sequences are equal that agree everywhere.
LEMMA SameMessages ==
  ASSUME NEW s \in Seq(Message), NEW t \in Seq(Message), Len(s) = Len(t),
         \A k \in 1 .. Len(s) : s[k] = t[k]
  PROVE  s = t
  OBVIOUS

\* What the type invariant says of single variables.
LEMMA Types ==
  ASSUME NioInv
  PROVE  /\ begun \in Seq(Message) /\ Len(begun) \in Nat
         /\ got \in Seq(Message) /\ Len(got) \in Nat /\ Len(got) <= Len(begun)
         /\ from \in Seq(Nat) /\ Len(from) = Len(begun)
         /\ stream \in Seq(Byte) /\ Len(stream) \in Nat
         /\ taken \in Nat /\ taken <= Len(stream)
         /\ SizeMax \in Nat /\ want \in Nat /\ want <= SizeMax
         /\ need \in Nat /\ need <= want
  <1>1. /\ begun \in Seq(Message) /\ got \in Seq(Message) /\ from \in Seq(Nat)
        /\ stream \in Seq(Byte)
        /\ taken \in 0 .. Len(stream) /\ want \in 0 .. SizeMax /\ need \in 0 .. want
    BY DEF NioInv, NioTypeOK
  <1>2. Len(begun) \in Nat /\ Len(got) \in Nat /\ Len(stream) \in Nat
    BY <1>1
  <1>3. Len(got) <= Len(begun) /\ Len(from) = Len(begun)
    BY DEF NioInv, ReaderOK, LayoutOK
  <1>4. SizeMax \in Nat
    BY NioAssumption
  <1>5. taken \in Nat /\ taken <= Len(stream) /\ want \in Nat /\ want <= SizeMax
    BY <1>1, <1>2, <1>4
  <1>6. need \in Nat /\ need <= want
    BY <1>1, <1>5
  <1> QED
    BY <1>1, <1>2, <1>3, <1>4, <1>5, <1>6

\* Every message has a length and a place.
LEMMA Places ==
  ASSUME NioInv
  PROVE  /\ Len(begun) \in Nat /\ Len(stream) \in Nat /\ Len(from) = Len(begun)
         /\ SizeMax \in Nat
         /\ \A j \in 1 .. Len(begun) :
              /\ begun[j] \in Message
              /\ Size(begun[j]) \in Nat /\ Size(begun[j]) >= 1
              /\ Size(begun[j]) <= SizeMax
              /\ from[j] \in Nat
  <1>1. /\ begun \in Seq(Message) /\ from \in Seq(Nat) /\ stream \in Seq(Byte)
        /\ Len(from) = Len(begun) /\ SizeMax \in Nat
    BY NioAssumption DEF NioInv, NioTypeOK, LayoutOK
  <1>2. ASSUME NEW j \in 1 .. Len(begun)
        PROVE  Size(begun[j]) \in 1 .. SizeMax
    BY DEF NioInv, FollowOK
  <1>3. ASSUME NEW j \in 1 .. Len(begun)
        PROVE  begun[j] \in Message /\ from[j] \in Nat
    BY <1>1
  <1> QED
    BY <1>1, <1>2, <1>3

\* What a caller may write next has the size that is due.
LEMMA AllowedMessage ==
  ASSUME begun \in Seq(Message), FollowOK, NEW m \in Allowed(begun)
  PROVE  /\ m \in Message
         /\ Size(m) = SizeDue(Len(begun) + 1)
         /\ Size(m) \in 1 .. SizeMax
         /\ m.len <= SizeMax
  <1> DEFINE n == Len(begun)
  <1>1. n \in Nat /\ (begun # <<>> <=> n > 0)
    OBVIOUS
  <1>2. n > 0 => begun[n] \in Message /\ begun[n].len <= SizeMax
    BY <1>1 DEF FollowOK
  <1>3. Owed(begun) = Due(n + 1)
    BY <1>1 DEF Owed, Due
  <1>4. Owed(begun) \in Nat /\ Owed(begun) <= SizeMax
    BY <1>1, <1>2, NioAssumption DEF Owed, Message
  <1>5. CASE Owed(begun) # 0
    <2>1. m = [t |-> "body", len |-> Owed(begun)]
      BY <1>5 DEF Allowed, Body
    <2> QED
      BY <1>3, <1>4, <1>5, <2>1 DEF Message, Size, SizeDue
  <1>6. CASE Owed(begun) = 0
    <2>1. PICK b \in BodySizes : m = [t |-> "hdr", len |-> b]
      BY <1>6 DEF Allowed, Header
    <2>2. b \in Nat /\ b <= SizeMax /\ HeaderSize \in 1 .. SizeMax
      BY NioAssumption, FramingAssumption
    <2> QED
      BY <1>3, <1>6, <2>1, <2>2 DEF Message, Size, SizeDue
  <1> QED
    BY <1>5, <1>6

\* The reader asks for what is due.
LEMMA OwedIsDue ==
  ASSUME begun \in Seq(Message), got \in Seq(Message), ReaderOK
  PROVE  Owed(got) = Due(Len(got) + 1)
  <1>1. Len(got) \in Nat /\ (got # <<>> <=> Len(got) > 0)
    OBVIOUS
  <1>2. Len(got) > 0 => got[Len(got)] = begun[Len(got)]
    BY <1>1 DEF ReaderOK
  <1> QED
    BY <1>1, <1>2 DEF Owed, Due

LEMMA NioStart == NioInit => NioInv
  <1> SUFFICES ASSUME NioInit
               PROVE  NioInv
    OBVIOUS
  <1> USE DEF NioInit
  <1>1. NioTypeOK
    BY NioAssumption DEF NioTypeOK
  <1>2. FollowOK /\ LayoutOK /\ WriterOK
    BY FramingAssumption DEF FollowOK, LayoutOK, WriterOK
  <1>3. ReaderOK
    BY DEF ReaderOK, Base
  <1> QED
    BY <1>1, <1>2, <1>3 DEF NioInv

-----------------------------------------------------------------------------
\* The writer's steps.

\* nio_writeblock is called: a message begins where the stream ends.
LEMMA WriteBlockKeeps == NioInv /\ WriteBlock => NioInv'
  <1> SUFFICES ASSUME NioInv, WriteBlock
               PROVE  NioInv'
    OBVIOUS
  <1> DEFINE n == Len(begun)
  <1>1. PICK m \in Allowed(begun) : begun' = Append(begun, m) /\ left' = Size(m)
    BY DEF WriteBlock
  <1>2. /\ begun \in Seq(Message) /\ from \in Seq(Nat) /\ got \in Seq(Message)
        /\ stream \in Seq(Byte) /\ Len(stream) \in Nat /\ n \in Nat
    BY DEF NioInv, NioTypeOK
  <1>3. /\ m \in Message /\ Size(m) = SizeDue(n + 1)
        /\ Size(m) \in 1 .. SizeMax /\ m.len <= SizeMax
    BY <1>2, AllowedMessage DEF NioInv
  <1>4. /\ begun' \in Seq(Message) /\ Len(begun') = n + 1
        /\ begun'[n + 1] = m
        /\ \A j \in 1 .. n : begun'[j] = begun[j]
    BY <1>1, <1>2, <1>3
  <1>5. /\ from' \in Seq(Nat) /\ Len(from') = Len(from) + 1
        /\ Len(from) = n
        /\ from'[n + 1] = Len(stream)
        /\ \A j \in 1 .. n : from'[j] = from[j]
    BY <1>2 DEF WriteBlock, NioInv, LayoutOK
  <1>6. /\ off' = 0 /\ copied' = 0 /\ stream' = stream /\ writer' = writer
        /\ taken' = taken /\ reader' = reader /\ want' = want /\ need' = need /\ got' = got
    BY DEF WriteBlock, readVars
  <1>7. NioTypeOK'
    BY <1>1, <1>3, <1>4, <1>5, <1>6 DEF NioInv, NioTypeOK
  <1>8. \A j \in 1 .. n + 1 : SizeDue(j)' = SizeDue(j)
    <2> SUFFICES ASSUME NEW j \in 1 .. n + 1
                 PROVE  SizeDue(j)' = SizeDue(j)
      OBVIOUS
    <2>1. j > 1 => j - 1 \in 1 .. n
      BY <1>2
    <2>2. j > 1 => begun'[j - 1] = begun[j - 1]
      BY <1>4, <2>1
    <2> QED
      BY <2>2 DEF SizeDue, Due
  <1>9. FollowOK'
    <2>1. ASSUME NEW j \in 1 .. n + 1
          PROVE  /\ Size(begun'[j]) = SizeDue(j)' /\ SizeDue(j)' \in 1 .. SizeMax
                 /\ begun'[j].len <= SizeMax
      <3>1. CASE j = n + 1
        BY <1>3, <1>4, <1>8, <3>1
      <3>2. CASE j \in 1 .. n
        BY <1>4, <1>8, <3>2 DEF NioInv, FollowOK
      <3> QED
        BY <1>2, <3>1, <3>2
    <2>2. n + 1 <= MaxMsgs
      BY <1>2, FramingAssumption DEF WriteBlock
    <2>3. SubSeq(begun', 1, n) = begun
      BY <1>1, <1>2, <1>3
    <2>4. Current' = m /\ Len(begun') - 1 = n
      BY <1>2, <1>4 DEF Current
    <2>5. Current' \in Allowed(SubSeq(begun', 1, Len(begun') - 1))
      BY <2>3, <2>4
    <2> QED
      BY <1>4, <2>1, <2>2, <2>5 DEF FollowOK, Allowed, Owed
  <1>10. \A j \in 1 .. n : from[j] + Size(begun[j]) <= Len(stream)
    <2> SUFFICES ASSUME NEW j \in 1 .. n
                 PROVE  from[j] + Size(begun[j]) <= Len(stream)
      OBVIOUS
    <2>1. /\ from[j] \in Nat /\ from[n] \in Nat
          /\ Size(begun[j]) \in Nat /\ Size(begun[n]) \in Nat
      <3>1. n \in 1 .. n
        BY <1>2
      <3> QED
        BY <3>1, Places
    <2>2. Len(stream) = from[n] + Size(begun[n])
      BY <1>2 DEF NioInv, WriterOK, WriteBlock, Current
    <2>3. CASE j = n
      BY <2>1, <2>2, <2>3
    <2>4. CASE j # n
      <3>1. n \in 1 .. n /\ j < n
        BY <1>2, <2>4
      <3>2. from[j] + Size(begun[j]) <= from[n]
        BY <3>1 DEF NioInv, LayoutOK
      <3> QED
        BY <2>1, <2>2, <3>2
    <2> QED
      BY <2>3, <2>4
  <1>11. n > 0 => Len(stream) = from[n] + Size(begun[n])
    BY <1>2 DEF NioInv, WriterOK, WriteBlock, Current
  <1>12. LayoutOK'
    <2>1. Len(from') = Len(begun')
      BY <1>4, <1>5
    <2>2. ASSUME NEW j \in 1 .. n + 1, NEW k \in 1 .. n + 1, j < k
          PROVE  from'[j] + Size(begun'[j]) <= from'[k]
      <3>1. j \in 1 .. n
        BY <1>2, <2>2
      <3>2. CASE k = n + 1
        BY <1>4, <1>5, <1>10, <3>1, <3>2
      <3>3. CASE k \in 1 .. n
        BY <1>4, <1>5, <2>2, <3>1, <3>3 DEF NioInv, LayoutOK
      <3> QED
        BY <1>2, <3>2, <3>3
    <2>3. ASSUME NEW j \in 1 .. n + 1, j + 1 \in 1 .. n + 1
          PROVE  from'[j + 1] = from'[j] + Size(begun'[j])
      <3>1. j \in 1 .. n
        BY <1>2, <2>3
      <3>2. CASE j = n
        BY <1>4, <1>5, <1>11, <3>1, <3>2
      <3>3. CASE j + 1 \in 1 .. n
        BY <1>4, <1>5, <3>1, <3>3 DEF NioInv, LayoutOK
      <3> QED
        BY <1>2, <3>1, <3>2, <3>3
    <2>4. ASSUME NEW j \in 1 .. n + 1, NEW i \in 1 .. Size(begun'[j]),
                 from'[j] + i <= Len(stream)
          PROVE  stream[from'[j] + i] = ByteAt(j, i)
      <3>1. CASE j = n + 1
        BY <1>2, <1>5, <2>4, <3>1
      <3>2. CASE j \in 1 .. n
        BY <1>4, <1>5, <2>4, <3>2 DEF NioInv, LayoutOK
      <3> QED
        BY <1>2, <3>1, <3>2
    <2> QED
      BY <1>4, <1>6, <2>1, <2>2, <2>3, <2>4 DEF LayoutOK
  <1>13. WriterOK'
    <2>1. begun' # <<>> /\ Current' = m
      BY <1>2, <1>4 DEF Current
    <2> QED
      BY <1>1, <1>2, <1>3, <1>4, <1>5, <1>6, <2>1 DEF WriterOK
  <1>14. ReaderOK'
    <2>1. Len(got) \in Nat /\ Len(got) <= n
      BY <1>2 DEF NioInv, ReaderOK
    <2>2. Base' = Base
      BY <1>6 DEF Base
    <2>3. Len(got) < n + 1 => Base = from'[Len(got) + 1]
      <3>1. CASE Len(got) = n
        BY <1>5, <3>1 DEF NioInv, ReaderOK
      <3>2. CASE Len(got) < n
        <4>1. Len(got) + 1 \in 1 .. n
          BY <1>2, <2>1, <3>2
        <4> QED
          BY <1>5, <3>2, <4>1 DEF NioInv, ReaderOK
      <3> QED
        BY <1>2, <2>1, <3>1, <3>2
    <2>4. \A j \in 1 .. Len(got) : got[j] = begun'[j]
      BY <1>2, <1>4, <2>1 DEF NioInv, ReaderOK
    <2>5. SizeDue(Len(got) + 1)' = SizeDue(Len(got) + 1)
      BY <1>2, <1>6, <1>8, <2>1
    <2>6. need = 0 /\ want > 0 => /\ Len(got) # 0
                                  /\ want = Size(begun'[Len(got)])
                                  /\ from'[Len(got)] = taken - want
      BY <1>2, <1>4, <1>5, <2>1 DEF NioInv, ReaderOK
    <2>8. Len(got) # 0 => Base = from'[Len(got)] + Size(begun'[Len(got)])
      BY <1>2, <1>4, <1>5, <2>1 DEF NioInv, ReaderOK
    <2>7. need > 0 => want = SizeDue(Len(got) + 1)'
      BY <2>5 DEF NioInv, ReaderOK
    <2> QED
      BY <1>2, <1>4, <1>6, <2>1, <2>2, <2>3, <2>4, <2>6, <2>7, <2>8 DEF ReaderOK
  <1> QED
    BY <1>7, <1>9, <1>12, <1>13, <1>14 DEF NioInv

\* The kernel takes more bytes of the last message.
LEMMA WriteCopiesKeeps == NioInv /\ WriteCopies => NioInv'
  <1> SUFFICES ASSUME NioInv, WriteCopies
               PROVE  NioInv'
    OBVIOUS
  <1> DEFINE n == Len(begun)
  <1>1. PICK c \in 1 .. Smaller(Size(Current) - copied, Room - Buffered) :
          /\ stream' = stream \o Bytes(n, off + copied, c)
          /\ copied' = copied + c
    BY DEF WriteCopies
  <1>2. /\ begun \in Seq(Message) /\ from \in Seq(Nat) /\ got \in Seq(Message)
        /\ stream \in Seq(Byte) /\ Len(stream) \in Nat /\ n \in Nat
        /\ taken \in 0 .. Len(stream) /\ Len(from) = n
    BY DEF NioInv, NioTypeOK, LayoutOK
  <1>3. /\ left > 0 /\ n # 0 /\ off = 0 /\ left = Size(Current)
        /\ copied \in 0 .. Size(Current) /\ Len(stream) = from[n] + copied
    BY <1>2 DEF NioInv, WriterOK, WriteCopies
  <1>4. n \in 1 .. n /\ from[n] \in Nat /\ Size(Current) \in Nat /\ Current = begun[n]
    BY <1>2, <1>3, SMTT(30) DEF NioInv, FollowOK, Current
  <1>5. c \in Nat /\ c >= 1 /\ copied + c <= Size(Current)
    <2>1. Size(Current) - copied \in Int /\ Room - Buffered \in Int
      BY <1>2, <1>3, <1>4, NioAssumption, SMTT(30) DEF Buffered
    <2>2. c \in Nat /\ c >= 1 /\ c <= Size(Current) - copied
      BY <2>1, BelowSmaller
    <2> QED
      BY <1>3, <1>4, <2>2
  <1>6. /\ stream' \in Seq(Byte)
        /\ Len(stream') = Len(stream) + c
        /\ \A p \in 1 .. Len(stream) : stream'[p] = stream[p]
        /\ \A p \in 1 .. c : stream'[Len(stream) + p] = ByteAt(n, copied + p)
    <2>1. off + copied = copied /\ copied \in Nat
      BY <1>3, <1>4
    <2>4. stream' = Extended(stream, n, off + copied, c)
      BY <1>1 DEF Extended
    <2>2. stream' = Extended(stream, n, copied, c)
      BY <2>1, <2>4
    <2>3. stream \in Seq(Byte) /\ c \in Nat /\ Len(begun) \in Nat /\ copied \in Nat
      BY <1>2, <1>5, <2>1
    <2> DEFINE t == Extended(stream, n, copied, c)
    <2>5. /\ t \in Seq(Byte) /\ Len(t) = Len(stream) + c
          /\ \A p \in 1 .. Len(stream) : t[p] = stream[p]
          /\ \A p \in 1 .. c : t[Len(stream) + p] = ByteAt(n, copied + p)
      BY <2>3, ExtendedStream, ZenonT(30)
    <2>6. stream' = t
      BY <2>2
    <2> HIDE DEF t
    <2> QED
      BY <2>5, <2>6
  <1>7. /\ begun' = begun /\ from' = from /\ left' = left /\ off' = off /\ writer' = writer
        /\ taken' = taken /\ reader' = reader /\ want' = want /\ need' = need /\ got' = got
    BY DEF WriteCopies, readVars
  <1>8. NioTypeOK'
    <2>1. taken' \in 0 .. Len(stream') /\ copied' \in Nat
      BY <1>1, <1>2, <1>3, <1>4, <1>5, <1>6, <1>7, SMTT(30)
    <2> QED
      BY <1>6, <1>7, <2>1 DEF NioInv, NioTypeOK
  <1>9. FollowOK'
    BY <1>7 DEF NioInv, FollowOK, SizeDue, Due, Current, Allowed, Owed
  <1>10. LayoutOK'
    <2>1. ASSUME NEW j \in 1 .. n, NEW i \in 1 .. Size(begun[j]),
                 from[j] + i <= Len(stream')
          PROVE  stream'[from[j] + i] = ByteAt(j, i)
      <3>1. from[j] \in Nat /\ Size(begun[j]) \in Nat /\ i \in Nat /\ i >= 1
        BY <1>2 DEF NioInv, FollowOK
      <3>4. Len(stream) \in Nat /\ Len(stream') \in Nat /\ Len(stream') = Len(stream) + c
        BY <1>2, <1>5, <1>6
      <3>2. CASE from[j] + i <= Len(stream)
        <4>1. stream[from[j] + i] = ByteAt(j, i)
          BY <3>2 DEF NioInv, LayoutOK
        <4>2. from[j] + i \in 1 .. Len(stream)
          BY <3>1, <3>2, <3>4
        <4> QED
          BY <1>6, <4>1, <4>2
      <3>3. CASE from[j] + i > Len(stream)
        <4>1. j = n
          <5>1. SUFFICES ASSUME j # n
                         PROVE  FALSE
            OBVIOUS
          <5>2. j < n
            BY <1>2, <5>1
          <5>3. from[j] + Size(begun[j]) <= from[n]
            BY <1>4, <5>2 DEF NioInv, LayoutOK
          <5> QED
            BY <1>3, <1>4, <3>1, <3>3, <5>3
        <4>5. from[j] = from[n] /\ from[n] \in Nat /\ Len(stream) = from[n] + copied /\ copied \in Nat
          BY <1>3, <1>4, <4>1
        <4>6. i - copied >= 1 /\ i - copied <= c
          BY <1>5, <2>1, <3>1, <3>3, <3>4, <4>5
        <4>2. i - copied \in 1 .. c /\ Len(stream) + (i - copied) = from[j] + i
          BY <1>5, <3>1, <4>5, <4>6
        <4>3. stream'[Len(stream) + (i - copied)] = ByteAt(n, copied + (i - copied))
          BY <1>6, <4>2
        <4>4. copied + (i - copied) = i
          BY <1>3, <1>4, <3>1
        <4> QED
          BY <4>1, <4>2, <4>3, <4>4
      <3> QED
        BY <3>1, <3>2, <3>3, <3>4
    <2> QED
      BY <1>7, <2>1 DEF NioInv, LayoutOK
  <1>11. WriterOK'
    <2>1. Len(stream') = from[n] + copied' /\ copied' \in 0 .. Size(Current)
      BY <1>1, <1>2, <1>3, <1>4, <1>5, <1>6
    <2>2. begun # <<>>
      BY <1>2, <1>3
    <2> QED
      BY <1>3, <1>7, <2>1, <2>2 DEF WriterOK, Current
  <1>12. ReaderOK'
    <2>1. Base' = Base
      BY <1>7 DEF Base
    <2>2. Len(got) # n
      <3>1. SUFFICES ASSUME Len(got) = n
                     PROVE  FALSE
        OBVIOUS
      <3>2. Base = Len(stream) /\ Base = from[n] + Size(begun[n])
        BY <1>3, <3>1 DEF NioInv, ReaderOK
      <3> QED
        BY <1>3, <1>4, <1>5, <3>2
    <2>3. SizeDue(Len(got) + 1)' = SizeDue(Len(got) + 1)
      BY <1>7 DEF SizeDue, Due
    <2> QED
      BY <1>7, <2>1, <2>2, <2>3 DEF NioInv, ReaderOK
  <1> QED
    BY <1>8, <1>9, <1>10, <1>11, <1>12 DEF NioInv

\* write() returns: it has copied all of the message, so the loop ends.
LEMMA WriteReturnsKeeps == ~ShortWrites /\ NioInv /\ WriteReturns => NioInv'
  <1> SUFFICES ASSUME ~ShortWrites, NioInv, WriteReturns
               PROVE  NioInv'
    OBVIOUS
  <1>1. /\ left > 0 /\ begun # <<>> /\ off = 0 /\ left = Size(Current)
        /\ copied = Size(Current) /\ Len(stream) = from[Len(begun)] + copied
    BY DEF NioInv, WriterOK, WriteReturns
  <1>2. left \in 0 .. SizeMax /\ SizeMax \in Nat
    BY NioAssumption DEF NioInv, NioTypeOK
  <1>3. Minus(left, copied) = 0
    BY <1>1, <1>2, MinusExact
  <1>4. left' = 0 /\ off' = copied /\ copied' = 0
    BY <1>1, <1>2, <1>3 DEF WriteReturns
  <1>5. /\ begun' = begun /\ from' = from /\ writer' = writer /\ stream' = stream
        /\ taken' = taken /\ reader' = reader /\ want' = want /\ need' = need /\ got' = got
    BY DEF WriteReturns, readVars
  <1>6. NioTypeOK'
    BY <1>1, <1>2, <1>4, <1>5 DEF NioInv, NioTypeOK
  <1>7. FollowOK' /\ LayoutOK'
    BY <1>5 DEF NioInv, FollowOK, LayoutOK, SizeDue, Due, Current, Allowed, Owed
  <1>8. WriterOK'
    BY <1>1, <1>4, <1>5 DEF WriterOK, Current
  <1>9. ReaderOK'
    BY <1>5 DEF NioInv, ReaderOK, Base, SizeDue, Due
  <1> QED
    BY <1>6, <1>7, <1>8, <1>9 DEF NioInv

\* The writer goes away, or the reader: the rest stays as it is.
LEMMA EndsKeep ==
  ASSUME NioInv,
         WriteFails \/ WriterStops \/ ReadEnds \/ ReaderStops \/ UNCHANGED nioVars
  PROVE  NioInv'
  <1>1. /\ writer' \in {writer, "gone"} /\ reader' \in {reader, "gone", "error"}
        /\ begun' = begun /\ from' = from /\ left' = left /\ off' = off
        /\ copied' = copied /\ stream' = stream /\ taken' = taken
        /\ want' = want /\ need' = need /\ got' = got
    BY DEF WriteFails, WriterStops, ReadEnds, ReaderStops, nioVars, writeVars, readVars
  <1>2. NioTypeOK'
    BY <1>1 DEF NioInv, NioTypeOK
  <1>3. FollowOK' /\ LayoutOK' /\ WriterOK'
    BY <1>1 DEF NioInv, FollowOK, LayoutOK, WriterOK, SizeDue, Due, Current, Allowed, Owed
  <1>4. ReaderOK'
    BY <1>1 DEF NioInv, ReaderOK, Base, SizeDue, Due
  <1> QED
    BY <1>2, <1>3, <1>4 DEF NioInv

-----------------------------------------------------------------------------
\* The reader's steps.

\* nio_readblock is called for what is due.
LEMMA ReadBlockKeeps == NioInv /\ ReadBlock => NioInv'
  <1> SUFFICES ASSUME NioInv, ReadBlock
               PROVE  NioInv'
    OBVIOUS
  <1> DEFINE g == Len(got)
  <1>1. /\ begun \in Seq(Message) /\ got \in Seq(Message)
        /\ g \in Nat /\ Len(begun) \in Nat /\ g <= Len(begun)
        /\ taken \in Nat
    BY Types
  <1>2. want' = SizeDue(g + 1) /\ need' = want'
    BY <1>1, OwedIsDue DEF NioInv, ReadBlock, SizeDue
  <1>3. SizeDue(g + 1) \in 1 .. SizeMax
    <2>1. g > 0 => g + 1 - 1 = g /\ g \in 1 .. Len(begun)
      BY <1>1
    <2>2. g > 0 => begun[g] \in Message /\ begun[g].len <= SizeMax
      BY <1>1, <2>1 DEF NioInv, FollowOK
    <2>3. Due(g + 1) \in Nat /\ Due(g + 1) <= SizeMax
      BY <1>1, <2>1, <2>2, NioAssumption DEF Due, Message
    <2> QED
      BY <2>3, NioAssumption DEF SizeDue
  <1>4. /\ begun' = begun /\ from' = from /\ left' = left /\ off' = off /\ writer' = writer
        /\ copied' = copied /\ stream' = stream
        /\ taken' = taken /\ reader' = reader /\ got' = got
    BY DEF ReadBlock, writeVars
  <1>5. NioTypeOK'
    BY <1>2, <1>3, <1>4 DEF NioInv, NioTypeOK
  <1>6. FollowOK' /\ LayoutOK' /\ WriterOK'
    BY <1>4 DEF NioInv, FollowOK, LayoutOK, WriterOK, SizeDue, Due, Current, Allowed, Owed
  <1>7. ReaderOK'
    <2>1. need = 0 /\ need' # 0 /\ want' - need' = 0
      BY <1>2, <1>3 DEF ReadBlock
    <2>2. Base' = Base
      BY <1>1, <1>4, <2>1 DEF Base
    <2>3. SizeDue(g + 1)' = SizeDue(g + 1)
      BY <1>4 DEF SizeDue, Due
    <2> QED
      BY <1>2, <1>4, <2>1, <2>2, <2>3 DEF NioInv, ReaderOK
  <1> QED
    BY <1>5, <1>6, <1>7 DEF NioInv

\* When there is something to read, the reader is inside a message that was
\* begun, and asks for no more than the rest of it.
LEMMA ReaderInside ==
  ASSUME NioInv, need > 0, Buffered > 0
  PROVE  /\ Len(got) + 1 \in 1 .. Len(begun)
         /\ want = Size(begun[Len(got) + 1])
         /\ from[Len(got) + 1] \in Nat
         /\ taken = from[Len(got) + 1] + (want - need)
  <1>1. /\ Len(got) \in Nat /\ Len(begun) \in Nat /\ Len(got) <= Len(begun)
        /\ taken \in Nat /\ Len(stream) \in Nat /\ want \in Nat /\ need \in 0 .. want
        /\ from \in Seq(Nat) /\ Len(from) = Len(begun)
    BY Types
  <1>2. Base = taken - (want - need)
    BY DEF Base
  <1>3. Len(got) # Len(begun)
    <2>1. SUFFICES ASSUME Len(got) = Len(begun)
                   PROVE  FALSE
      OBVIOUS
    <2>2. Base = Len(stream)
      BY <2>1 DEF NioInv, ReaderOK
    <2> QED
      BY <1>1, <1>2, <2>2 DEF Buffered
  <1>4. Len(got) + 1 \in 1 .. Len(begun) /\ Len(got) < Len(begun)
    BY <1>1, <1>3
  <1>5. want = Size(begun[Len(got) + 1])
    BY <1>4 DEF NioInv, ReaderOK, FollowOK
  <1>6. Base = from[Len(got) + 1] /\ from[Len(got) + 1] \in Nat
    BY <1>1, <1>4 DEF NioInv, ReaderOK
  <1> QED
    BY <1>1, <1>2, <1>4, <1>5, <1>6

\* The message that starts there is the one the bytes are put together to.
LEMMA AssembledIsBegun ==
  ASSUME NioInv, NEW j \in 1 .. Len(begun), from[j] + Size(begun[j]) <= Len(stream)
  PROVE  Assembled(from[j], Size(begun[j])) = begun[j]
  <1>1. Size(begun[j]) \in Nat /\ Size(begun[j]) >= 1 /\ from[j] \in Nat
        /\ Len(stream) \in Nat
    BY Places
  <1>2. \A i \in 1 .. Size(begun[j]) : stream[from[j] + i] = ByteAt(j, i)
    BY <1>1 DEF NioInv, LayoutOK
  <1>3. stream[from[j] + 1][1] = j
    <2>1. stream[from[j] + 1] = ByteAt(j, 1)
      BY <1>1, <1>2
    <2> QED
      BY <2>1 DEF ByteAt
  <1> QED
    BY <1>2, <1>3 DEF Assembled

\* What a read() of the loop does: some bytes of the message, or the last ones.
LEMMA ReadSomeEffect ==
  ASSUME NioInv, ReadSome
  PROVE  LET j == Len(got) + 1
         IN  \E c \in Nat :
               /\ j \in 1 .. Len(begun)
               /\ want = Size(begun[j]) /\ from[j] \in Nat
               /\ taken = from[j] + (want - need)
               /\ c >= 1 /\ c <= need /\ taken + c <= Len(stream)
               /\ taken' = taken + c /\ need' = need - c
               /\ c < need => got' = got
               /\ c = need => got' = Append(got, begun[j])
  <1> DEFINE j == Len(got) + 1
  <1>1. /\ taken \in Nat /\ Len(stream) \in Nat /\ want \in 0 .. SizeMax
        /\ need \in 0 .. want /\ SizeMax \in Nat /\ need > 0
    BY Types DEF ReadSome
  <1>2. PICK c \in 1 .. Smaller(Request(want - need), Buffered) :
          /\ taken' = taken + c
          /\ need' = Minus(need, c)
          /\ got' = IF c = need THEN Append(got, Assembled(taken' - want, want)) ELSE got
    BY DEF ReadSome
  <1>3. Request(want - need) = need
    BY <1>1 DEF Request
  <1>4. c \in Nat /\ c >= 1 /\ c <= need /\ c <= Buffered
    BY <1>1, <1>2, <1>3, BelowSmaller DEF Buffered
  <1>5. Buffered > 0 /\ taken + c <= Len(stream)
    BY <1>1, <1>4 DEF Buffered
  <1>6. /\ j \in 1 .. Len(begun) /\ want = Size(begun[j]) /\ from[j] \in Nat
        /\ taken = from[j] + (want - need)
    BY <1>1, <1>5, ReaderInside
  <1>7. need' = need - c
    BY <1>1, <1>2, <1>4, MinusExact
  <1>8. c = need => got' = Append(got, begun[j])
    <2>1. SUFFICES ASSUME c = need
                   PROVE  Assembled(taken' - want, want) = begun[j]
      BY <1>2
    <2>3. want \in Nat /\ need \in Nat /\ from[j] \in Nat /\ taken + c = from[j] + want
      BY <1>1, <1>6, <2>1
    <2>2. taken' - want = from[j] /\ from[j] + want <= Len(stream)
      BY <1>2, <1>5, <2>3
    <2> QED
      BY <1>6, <2>2, AssembledIsBegun
  <1>9. c < need => got' = got
    BY <1>1, <1>2, <1>4
  <1> QED
    BY <1>2, <1>4, <1>5, <1>6, <1>7, <1>8, <1>9

\* A read() keeps the reader in step.
LEMMA ReadSomeKeeps == NioInv /\ ReadSome => NioInv'
  <1> SUFFICES ASSUME NioInv, ReadSome
               PROVE  NioInv'
    OBVIOUS
  <1> DEFINE j == Len(got) + 1
  <1> DEFINE n == Len(begun)
  <1>1. PICK c \in Nat :
               /\ j \in 1 .. Len(begun)
               /\ want = Size(begun[j]) /\ from[j] \in Nat
               /\ taken = from[j] + (want - need)
               /\ c >= 1 /\ c <= need /\ taken + c <= Len(stream)
               /\ taken' = taken + c /\ need' = need - c
               /\ c < need => got' = got
               /\ c = need => got' = Append(got, begun[j])
    BY ReadSomeEffect
  <1>2. /\ begun \in Seq(Message) /\ got \in Seq(Message) /\ n \in Nat /\ Len(got) \in Nat
        /\ taken \in Nat /\ Len(stream) \in Nat /\ want \in 0 .. SizeMax /\ SizeMax \in Nat
        /\ need \in 0 .. want
    BY Types
  <1>3. /\ begun' = begun /\ from' = from /\ left' = left /\ off' = off /\ writer' = writer
        /\ copied' = copied /\ stream' = stream /\ reader' = reader /\ want' = want
    BY DEF ReadSome, writeVars
  <1>4. begun[j] \in Message
    BY <1>1, <1>2
  <1>5. NioTypeOK'
    <2>3. c < need \/ c = need
      BY <1>1, <1>2
    <2>4. Append(got, begun[j]) \in Seq(Message)
      BY <1>2, <1>4
    <2>1. got' \in Seq(Message)
      BY <1>1, <1>2, <2>3, <2>4
    <2>2. taken' \in 0 .. Len(stream) /\ need' \in 0 .. want
      BY <1>1, <1>2, SMTT(30)
    <2> QED
      BY <1>3, <2>1, <2>2 DEF NioInv, NioTypeOK
  <1>6. FollowOK' /\ LayoutOK' /\ WriterOK'
    BY <1>3 DEF NioInv, FollowOK, LayoutOK, WriterOK, SizeDue, Due, Current, Allowed, Owed
  <1>7. CASE c < need
    <2>1. got' = got /\ need' > 0 /\ need' = need - c /\ need > 0
      BY <1>1, <1>2, <1>7
    <2>2. Base' = Base
      <3>1. Base' = taken' - (want - need') /\ Base = taken - (want - need)
        BY <1>3, <2>1 DEF Base
      <3> QED
        BY <1>1, <1>2, <3>1
    <2>3. SizeDue(j)' = SizeDue(j)
      BY <1>3, <2>1 DEF SizeDue, Due
    <2> QED
      BY <1>3, <1>5, <1>6, <2>1, <2>2, <2>3 DEF NioInv, ReaderOK
  <1>8. CASE c = need
    <2>1. got' = Append(got, begun[j]) /\ need' = 0
      BY <1>1, <1>2, <1>8
    <2>2. /\ Len(got') = j /\ got'[j] = begun[j]
          /\ \A k \in 1 .. Len(got) : got'[k] = got[k]
      BY <1>2, <1>4, <2>1
    <2>3. Base' = taken' /\ taken' = from[j] + Size(begun[j]) /\ taken' - want = from[j]
      <3>1. want \in Nat /\ taken' \in Nat /\ from[j] \in Nat
        BY <1>1, <1>2, SMTT(30)
      <3>2. taken' = from[j] + want /\ want = Size(begun[j])
        BY <1>1, <1>2, <1>8
      <3>4. Base' = taken' - 0
        BY <2>1 DEF Base
      <3>3. Base' = taken'
        <4>1. \A x \in Nat : x - 0 = x
          OBVIOUS
        <4> QED
          BY <3>1, <3>4, <4>1
      <3> QED
        BY <3>1, <3>2, <3>3
    <2>4. \A k \in 1 .. j : got'[k] = begun[k]
      BY <1>2, <2>2 DEF NioInv, ReaderOK
    <2>5. j < n => Base' = from[j + 1]
      <3>1. j < n => j + 1 \in 1 .. n
        BY <1>1, <1>2, SMTT(30)
      <3> QED
        BY <1>1, <2>3, <3>1 DEF NioInv, LayoutOK
    <2>6. j = n => Base' = Len(stream)
      <3>1. SUFFICES ASSUME j = n
                     PROVE  taken' = Len(stream)
        BY <2>3
      <3>2. begun # <<>> /\ Current = begun[j] /\ from[Len(begun)] = from[j]
        BY <1>1, <1>2, <3>1 DEF Current
      <3>3. Len(stream) <= from[j] + Size(begun[j])
        <4>1. Size(begun[j]) \in Nat /\ from[j] \in Nat
          BY <1>1, <1>2
        <4>2. CASE left = 0
          BY <1>2, <3>2, <4>1, <4>2 DEF NioInv, WriterOK
        <4>3. CASE left > 0
          BY <1>2, <3>2, <4>1, <4>3 DEF NioInv, WriterOK
        <4>4. left \in Nat
          BY NioAssumption DEF NioInv, NioTypeOK
        <4> QED
          BY <4>2, <4>3, <4>4
      <3>4. taken' \in Nat /\ taken' <= Len(stream)
        BY <1>1, <1>2, SMTT(30)
      <3> QED
        BY <1>2, <2>3, <3>3, <3>4
    <2>8. j <= n /\ j # 0 /\ Len(got') \in Nat
      BY <1>1, <1>2, <2>2
    <2>7. ReaderOK'
      BY <1>1, <1>3, <2>1, <2>2, <2>3, <2>4, <2>5, <2>6, <2>8 DEF ReaderOK
    <2> QED
      BY <1>5, <1>6, <2>7 DEF NioInv
  <1> QED
    BY <1>1, <1>2, <1>7, <1>8

LEMMA NioStep == ~ShortWrites /\ NioInv /\ [NioNext]_nioVars => NioInv'
  BY WriteBlockKeeps, WriteCopiesKeeps, WriteReturnsKeeps, EndsKeep,
     ReadBlockKeeps, ReadSomeKeeps DEF NioNext

-----------------------------------------------------------------------------
\* The two loops implement whole messages.

LEMMA SentSeq ==
  ASSUME NioInv
  PROVE  /\ Complete => Sent = begun
         /\ ~Complete => /\ Len(begun) > 0 /\ begun # <<>>
                         /\ Sent = SubSeq(begun, 1, Len(begun) - 1)
                         /\ Len(Sent) = Len(begun) - 1
                         /\ \A j \in 1 .. Len(begun) - 1 : Sent[j] = begun[j]
  <1>1. begun \in Seq(Message)
    BY DEF NioInv, NioTypeOK
  <1>2. ~Complete => Len(begun) > 0 /\ begun # <<>>
    BY <1>1 DEF Complete
  <1>3. ASSUME NEW s \in Seq(Message), Len(s) > 0
        PROVE  /\ Len(SubSeq(s, 1, Len(s) - 1)) = Len(s) - 1
               /\ \A j \in 1 .. Len(s) - 1 : SubSeq(s, 1, Len(s) - 1)[j] = s[j]
    <2>1. ASSUME NEW k \in 0 .. Len(s)
          PROVE  Len(SubSeq(s, 1, k)) = k /\ \A j \in 1 .. k : SubSeq(s, 1, k)[j] = s[j]
      OBVIOUS
    <2>2. Len(s) \in Nat /\ Len(s) - 1 \in 0 .. Len(s)
      BY <1>3
    <2> QED
      BY <2>1, <2>2
  <1> QED
    BY <1>1, <1>2, <1>3 DEF Sent

\* nio_writeblock is called: nothing is sent yet.
LEMMA WriteBlockMaps == NioInv /\ NioInv' /\ WriteBlock => UNCHANGED Whole!msgVars
  <1> SUFFICES ASSUME NioInv, NioInv', WriteBlock
               PROVE  UNCHANGED Whole!msgVars
    OBVIOUS
  <1> DEFINE n == Len(begun)
  <1>1. begun \in Seq(Message) /\ n \in Nat /\ Len(stream) \in Nat /\ Len(from) = n
        /\ from \in Seq(Nat)
    BY SMTT(30) DEF NioInv, NioTypeOK, LayoutOK
  <1>2. Sent = begun
    <2>1. begun # <<>> => Len(stream) = from[n] + Size(Current)
      BY DEF WriteBlock, NioInv, WriterOK
    <2>2. Complete
      <3>1. CASE begun = <<>>
        BY <3>1 DEF Complete
      <3>2. CASE begun # <<>>
        <4>1. Len(stream) >= from[n] + Size(Current)
          BY <1>1, <2>1, <3>2
        <4> QED
          BY <4>1 DEF Complete
      <3> QED
        BY <3>1, <3>2
    <2> QED
      BY <2>2, SentSeq
  <1>3. PICK m \in Allowed(begun) : begun' = Append(begun, m)
    BY DEF WriteBlock
  <1>4. m \in Message /\ Size(m) \in 1 .. SizeMax
    BY <1>1, AllowedMessage DEF NioInv
  <1>5. Len(begun') = n + 1 /\ begun'[n + 1] = m /\ begun' # <<>>
    BY <1>1, <1>3, <1>4, SMTT(30)
  <1>6. from'[n + 1] = Len(stream) /\ stream' = stream
    BY <1>1 DEF WriteBlock
  <1>7. ~Complete'
    BY <1>1, <1>4, <1>5, <1>6 DEF Complete, Current
  <1>8. Sent' = SubSeq(begun', 1, n)
    BY <1>1, <1>5, <1>7 DEF Sent
  <1>9. SubSeq(begun', 1, n) = begun
    BY <1>1, <1>3, <1>4
  <1> QED
    BY <1>2, <1>8, <1>9 DEF Whole!msgVars, WriteBlock, readVars

\* The kernel has the last byte: the message is sent.
LEMMA WriteCopiesMaps == NioInv /\ WriteCopies => [Whole!Send]_(Whole!msgVars)
  <1> SUFFICES ASSUME NioInv, WriteCopies
               PROVE  [Whole!Send]_(Whole!msgVars)
    OBVIOUS
  <1> DEFINE n == Len(begun)
  <1>1. /\ begun' = begun /\ from' = from /\ writer' = writer /\ reader' = reader /\ got' = got
        /\ writer = "open"
    BY DEF WriteCopies, readVars
  <1>2. CASE Complete' = Complete
    BY <1>1, <1>2 DEF Sent, Whole!msgVars
  <1>3. CASE Complete /\ ~Complete'
    <2>1. PICK c \in 1 .. Smaller(Size(Current) - copied, Room - Buffered) :
            stream' = stream \o Bytes(n, off + copied, c)
      BY DEF WriteCopies
    <2>2. /\ stream \in Seq(Byte) /\ c \in Nat /\ Len(begun) \in Nat
          /\ off + copied \in Nat /\ Len(stream) \in Nat
      BY DEF NioInv, NioTypeOK
    <2>6. stream' = Extended(stream, n, off + copied, c)
      BY <2>1 DEF Extended
    <2>3. Len(stream') = Len(stream) + c
      BY <2>2, <2>6, ExtendedStream
    <2>4. begun # <<>> => from[n] \in Nat /\ Size(Current) \in Nat
      <3>1. SUFFICES ASSUME begun # <<>>
                     PROVE  from[n] \in Nat /\ Size(Current) \in Nat
        OBVIOUS
      <3>2. begun \in Seq(Message) /\ from \in Seq(Nat) /\ Len(from) = n
        BY DEF NioInv, NioTypeOK, LayoutOK
      <3>3. n \in 1 .. n
        BY <3>1, <3>2
      <3> QED
        BY <3>2, <3>3 DEF NioInv, FollowOK, Current
    <2>5. Complete => Complete'
      BY <1>1, <2>2, <2>3, <2>4 DEF Complete, Current
    <2> QED
      BY <1>3, <2>5
  <1>4. CASE ~Complete /\ Complete'
    <2>1. begun \in Seq(Message) /\ n \in Nat /\ n > 0 /\ Len(Sent) = n - 1
          /\ Sent = SubSeq(begun, 1, n - 1)
      BY <1>4, SentSeq DEF NioInv, NioTypeOK
    <2>2. Sent' = begun
      BY <1>1, <1>4 DEF Sent
    <2>3. begun[n] \in Allowed(Sent) /\ n <= MaxMsgs
      BY <2>1 DEF NioInv, FollowOK, Current
    <2>4. begun = Append(Sent, begun[n])
      BY <2>1
    <2>5. begun[n] \in Whole!Allowed(Sent)
      BY <2>3 DEF Allowed, Whole!Allowed, Owed, Whole!Owed, Header, Whole!Header, Body, Whole!Body
    <2>6. Len(Sent) < MaxMsgs
      BY <2>1, <2>3, FramingAssumption
    <2> QED
      BY <1>1, <2>2, <2>4, <2>5, <2>6 DEF Whole!Send
  <1> QED
    BY <1>2, <1>3, <1>4 DEF Complete

\* A read() that ends a message receives it; every other one is not seen.
LEMMA ReadSomeMaps == NioInv /\ ReadSome => [Whole!Receive]_(Whole!msgVars)
  <1> SUFFICES ASSUME NioInv, ReadSome
               PROVE  [Whole!Receive]_(Whole!msgVars)
    OBVIOUS
  <1> DEFINE j == Len(got) + 1
  <1> DEFINE n == Len(begun)
  <1>1. PICK c \in Nat :
               /\ j \in 1 .. Len(begun)
               /\ want = Size(begun[j]) /\ from[j] \in Nat
               /\ taken = from[j] + (want - need)
               /\ c >= 1 /\ c <= need /\ taken + c <= Len(stream)
               /\ taken' = taken + c /\ need' = need - c
               /\ c < need => got' = got
               /\ c = need => got' = Append(got, begun[j])
    BY ReadSomeEffect
  <1>2. /\ begun' = begun /\ from' = from /\ stream' = stream
        /\ writer' = writer /\ reader' = reader /\ reader = "open"
    BY DEF ReadSome, writeVars
  <1>3. Sent' = Sent
    BY <1>2 DEF Sent, Complete, Current
  <1>4. /\ n \in Nat /\ Len(got) \in Nat /\ want \in Nat /\ need \in Nat
        /\ begun \in Seq(Message) /\ Len(stream) \in Nat
    BY Types
  <1>5. CASE c < need
    BY <1>1, <1>2, <1>3, <1>5 DEF Whole!msgVars
  <1>6. CASE c = need
    <2>1. from[j] + Size(begun[j]) <= Len(stream)
      BY <1>1, <1>4, <1>6
    <2>2. CASE Complete
      <3>1. Sent = begun /\ Len(got) < Len(begun)
        BY <1>1, <1>4, <2>2, SentSeq
      <3> QED
        BY <1>1, <1>2, <1>3, <1>6, <3>1 DEF Whole!Receive
    <2>3. CASE ~Complete
      <3>1. j # n
        BY <2>1, <2>3, <1>4 DEF Complete, Current
      <3>2. j \in 1 .. n - 1
        BY <1>1, <1>4, <3>1
      <3>3. Len(Sent) = n - 1 /\ Sent[j] = begun[j]
        BY <2>3, <3>2, SentSeq
      <3>4. Len(got) < Len(Sent)
        BY <1>4, <3>2, <3>3
      <3> QED
        BY <1>1, <1>2, <1>3, <1>6, <3>3, <3>4 DEF Whole!Receive
    <2> QED
      BY <2>2, <2>3
  <1> QED
    BY <1>1, <1>4, <1>5, <1>6

\* The end is reported when every message that was sent has been read.
LEMMA ReadEndsMaps == NioInv /\ ReadEnds => Whole!ReceiveError
  <1> SUFFICES ASSUME NioInv, ReadEnds
               PROVE  Whole!ReceiveError
    OBVIOUS
  <1> DEFINE g == Len(got)
  <1> DEFINE n == Len(begun)
  <1>1. /\ begun' = begun /\ from' = from /\ stream' = stream
        /\ writer' = writer /\ writer = "gone" /\ got' = got
        /\ reader = "open" /\ reader' = "error" /\ need > 0 /\ taken = Len(stream)
    BY DEF ReadEnds, writeVars, Buffered, NioInv, NioTypeOK
  <1>2. /\ n \in Nat /\ g \in Nat /\ g <= n /\ want \in Nat /\ need \in 1 .. want
        /\ begun \in Seq(Message) /\ got \in Seq(Message) /\ Len(stream) \in Nat
        /\ from \in Seq(Nat) /\ Len(from) = n
    BY <1>1, Types
  <1>3. \A k \in 1 .. g : got[k] = begun[k]
    BY DEF NioInv, ReaderOK
  <1>4. CASE g = n
    <2>1. begun # <<>> => n \in 1 .. n /\ g # 0
      BY <1>2, <1>4
    <2>2. Base = Len(stream) /\ (g # 0 => Base = from[n] + Size(begun[n]))
      BY <1>4 DEF NioInv, ReaderOK
    <2>3. Complete
      BY <1>2, <2>1, <2>2 DEF Complete, Current
    <2>4. got = begun
      BY <1>2, <1>3, <1>4, SameMessages
    <2> QED
      BY <1>1, <2>3, <2>4, SentSeq DEF Whole!ReceiveError, Sent, Complete, Current
  <1>5. CASE g < n
    <2>1. g + 1 \in 1 .. n /\ n \in 1 .. n
      BY <1>2, <1>5
    <2>2. want = Size(begun[g + 1]) /\ Base = from[g + 1] /\ from[g + 1] \in Nat
      BY <1>1, <1>2, <1>5, <2>1 DEF NioInv, ReaderOK, FollowOK
    <2>3. Base = taken - (want - need)
      BY <1>1 DEF Base
    <2>4. Len(stream) < from[g + 1] + Size(begun[g + 1])
      BY <1>1, <1>2, <2>2, <2>3
    <2>5. g + 1 = n
      <3>1. SUFFICES ASSUME g + 1 # n
                     PROVE  FALSE
        OBVIOUS
      <3>2. g + 1 < n
        BY <1>2, <1>5, <3>1
      <3>6. from[n] \in Nat
        BY <1>2, <2>1
      <3>3. from[g + 1] + Size(begun[g + 1]) <= from[n]
        BY <2>1, <3>2 DEF NioInv, LayoutOK
      <3>4. begun # <<>> /\ Size(Current) \in Nat
        BY <1>2, <2>1 DEF NioInv, FollowOK, Current
      <3>5. from[n] <= Len(stream)
        <4>1. CASE left = 0
          BY <1>2, <3>6, <3>4, <4>1 DEF NioInv, WriterOK
        <4>2. CASE left > 0
          BY <1>2, <3>6, <3>4, <4>2 DEF NioInv, WriterOK
        <4>3. left \in Nat
          BY NioAssumption DEF NioInv, NioTypeOK
        <4> QED
          BY <4>1, <4>2, <4>3
      <3> QED
        BY <1>2, <2>2, <2>4, <3>3, <3>5, <3>6
    <2>6. ~Complete
      BY <1>2, <2>1, <2>2, <2>4, <2>5 DEF Complete, Current
    <2>7. Len(Sent) = g /\ \A k \in 1 .. g : Sent[k] = begun[k]
      BY <1>2, <2>5, <2>6, SentSeq
    <2>8. Sent \in Seq(Message)
      <3>1. Sent = SubSeq(begun, 1, g)
        BY <1>2, <2>5, <2>6, SentSeq
      <3> QED
        BY <1>2, <1>5, <3>1
    <2>9. got = Sent
      BY <1>2, <1>3, <2>7, <2>8, SameMessages
    <2> QED
      BY <1>1, <2>9 DEF Whole!ReceiveError, Sent, Complete, Current
  <1> QED
    BY <1>2, <1>4, <1>5

\* No other step is seen, or it is one end going away.
LEMMA OtherStepsMap ==
  ASSUME NioInv, WriteReturns \/ WriteFails \/ WriterStops \/ ReadBlock \/ ReaderStops
                 \/ UNCHANGED nioVars
  PROVE  [Whole!SenderStops \/ Whole!ReceiverStops]_(Whole!msgVars)
  <1>1. Sent' = Sent /\ got' = got
    BY DEF WriteReturns, WriteFails, WriterStops, ReadBlock, ReaderStops, nioVars,
           writeVars, readVars, Sent, Complete, Current
  <1>2. CASE WriteFails \/ WriterStops
    BY <1>1, <1>2 DEF WriteFails, WriterStops, readVars, Whole!SenderStops
  <1>3. CASE ReaderStops
    BY <1>1, <1>3 DEF ReaderStops, writeVars, Whole!ReceiverStops
  <1>4. CASE WriteReturns \/ ReadBlock \/ UNCHANGED nioVars
    BY <1>1, <1>4 DEF WriteReturns, ReadBlock, nioVars, writeVars, readVars, Whole!msgVars
  <1> QED
    BY <1>2, <1>3, <1>4

-----------------------------------------------------------------------------
\* nio_readblock never stands anywhere but inside the message it is asked for.
LEMMA InvInStep == NioInv => ReaderInStep
  <1> SUFFICES ASSUME NioInv, need # want
               PROVE  LET next == Len(got) + (IF need = 0 THEN 0 ELSE 1)
                      IN  /\ next \in 1 .. Len(begun)
                          /\ Size(begun[next]) = want
                          /\ from[next] = taken - (want - need)
                          /\ \A i \in 1 .. want - need : stream[from[next] + i] = ByteAt(next, i)
    BY DEF ReaderInStep
  <1>1. /\ Len(got) \in Nat /\ Len(begun) \in Nat /\ Len(got) <= Len(begun)
        /\ want \in Nat /\ need \in 0 .. want /\ taken \in 0 .. Len(stream) /\ Len(stream) \in Nat
        /\ from \in Seq(Nat) /\ Len(from) = Len(begun)
    BY Types
  <1>2. ASSUME NEW k \in 1 .. Len(begun), Size(begun[k]) = want,
               from[k] = taken - (want - need)
        PROVE  \A i \in 1 .. want - need : stream[from[k] + i] = ByteAt(k, i)
    <2> SUFFICES ASSUME NEW i \in 1 .. want - need
                 PROVE  stream[from[k] + i] = ByteAt(k, i)
      OBVIOUS
    <2>1. from[k] \in Nat
      BY <1>1
    <2>2. i \in 1 .. Size(begun[k]) /\ from[k] + i <= Len(stream)
      BY <1>1, <1>2, <2>1
    <2> QED
      BY <2>2 DEF NioInv, LayoutOK
  <1>3. CASE need = 0
    <2>1. /\ Len(got) \in 1 .. Len(begun) /\ Size(begun[Len(got)]) = want
          /\ from[Len(got)] = taken - want
      BY <1>1, <1>3 DEF NioInv, ReaderOK
    <2>2. want - need = want
      BY <1>1, <1>3
    <2> QED
      BY <1>1, <1>2, <1>3, <2>1, <2>2
  <1>4. CASE need > 0
    <2>1. Buffered > 0 \/ Buffered = 0
      BY <1>1 DEF Buffered
    <2>2. Len(got) # Len(begun)
      <3>1. SUFFICES ASSUME Len(got) = Len(begun)
                     PROVE  FALSE
        OBVIOUS
      <3>2. Base = Len(stream) /\ Base = taken - (want - need)
        BY <1>4, <3>1 DEF NioInv, ReaderOK, Base
      <3> QED
        BY <1>1, <3>2
    <2>3. Len(got) + 1 \in 1 .. Len(begun) /\ Len(got) < Len(begun)
      BY <1>1, <2>2
    <2>4. Size(begun[Len(got) + 1]) = want /\ from[Len(got) + 1] = taken - (want - need)
      BY <1>4, <2>3 DEF NioInv, ReaderOK, FollowOK, Base
    <2> QED
      BY <1>1, <1>2, <1>4, <2>3, <2>4
  <1> QED
    BY <1>1, <1>3, <1>4

\* NioBlock's ReaderInStep, for every length, room and cut of the transfers.
THEOREM ReaderStaysInStep ==
  ASSUME ~ShortWrites
  PROVE  NioSpec => []ReaderInStep
  <1>1. NioInit => NioInv
    BY NioStart
  <1>2. NioInv /\ [NioNext]_nioVars => NioInv'
    BY NioStep
  <1> QED
    BY <1>1, <1>2, InvInStep, PTL DEF NioSpec

\* What nio_readblock returns is a message, never bytes of two, and no counter of
\* the two loops wraps below zero.
THEOREM NioTypeCorrect ==
  ASSUME ~ShortWrites
  PROVE  NioSpec => []NioTypeOK
  <1>1. NioInit => NioInv
    BY NioStart
  <1>2. NioInv /\ [NioNext]_nioVars => NioInv'
    BY NioStep
  <1>3. NioInv => NioTypeOK
    BY DEF NioInv
  <1> QED
    BY <1>1, <1>2, <1>3, PTL DEF NioSpec

\* nio_readblock and nio_writeblock implement the whole messages that the
\* programs rely on: each step of the loops is a step of Messages or unseen.
THEOREM MessagesAreWhole ==
  ASSUME ~ShortWrites
  PROVE  NioSpec => Whole!MsgSafe
  <1>1. NioInit => NioInv /\ Whole!MsgInit
    <2>1. NioInit => Sent = <<>>
      BY DEF NioInit, Sent, Complete
    <2> QED
      BY <2>1, NioStart DEF NioInit, Whole!MsgInit
  <1>2. NioInv /\ [NioNext]_nioVars => NioInv'
    BY NioStep
  <1>3. NioInv /\ NioInv' /\ [NioNext]_nioVars => [Whole!MsgNext]_(Whole!msgVars)
    BY WriteBlockMaps, WriteCopiesMaps, ReadSomeMaps, ReadEndsMaps, OtherStepsMap
       DEF NioNext, Whole!MsgNext
  <1> QED
    BY <1>1, <1>2, <1>3, PTL DEF NioSpec, Whole!MsgSafe
=============================================================================
