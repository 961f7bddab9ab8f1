------------------------------ MODULE MIPFrame ------------------------------
(***************************************************************************)
(* MIPFrame.cpp: 14 bytes of Ethernet header, a word of MIP header, and a  *)
(* message of a multiple of 4 bytes.  A frame is its m_data.               *)
(***************************************************************************)
EXTENDS ByteVector

CONSTANT FRAME_MAX_SIZE   \* 1514

ETH_HEADER_SIZE   == 14
MIP_HEADER_SIZE   == 4
FRAME_HEADER_SIZE == 18
MSG_MAX_SIZE      == FRAME_MAX_SIZE - FRAME_HEADER_SIZE

TRA == [ZERO |-> 0, T |-> 1, R |-> 2, A |-> 4]

New == Resized(<<>>, FRAME_HEADER_SIZE)

\* A MAC address is a sequence of six bytes.
setEthDest(f, dest)     == Copied(f, 0, dest)
setEthSource(f, source) == Copied(f, 6, source)
getEthDest(f)           == Slice(f, 0, 6)
getEthSource(f)         == Slice(f, 6, 6)

setMipTRA(f, tra)       == WithField(f, ETH_HEADER_SIZE, 0, 3, tra)
setMipDest(f, dest)     == WithField(f, ETH_HEADER_SIZE, 3, 8, dest)
setMipSource(f, source) == WithField(f, ETH_HEADER_SIZE, 11, 8, source)
setMipTTL(f, ttl)       == WithField(f, ETH_HEADER_SIZE, 28, 4, ttl)
getMipTRA(f)            == Field(f, ETH_HEADER_SIZE, 0, 3)
getMipDest(f)           == Field(f, ETH_HEADER_SIZE, 3, 8)
getMipSource(f)         == Field(f, ETH_HEADER_SIZE, 11, 8)
getMipTTL(f)            == Field(f, ETH_HEADER_SIZE, 28, 4)

\* The length in the header counts words, the one of the header included.
getMsgSize(f) ==
  LET n == Field(f, ETH_HEADER_SIZE, 19, 9)
  IN  IF n > 0 THEN n * 4 - MIP_HEADER_SIZE ELSE 0

setMsgSize(f, size) ==
  LET words == IF size = 0 THEN 0 ELSE (size + MIP_HEADER_SIZE + 3) \div 4
      f2    == WithField(f, ETH_HEADER_SIZE, 19, 9, words)
  IN  Resized(f2, FRAME_HEADER_SIZE + getMsgSize(f2))

getMsg(f) == Slice(f, FRAME_HEADER_SIZE, getMsgSize(f))

\* It leaves 4 bytes more than asked for.
setSize(f, size) == setMsgSize(f, size - ETH_HEADER_SIZE)

\* A mutation: the room for the largest frame is kept.
BugRecvMipFrame(f, bytes) ==
  Copied(IF Len(f) < FRAME_MAX_SIZE THEN setSize(f, FRAME_MAX_SIZE) ELSE f, 0, bytes)

\* RawSock.cpp: room for the largest frame, what arrived, and then the size
\* its header tells.
recvMipFrame(f, bytes) ==
  LET room == IF Len(f) < FRAME_MAX_SIZE THEN setSize(f, FRAME_MAX_SIZE) ELSE f
      got  == Copied(room, 0, bytes)
  IN  setMsgSize(got, getMsgSize(got))

\* The vector is as long as the header tells.
WellSized(f) ==
  /\ f \in Seq(Byte)
  /\ Len(f) = FRAME_HEADER_SIZE + getMsgSize(f) /\ Len(f) <= FRAME_MAX_SIZE
=============================================================================
