----------------------------- MODULE MIPTPFrame -----------------------------
(***************************************************************************)
(* MIPTPFrame.cpp: a word of header, a sequence number of two bytes, a     *)
(* message, and padding up to what MIPFrame can express.  A frame is its   *)
(* m_data.                                                                 *)
(***************************************************************************)
EXTENDS ByteVector

CONSTANT FRAME_MAX_SIZE   \* 1496

FRAME_HEADER_SIZE  == 6
FRAME_MAX_MSG_SIZE == FRAME_MAX_SIZE - FRAME_HEADER_SIZE

Packet_Type == [request |-> 0, reply |-> 1, data |-> 2, sack |-> 3]

setType(f, type)       == WithField(f, 0, 0, 2, type)
setPadding(f, padding) == WithField(f, 0, 2, 2, padding)
setDest(f, dest)       == WithField(f, 0, 4, 14, dest)
setSource(f, source)   == WithField(f, 0, 18, 14, source)
getType(f)             == Field(f, 0, 0, 2)
getPadding(f)          == Field(f, 0, 2, 2)
getDest(f)             == Field(f, 0, 4, 14)
getSource(f)           == Field(f, 0, 18, 14)

setSequenceNumber(f, seq) == Copied(f, 4, <<ByteOf(seq), ByteOf(seq \div 256)>>)
getSequenceNumber(f)      == NumberOf(f[5]) + 256 * NumberOf(f[6])

calcPadding(size) == (4 - (size % 4)) % 4

\* A mutation: the padding of the message before is still told.
BugSetMsgSize(f, size) ==
  LET padding == calcPadding(size + FRAME_HEADER_SIZE + 4)
  IN  Resized(f, FRAME_HEADER_SIZE + size + padding)

\* With its padding, and the MIP header, a frame is a number of words.
setMsgSize(f, size) ==
  LET padding == calcPadding(size + FRAME_HEADER_SIZE + 4)
  IN  Resized(setPadding(f, padding), FRAME_HEADER_SIZE + size + padding)

setSize(f, size) == Resized(f, size)
getMsgSize(f)    == Len(f) - FRAME_HEADER_SIZE - getPadding(f)
getMsg(f)        == Slice(f, FRAME_HEADER_SIZE, getMsgSize(f))

New == setMsgSize(Resized(<<>>, FRAME_HEADER_SIZE), 0)
=============================================================================
