----------------------------- MODULE WireFrame -----------------------------
(***************************************************************************)
(* A session's read loop: Session::run (src/src/session.cpp) reads a      *)
(* message with Session::readMsg and then dispatches on msg.opcode(),      *)
(* which Message (src/src/proto.h) reads from the header at the start of  *)
(* the buffer: reqID, responseTo and opcode, twelve bytes (Header is       *)
(* packed); the message body is parsed from pos_ = sizeof(Header) on.      *)
(*                                                                         *)
(* readMsg reads a uint32_t length; one above 16 MiB is an HTTP GET (the   *)
(* bytes "GET " read as a length) or refused.  Otherwise it allocates a    *)
(* vector of len - sizeof(len) bytes: size_t arithmetic, so below 4 the    *)
(* size wraps modulo 2^64, past vector<char>::max_size() (PTRDIFF_MAX),    *)
(* and the constructor throws std::length_error.  A length is a member of *)
(* Lens; the bytes of a message are not modelled, only how many there are. *)
(***************************************************************************)
EXTENDS Integers

CONSTANTS
  Lens,      \* lengths clients send (uint32_t values)
  MaxMsgs    \* bound on the messages of a session

MaxLen == 16 * 1024 * 1024       \* readMsg's limit
HttpMagic == 542393671           \* 0x20544547, "GET " little-endian
HeaderSize == 12                 \* sizeof(Message::Header)

VARIABLES
  pc,     \* read (in readMsg), dispatch (after it), closed, crashed (the process)
  size,   \* data_.size() of the message read
  how,    \* why the session ended
  msgs,   \* messages dispatched so far
  oob     \* a header was read outside the message's buffer

vars == <<pc, size, how, msgs, oob>>

Init == pc = "read" /\ size = 0 /\ how = "none" /\ msgs = 0 /\ oob = FALSE

\* len - sizeof(len) exceeds vector<char>::max_size(), 2^63 - 1: below 4 it
\* wraps to 2^64 + len - 4 >= 2^64 - 4; from 4 on it is at most 2^32 - 5.
\* (TLC's integers are 32-bit, so the comparison is stated for the wrap.)
BodyTooLarge(len) == len < 4

\* performHttp: no request line (stream_ >> query fails) ends it at once;
\* otherwise http::dispatch answers and the response is written.  Either
\* way readMsg then returns false.
HttpOutcomes == {"http_noquery", "http"}

\* readMsg with the length len, and run's return when it fails.
ReadMsg(len) ==
  /\ pc = "read" /\ msgs < MaxMsgs
  /\ \/ len > MaxLen /\ len = HttpMagic /\ pc' = "closed" /\ how' \in HttpOutcomes /\ UNCHANGED size
     \/ len > MaxLen /\ len # HttpMagic /\ pc' = "closed" /\ how' = "toolong" /\ UNCHANGED size
     \/ len <= MaxLen /\ BodyTooLarge(len) /\ pc' = "closed" /\ how' = "length_error" /\ UNCHANGED size
     \/ len <= MaxLen /\ ~BodyTooLarge(len) /\ pc' = "dispatch" /\ size' = len - 4 /\ UNCHANGED how
  /\ UNCHANGED <<msgs, oob>>

\* The client closes the connection, before the length or inside the body.
Eof ==
  /\ pc = "read"
  /\ pc' = "closed" /\ how' = "eof"
  /\ UNCHANGED <<size, msgs, oob>>

\* msg.opcode() reads the header.  Within the buffer, the branch parses
\* the body (messages::Query and the others throw "message truncated"
\* out of run when it is short) and serves it.  Outside, the read is
\* undefined: an empty vector's data() is null, so the process faults;
\* a short one reads the allocator's bytes behind it, and the opcode
\* matches some branch, whose parse throws, or none.
Dispatch ==
  /\ pc = "dispatch"
  /\ oob' = (size < HeaderSize)
  /\ \/ size >= HeaderSize /\ pc' = "read" /\ msgs' = msgs + 1 /\ UNCHANGED how
     \/ size >= HeaderSize /\ pc' = "closed" /\ how' = "truncated" /\ UNCHANGED msgs
     \/ size = 0 /\ pc' = "crashed" /\ how' = "segv" /\ UNCHANGED msgs
     \/ size \in 1..HeaderSize - 1 /\ pc' \in {"read", "closed"} /\ msgs' = msgs + 1
        /\ how' = IF pc' = "closed" THEN "truncated" ELSE how
  /\ UNCHANGED size

Next == (\E len \in Lens : ReadMsg(len)) \/ Eof \/ Dispatch

Spec == Init /\ [][Next]_vars

-----------------------------------------------------------------------------
TypeOK ==
  /\ pc \in {"read", "dispatch", "closed", "crashed"}
  /\ size \in 0..MaxLen
  /\ msgs \in 0..MaxMsgs
  /\ oob \in BOOLEAN

\* Spec §7: every message starts with the 16-byte header {length, reqId,
\* responseTo, opcode}.  Whatever lengths a client sends, Session::run
\* reads the header of a message only when readMsg read that much, so no
\* length makes it read outside the buffer (or fault the process).
HeaderInBounds == ~oob /\ pc # "crashed"
=============================================================================
