------------------------------- MODULE Framing -------------------------------
(***************************************************************************)
(* One framed request on its way to the helper (read_frame in              *)
(* src/src/protocol.rs, called by handle_connection under the socket's     *)
(* read timeout): a length prefix, a cap on it, an allocation, the body.   *)
(* The bytes come in pieces, late, or never; read_exact calls read until   *)
(* it has all it wants, and the timeout is that of one call of read.       *)
(***************************************************************************)
EXTENDS Integers, SequencesExt

CONSTANTS
    Base,        \* the values of a byte
    MaxBody,     \* MAX_BODY_BYTES
    IoTimeout    \* IO_TIMEOUT

PrefixLen == 4   \* the bytes of the length prefix, a u32
MaxLength == Base * Base * Base * Base - 1

ASSUME FrameAssumption ==
    /\ Base \in Nat /\ Base > 1
    /\ MaxBody \in Nat /\ MaxBody <= MaxLength
    /\ IoTimeout \in Nat \ {0}

Bytes == 0..(Base - 1)
Lengths == 0..MaxLength
Bodies == UNION {[1..n -> Bytes] : n \in 0..(MaxBody + 1)}

Shift(n) == n \div Base
to_be_bytes(n) ==
    <<Shift(Shift(Shift(n))) % Base, Shift(Shift(n)) % Base, Shift(n) % Base, n % Base>>

from_be_bytes(p) == ((p[1] * Base + p[2]) * Base + p[3]) * Base + p[4]

VARIABLES
    announced,\* the length the peer puts in front
    body,     \* and what it puts behind it
    unsent,   \* bytes the peer has not sent yet
    wire,     \* bytes sent and not read
    closed,   \* the peer has closed its end
    pc,       \* "len", "body": in a read_exact; "ok", "err": read_frame has returned
    buf,      \* what the current read_exact has
    alloc,    \* the size of the body's buffer
    waited,   \* how long the current call of read has waited
    elapsed   \* how long read_frame has taken, capped at ElapsedCap

peer == <<announced, body, unsent, closed>>
vars == <<peer, wire, pc, buf, alloc, waited, elapsed>>

ElapsedCap == (PrefixLen + MaxBody) * IoTimeout + 1
Reading == pc \in {"len", "body"}
\* mutated form: the body is read into a buffer of the largest size
WantLargest == IF pc = "len" THEN PrefixLen ELSE MaxBody
Want == IF pc = "len" THEN PrefixLen ELSE alloc

\* write_frame announces the length of its body, and refuses one above the cap;
\* a peer with code of its own announces any length.
Init ==
    /\ body \in Bodies /\ announced \in Lengths
    /\ unsent = to_be_bytes(announced) \o body
    /\ wire = <<>> /\ closed = FALSE
    /\ pc = "len" /\ buf = <<>> /\ alloc = 0
    /\ waited = 0 /\ elapsed = 0

-----------------------------------------------------------------------------
(* read_frame *)

Return(result) == pc' = result

\* mutated form: a body of the cap's size is too large
AtCap(n) == n >= MaxBody
\* mutated form: the cap is not looked at
NoCap(n) == FALSE
Oversized(n) == n > MaxBody

\* What follows a read_exact that is complete: the length is checked before the
\* buffer is made; an empty body needs no read.
Complete(bytes) ==
    \/ /\ pc = "len"
       /\ LET n == from_be_bytes(bytes)
          IN  \/ Oversized(n) /\ Return("err") /\ buf' = <<>> /\ UNCHANGED alloc
              \/ ~Oversized(n) /\ alloc' = n /\ buf' = <<>> /\ Return(IF n = 0 THEN "ok" ELSE "body")
    \/ /\ pc = "body"
       /\ Return("ok") /\ buf' = bytes /\ UNCHANGED alloc

\* One call of read: some of what has come, never more than is wanted.
Read ==
    /\ Reading /\ wire # <<>>
    /\ \E k \in 1..Len(wire) :
        /\ Len(buf) + k <= Want
        /\ wire' = SubSeq(wire, k + 1, Len(wire))
        /\ LET bytes == buf \o SubSeq(wire, 1, k)
           IN  IF Len(bytes) = Want THEN Complete(bytes)
               ELSE buf' = bytes /\ UNCHANGED <<pc, alloc>>
    /\ waited' = 0
    /\ UNCHANGED <<peer, elapsed>>

\* mutated form: set_read_timeout is not called
NeverTimedOut == FALSE
TimedOut == waited >= IoTimeout

\* read gives up, or finds the end of the stream.
ReadFails ==
    /\ Reading /\ wire = <<>>
    /\ TimedOut \/ closed
    /\ Return("err")
    /\ UNCHANGED <<peer, wire, buf, alloc, waited, elapsed>>

-----------------------------------------------------------------------------
(* The peer, and time *)

Send ==
    /\ unsent # <<>> /\ ~closed
    /\ wire' = Append(wire, Head(unsent)) /\ unsent' = Tail(unsent)
    /\ UNCHANGED <<announced, body, closed, pc, buf, alloc, waited, elapsed>>

Close ==
    /\ ~closed /\ closed' = TRUE
    /\ UNCHANGED <<announced, body, unsent, wire, pc, buf, alloc, waited, elapsed>>

\* The kernel wakes the reader when there is something to read, and at its
\* timeout.
Tick ==
    /\ Reading /\ wire = <<>> /\ ~closed /\ waited < IoTimeout
    /\ waited' = waited + 1
    /\ elapsed' = IF elapsed < ElapsedCap THEN elapsed + 1 ELSE elapsed
    /\ UNCHANGED <<peer, wire, pc, buf, alloc>>

Next == Read \/ ReadFails \/ Send \/ Close \/ Tick

\* The helper runs and time passes; the peer owes nothing.
Spec == Init /\ [][Next]_vars /\ WF_vars(Read \/ ReadFails) /\ WF_vars(Tick)

-----------------------------------------------------------------------------
(* Properties *)

\* However the bytes are cut up on their way, a body that is returned is what
\* the peer sent, as long as it announced: the reverse of write_frame.
FrameIsExact == pc = "ok" => Len(buf) = announced /\ IsPrefix(buf, body)

\* A frame that is refused though its peer was there and in time is one above
\* the cap: write_frame and read_frame agree on the largest body.
CapIsExact == pc = "err" /\ ~closed /\ waited < IoTimeout => announced > MaxBody

\* read_frame comes back, whatever the peer does or leaves undone.
FrameEnds == <>(~Reading)

\* It takes at most the timeout for every byte of the largest frame, which is
\* all the read timeout and the cap promise together.
TimeIsBounded == elapsed < ElapsedCap

-----------------------------------------------------------------------------
(* What the repository's documents say and the code does not do. *)

\* server.rs on IO_TIMEOUT: "Per-connection read/write timeout, so a stalled
\* peer cannot pin a slot."; the README: "a per-connection 30s I/O timeout".
PerConnectionTimeout == elapsed <= IoTimeout
=============================================================================
