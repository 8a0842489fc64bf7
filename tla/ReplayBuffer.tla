---------------------------- MODULE ReplayBuffer ----------------------------
(***************************************************************************)
(* The queue of sent but unacknowledged ACP frames that each peer keeps    *)
(* (`pending` in client.rs and in server.rs) and the limits that stop the  *)
(* peer from reading its local pipe.  The code also keeps `pending_bytes`, *)
(* which it updates with every push and pop: here it is the total size.    *)
(***************************************************************************)
EXTENDS Integers, Sequences

CONSTANTS Size  \* the length in bytes of every payload

\* What ServerConfig::validate and validate_options insist on: an empty buffer
\* has room for a frame of any size that is let in.
ValidLimits(maxFrames, maxBytes, maxFrameBytes) ==
    maxFrames > 0 /\ maxFrameBytes > 0 /\ maxBytes >= maxFrameBytes

\* pending_bytes
Bytes(pending) ==
    LET total[i \in 0 .. Len(pending)] ==
          IF i = 0 THEN 0 ELSE total[i - 1] + Size[pending[i].payload]
    IN  total[Len(pending)]

\* can_read_stdin and the replay part of can_read_agent: one more frame of
\* the largest size is sure to fit (the subtraction saturates).
CanRead(pending, maxFrames, maxBytes, maxFrameBytes) ==
    /\ Len(pending) < maxFrames
    /\ Bytes(pending) <= IF maxBytes > maxFrameBytes
                           THEN maxBytes - maxFrameBytes ELSE 0

\* Mutant: the frame limit is not looked at.
MutantFits(pending, payload, maxFrames, maxBytes) ==
    Bytes(pending) + Size[payload] <= maxBytes + 1

\* replay_fits: this payload fits.
Fits(pending, payload, maxFrames, maxBytes) ==
    /\ Len(pending) < maxFrames
    /\ Bytes(pending) + Size[payload] <= maxBytes

\* Mutant: the comparison is off by one and frees one frame too many.
MutantPops(pending, sequence, k) ==
    /\ \A i \in 1 .. k : pending[i].sequence <= sequence + 1
    /\ k < Len(pending) => pending[k + 1].sequence > sequence + 1

\* A cumulative acknowledgement pops frames from the front while they are
\* covered by it; exactly k frames are.
Pops(pending, sequence, k) ==
    /\ \A i \in 1 .. k : pending[i].sequence <= sequence
    /\ k < Len(pending) => pending[k + 1].sequence > sequence

Popped(pending, k) == SubSeq(pending, k + 1, Len(pending))
=============================================================================
