---------------------------- MODULE ReliablePipe ----------------------------
(***************************************************************************)
(* What the tunnel promises for one direction: a pipe.  Lines are written  *)
(* at one end and come out at the other, in order, none twice and none     *)
(* skipped.  Both directions of Tunnel implement it.                       *)
(***************************************************************************)
EXTENDS Naturals, Sequences

VARIABLES written,   \* the lines put in
          delivered  \* the lines that came out

PipeInit == written = << >> /\ delivered = << >>

Write == /\ Len(written') = Len(written) + 1
         /\ written = SubSeq(written', 1, Len(written))
         /\ UNCHANGED delivered

Deliver == /\ Len(delivered) < Len(written)
           /\ delivered' = Append(delivered, written[Len(delivered) + 1])
           /\ UNCHANGED written

PipeSpec == PipeInit /\ [][Write \/ Deliver]_<<written, delivered>>
=============================================================================
