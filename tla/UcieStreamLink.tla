--------------------------- MODULE UcieStreamLink ---------------------------
(***************************************************************************)
(* One direction of the flit transport (rtl/ucie_stream_link.sv): a        *)
(* registered one-deep skid buffer between a transmitter and a receiver.   *)
(*                                                                         *)
(* `buf' is the pair full/data_q: the flit held, or None when not full.    *)
(* The wires in_ready and out_valid/out_data are operators of the register *)
(* (and of the receiver's ready); one clock edge is one of the actions     *)
(* Load, Drain and Hold, given the flit offered upstream (None when        *)
(* in_valid is low) and the ready offered downstream.                      *)
(***************************************************************************)
CONSTANT None
VARIABLE buf

Init == buf = None

\* in_ready: empty, or the held flit is being taken in this very cycle.
InReady(outReady) == buf = None \/ outReady

Load(in, outReady) ==
  /\ in # None
  /\ InReady(outReady)
  /\ buf' = in

Drain(in, outReady) ==
  /\ in = None
  /\ buf # None
  /\ outReady
  /\ buf' = None

Hold(in, outReady) ==
  /\ in = None \/ ~InReady(outReady)
  /\ buf = None \/ ~outReady
  /\ UNCHANGED buf

Clock(in, outReady) ==
  \/ Load(in, outReady)
  \/ Drain(in, outReady)
  \/ Hold(in, outReady)
=============================================================================
