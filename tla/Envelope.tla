------------------------------- MODULE Envelope -------------------------------
(***************************************************************************)
(* The v1 envelope of a WebSocket frame: a header of 17 bytes before the   *)
(* payload. Three pieces of code must agree on it: Julia builds it, Rust   *)
(* builds it again for native generators, and Rust checks it for Julia's.  *)
(*                                                                         *)
(* Of a frame we keep its size in bytes and the two fields of the header   *)
(* that is_valid looks at; content type, flags and time are free for the   *)
(* sender to choose, and the fields' byte order is little-endian on both   *)
(* sides. The length has 32 bits: LenLimit is 2^32.                        *)
(***************************************************************************)
EXTENDS Naturals

CONSTANT LenLimit

ASSUME LenAssumption == LenLimit \in Nat \ {0}

HeaderLen == 17
V1 == 1

Envelopes == [size : Nat, version : 0..255, payload_len : 0..(LenLimit - 1)]

\* An empty Vec, which the channel has before the first frame; no header fits in.
EmptyFrame == [size |-> 0, version |-> 0, payload_len |-> 0]

\* _build_envelope_v1 throws for a payload whose length is no UInt32.
Builds(n) == n < LenLimit

Built(n) == [size |-> HeaderLen + n, version |-> V1, payload_len |-> n]

\* Mutant of BuiltInline: the length is that of the frame.
BuiltInlineWhole(n) ==
    [size |-> HeaderLen + n, version |-> V1, payload_len |-> (HeaderLen + n) % LenLimit]

\* fmh_register_axis_ws_stream builds it for any length, "as u32".
BuiltInline(n) == [size |-> HeaderLen + n, version |-> V1, payload_len |-> n % LenLimit]

\* validate_envelope: a header, the version, and the length of what follows.
Valid(frame) ==
    /\ frame.size >= HeaderLen
    /\ frame.version = V1
    /\ frame.payload_len = frame.size - HeaderLen
=============================================================================
