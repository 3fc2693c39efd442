------------------------------- MODULE Fields -------------------------------
(***************************************************************************)
(* The two byte layers of keyit: the canonical encoding that is signed and *)
(* hashed (keyit-protocol/src/canonical.rs) and the length-prefixed fields *)
(* of the relay's envelopes (keyit-relay/src/lib.rs).  A byte string is a  *)
(* sequence of naturals; the eight bytes of a big-endian u64 are one       *)
(* natural, so that a length prefix and a one-byte value can be mistaken   *)
(* for each other exactly where the code could mistake eight bytes.        *)
(***************************************************************************)
EXTENDS Naturals, Sequences

Bytes == Seq(Nat)

-----------------------------------------------------------------------------
(* Writing. *)

PushField(b) == <<Len(b)>> \o b

PushU64(n) == <<n>>

\* None is the empty sequence, Some(b) is <<b>>.
PushOptBytes(opt) == IF opt = <<>> THEN <<0>> ELSE <<1>> \o PushField(opt[1])

-----------------------------------------------------------------------------
(* Reading.  A read either fails or returns the value and the cursor after *)
(* it.                                                                     *)

Truncated == [ok |-> FALSE]

Read(value, cursor) == [ok |-> TRUE, value |-> value, cursor |-> cursor]

ReadU64(cursor) ==
    IF cursor = <<>> THEN Truncated ELSE Read(Head(cursor), Tail(cursor))

ReadField(cursor) ==
    IF cursor = <<>> \/ Len(cursor) - 1 < cursor[1]
    THEN Truncated
    ELSE Read(SubSeq(cursor, 2, cursor[1] + 1),
              SubSeq(cursor, cursor[1] + 2, Len(cursor)))
=============================================================================
