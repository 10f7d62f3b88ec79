------------------------------ MODULE Payloads ------------------------------
(***************************************************************************)
(* What the vendor library passes to a report function next to the         *)
(* ReportInfo, a pointer and a length, and how the handlers of the HRIL    *)
(* sub-modules treat it.  Of the data only what the handlers test is kept: *)
(* whether the pointer is null and how the length relates to the record    *)
(* the handler expects.                                                    *)
(***************************************************************************)
EXTENDS FiniteSets

(* "none"      a null pointer, length 0                                    *)
(* "nullLong"  a null pointer with another length                          *)
(* "empty"     a pointer with length 0                                     *)
(* "fits"      one record; for a string, the text                          *)
(* "many"      two records or more                                         *)
(* "short"     a pointer with a length of less than one record             *)
(* "bad"       one record whose content the handler does not accept        *)
(* "verdict"   one record that says itself what failed: a refused password *)
(*             or unlock, the reason of a failed PDP context               *)
Payload == {"none", "nullLong", "empty", "fits", "many", "short", "bad",
            "verdict"}

NullPayloads  == {"none", "nullLong"}
DataPayloads  == Payload \ NullPayloads
OneRecord     == {"fits", "bad", "verdict"}
WholeRecords  == OneRecord \union {"empty", "many"}

(* A response handler: the payloads it forwards to the callback, those for *)
(* which it sets the error to INVALID_RESPONSE when it was NONE, and those *)
(* for which it sets the error to NONE.  What is not forwarded is logged   *)
(* and dropped: the caller hears nothing.                                  *)
Handler == [forwards : SUBSET Payload, fills : SUBSET Payload,
            clears : SUBSET Payload]

Forwards(ps) == [forwards |-> ps, fills |-> {}, clears |-> {}]
Filling(ps, qs) == [forwards |-> ps, fills |-> qs, clears |-> {}]

(* Nothing of the payload is read.                                         *)
Bare == Forwards(Payload)
(* Nothing is ever forwarded.                                              *)
Mute == Forwards({})

(* Faulty: a failure, reported without a record, is dropped.               *)
RecordOnly == Forwards(OneRecord)

OptionalRecord == Forwards({"none"} \union OneRecord)
OptionalList   == Forwards({"none"} \union WholeRecords)

(* Faulty: the error is put in when there is something to read.            *)
LenientInverted == Filling(Payload, OneRecord)

(* Faulty: no error is put in.                                             *)
LenientUnfilled == Forwards(Payload)

(* Always forwarded; an error is put in when there is nothing to read.     *)
LenientRecord == Filling(Payload, NullPayloads \union {"empty", "short"})
LenientText   == Filling(Payload, NullPayloads \union {"empty"})
LenientExact  == Filling(Payload, Payload \ OneRecord)

(* The payloads a notification handler forwards.                           *)
AnyNotice      == Payload
RecordNotice   == OneRecord
ListNotice     == WholeRecords \ {"empty"}
TextNotice     == DataPayloads \ {"empty"}

(* A request as a sub-module makes it.  "direct" requests create the       *)
(* request record themselves; the others go through RequestVendor.  A      *)
(* checked request may be refused before anything else happens.            *)
ViaVendor(code, op)     == [code |-> code, op |-> op, path |-> "vendor",
                            checked |-> FALSE]
ViaOwnCall(code, op)    == [code |-> code, op |-> op, path |-> "direct",
                            checked |-> FALSE]
CheckedVendor(code, op) == [code |-> code, op |-> op, path |-> "vendor",
                            checked |-> TRUE]
=============================================================================
