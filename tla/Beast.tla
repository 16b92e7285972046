------------------------------- MODULE Beast -------------------------------
(***************************************************************************)
(* The Beast hex frames a station may send instead of JSON                 *)
(* (internal/beast, report.fromBeast).  Of a frame there is what the code  *)
(* looks at: downlink format, length, type code, and the twelve bits that  *)
(* an airborne position (DF 17) has its altitude in and a surveillance     *)
(* reply (DF 5) its identity.                                              *)
(***************************************************************************)
EXTENDS Altitude

CONSTANTS
    Formats,      \* the downlink formats looked at
    TypeCodes     \* the type codes looked at

VARIABLES
    frame,
    report        \* the report's altitude and squawk, once there is one

Frames == [df : Formats, long : BOOLEAN, tc : TypeCodes, bits : Fields]

NotParsed == [alt |-> 0, squawk |-> "none"]

Init == frame \in Frames /\ report = NotParsed

(* An airborne position; a short frame ends before the type code.          *)
Airborne(f) == f.df = 17 /\ f.long /\ f.tc \in 9 .. 18

HasAltitude(f) == Airborne(f) /\ DecodeAlt(f.bits) # Undecodable

(* beast.Parse finds an altitude or none, and no identity: ident is read   *)
(* and dropped.  fromBeast writes 0 and 7000 for what is missing.          *)
FromBeast(f) ==
    [alt |-> IF HasAltitude(f) THEN DecodeAlt(f.bits) ELSE 0,
     squawk |-> "7000"]

Parse ==
    /\ report = NotParsed
    /\ report' = FromBeast(frame)
    /\ UNCHANGED frame

Next == Parse

Spec == Init /\ [][Next]_<<frame, report>>
-----------------------------------------------------------------------------
(* altitude.go:1: "Package altitude decodes Gillham and 25-ft ADS-B        *)
(* altitude encodings."  A frame that was sent at an altitude in Gillham's *)
(* code makes a report at that altitude.                                   *)
GillhamIsDecoded ==
    Airborne(frame) /\ report # NotParsed =>
        \A ft \in GillhamAltitudes :
            frame.bits = GillhamField(ft) => report.alt = ft
=============================================================================
