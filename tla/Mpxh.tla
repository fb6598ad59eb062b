-------------------------------- MODULE Mpxh --------------------------------
(* The bus of the alarm panel (mpxh.c), as the interrupt drives it: the frames  *)
(* it receives from the other nodes and its own transmissions.  The samples and *)
(* the bits of a frame are left out: a frame is on the bus from its first edge  *)
(* to the silence after it.                                                     *)
EXTENDS Naturals

CONSTANTS
    Kinds,      \* of the lengths of a frame, "17", "16", "15", "12", "9", "4"
    Data,       \* what a frame says
    MaxSent     \* attempts to transmit, 16

ASSUME KindsAssumption == Kinds \subseteq {"17", "16", "15", "12", "9", "4"}
ASSUME DataAssumption == "junk" \notin Data
ASSUME SentAssumption == MaxSent \in Nat \ {0}

VARIABLES
    received,       \* the flags of received, "receiving" among them
    rec,            \* wRecAux and nbr: the frame that has been received last
    wRec,           \* wRecH, wRecL and wRecLayer
    bus,            \* the frame that is on the bus, or Silence
    sendActivo,     \* the kind to send, or "none"
    sending,
    nSent,
    porEntregar,    \* history: the frame received last, until the main loop has it
    recTarde        \* history: a frame found the one before it not yet read

sendVars == <<sendActivo, sending, nSent>>
recVars == <<received, rec, wRec>>
busVars == <<recVars, bus, sendVars, porEntregar, recTarde>>

\* A frame with a number of bits that means nothing, and one that fails its parity.
Broken == {"length", "parity"}
Frame == [kind : Kinds \cup Broken, data : Data \cup {"junk"}]
Heard == [kind : Kinds, data : Data] \cup [kind : Broken, data : {"junk"}]
Silence == [kind |-> "none", data |-> "junk"]

BTypeOK ==
    /\ received \subseteq Kinds \cup {"receiving"}
    /\ rec \in Frame \cup {Silence}
    /\ wRec \in Data \cup {"junk"}
    /\ bus \in Frame \cup {Silence}
    /\ sendActivo \in Kinds \cup {"none"}
    /\ sending \in BOOLEAN
    /\ nSent \in 0 .. MaxSent
    /\ porEntregar \in Frame \cup {Silence}
    /\ recTarde \in BOOLEAN

BInit ==
    /\ received = {} /\ rec = Silence /\ wRec = "junk"
    /\ bus = Silence
    /\ sendActivo = "none" /\ sending = FALSE
    /\ nSent = 0
    /\ porEntregar = Silence /\ recTarde = FALSE

Receiving == "receiving" \in received
Quiet == bus = Silence /\ ~Receiving

\* Another node starts a frame, 6 ms after the last: by then OwnEnds has been.
OtherStarts(f) ==
    /\ Quiet /\ ~sending
    /\ bus' = f
    /\ received' = received \cup {"receiving"}
    /\ UNCHANGED <<rec, wRec, sendVars, porEntregar, recTarde>>

\* After the 10 ms of its priority the interrupt starts the frame that is armed.
OwnStarts ==
    /\ Quiet
    /\ sendActivo # "none" /\ ~sending
    /\ sending' = TRUE
    /\ bus' = [kind |-> sendActivo, data |-> "junk"]
    /\ received' = received \cup {"receiving"}
    /\ UNCHANGED <<rec, wRec, sendActivo, nSent, porEntregar, recTarde>>

Slip_OwnFails(f) ==
    /\ sending /\ bus # Silence
    /\ sending' = FALSE
    /\ nSent' = 0
    /\ sendActivo' = IF nSent + 1 = MaxSent THEN "none" ELSE sendActivo
    /\ bus' = f
    /\ UNCHANGED <<recVars, porEntregar, recTarde>>

\* mpxh_txFallido: another node takes the bus, with the frame f.
OwnFails(f) ==
    /\ sending /\ bus # Silence
    /\ nSent' = nSent + 1
    /\ sending' = FALSE
    /\ sendActivo' = IF nSent' = MaxSent THEN "none" ELSE sendActivo
    /\ bus' = f
    /\ UNCHANGED <<recVars, porEntregar, recTarde>>

\* Six milliseconds after its last bit.
OwnEnds ==
    /\ sending /\ Quiet
    /\ sending' = FALSE
    /\ sendActivo' = "none"
    /\ UNCHANGED <<recVars, bus, nSent, porEntregar, recTarde>>

\* The last bit; without receiving none of them has been kept.
FrameEnds ==
    /\ bus # Silence
    /\ bus' = Silence
    /\ rec' = IF Receiving THEN bus ELSE rec
    /\ UNCHANGED <<received, wRec, sendVars, porEntregar, recTarde>>

\* Taking a frame of these apart changes wRecAux: a second time it says something else.
Layered == {"16", "12"}

Slip_FrameReceived(pending) ==
    /\ bus = Silence /\ Receiving
    /\ received' = (received \ {"receiving"}) \cup ({rec.kind} \cap Kinds)
    /\ wRec' = IF rec.kind = "parity" THEN wRec ELSE IF rec.kind \in Kinds THEN rec.data ELSE "junk"
    /\ rec' = IF rec.kind \in Layered THEN [rec EXCEPT !.data = "junk"] ELSE rec
    /\ recTarde' = (recTarde \/ (pending /\ rec.kind # "parity" /\ ~sending))
    /\ porEntregar' = IF rec.kind \in Kinds /\ ~sending /\ ~recTarde' THEN rec ELSE porEntregar
    /\ UNCHANGED <<bus, sendVars>>

\* Four or five milliseconds of silence.  Its own frame is dropped; of a frame with a
\* length that means nothing the data are kept, with no flag.
FrameReceived(pending) ==
    LET heard == ~sending /\ rec.kind # "parity" IN
    /\ bus = Silence /\ Receiving
    /\ received' = (received \ {"receiving"}) \cup (IF heard THEN {rec.kind} \cap Kinds ELSE {})
    /\ wRec' = IF ~heard THEN wRec ELSE IF rec.kind \in Kinds THEN rec.data ELSE "junk"
    /\ rec' = IF heard /\ rec.kind \in Layered THEN [rec EXCEPT !.data = "junk"] ELSE rec
    /\ recTarde' = (recTarde \/ (pending /\ heard))
    /\ porEntregar' = IF heard /\ rec.kind \in Kinds /\ ~recTarde' THEN rec ELSE porEntregar
    /\ UNCHANGED <<bus, sendVars>>

\* mpxh_ArmaMensaje; every caller asks mpxh_Ocupado first.  What is sent is left out.
Arm(k) ==
    /\ sendActivo = "none"
    /\ nSent' = 0
    /\ sendActivo' = k
    /\ UNCHANGED <<recVars, bus, sending, porEntregar, recTarde>>

\* What the interrupt does for the bus.
Analizar(pending) ==
    \/ \E f \in Heard : OtherStarts(f) \/ OwnFails(f)
    \/ OwnStarts \/ OwnEnds
    \/ FrameEnds \/ FrameReceived(pending)
=============================================================================
