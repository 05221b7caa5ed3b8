----------------------------- MODULE MC_Decoder -----------------------------
(* The decoder on every combination of present, absent and invalid     *)
(* fields of each message type, with uint32_t narrowed to 3 bits.      *)
EXTENDS Decoder

CONSTANTS a, nj, no, pd, jt

MCW == 3

(* Payload fields: a valid value of each kind the decoder tells apart, *)
(* a value it rejects or converts, and absence.                        *)
MCPayloads ==
    [objectType       : {"analog-input", "binary-input", "multi-state-value", "pump", a},
     objectInstance   : {5, -1, a},
     objectName       : {"n", a},
     presentValueType : {"unsigned", "other", a},
     presentValue     : {0, 2, jt, a}]

(* Well-enveloped events of each message type with every payload, and  *)
(* each envelope error once.                                           *)
MCEvents ==
    [messageType : {"ObjectDefinition", "ValueUpdate", "ObjectDelete", "DeviceConfig"},
     sourceId : {"src"}, payload : MCPayloads]
    \cup [messageType : {"Ping", a}, sourceId : {"src"}, payload : {no}]
    \cup [messageType : {"ValueUpdate"}, sourceId : {a}, payload : {no}]
    \cup [messageType : {"DeviceConfig"}, sourceId : {"src"}, payload : {no}]
    \cup {nj}

(* No offset, and one that wraps instance 5 at width 3. *)
MCOffsets == {0, 6}
=============================================================================
