------------------------------- MODULE Decoder -------------------------------
(***************************************************************************)
(* The message decoder, src/src/message_handler.c: message_handler_parse  *)
(* and the per-message parse functions, and the instance arithmetic of   *)
(* message_handler_process_*.                                             *)
(*                                                                         *)
(* A JSON document is abstracted to the fields the decoder branches on.  *)
(* A field that is missing, or not of the kind get_string_safe and       *)
(* cJSON_IsNumber ask for, is Absent.  A JSON number is an integer (the  *)
(* fraction a cast truncates is irrelevant to the properties), the JSON  *)
(* literal true is JsonTrue.  uint32_t is modelled with width W: a cast  *)
(* (uint32_t)d of a double outside [0, 2^W) is undefined behaviour in C,  *)
(* and is any value of the type.                                          *)
(*                                                                         *)
(* The decoder is stateless; the module's state is the event under       *)
(* decoding, the subscription's instance offset, and the decoded result. *)
(***************************************************************************)
EXTENDS Integers, Sequences, FiniteSetsExt

CONSTANTS
    W,            \* width of uint32_t in the model
    Events,       \* the JSON documents that can arrive
    Offsets,      \* configured objectInstanceOffset values
    Absent,       \* a missing (or mistyped) field
    InvalidJson,  \* a body cJSON_ParseWithLength rejects
    NotObject,    \* a "payload" member that is not a JSON object
    Pending,      \* no result yet
    JsonTrue      \* the JSON literal true

(* uint32_t has at least one bit, and its largest value 2^W - 1 is a     *)
(* natural number; a missing field is not a JSON number (cJSON_IsNumber  *)
(* tells them apart).                                                     *)
ASSUME WidthAssumption ==
    /\ W \in Nat \ {0}
    /\ 2^W - 1 \in Nat
    /\ Absent \notin Int

VARIABLES
    raw,      \* the event body being decoded
    offset,   \* g_subscriptions[i].instance_offset of its subscription
    out       \* the parse result and the decoded message

vars == <<raw, offset, out>>

Uint == 0 .. (2^W - 1)

(* A cast that assumes its argument is in range (mutant of ToUint). *)
ToUintUnchecked(d) == {d}

(* (uint32_t)d: exact in range, undefined (any value) outside. *)
ToUint(d) == IF d \in Uint THEN {d} ELSE Uint

IsNumber(x) == x \in Int

(* item->valuedouble: cJSON leaves it 0 for a non-number item. *)
NumOf(x) == IF IsNumber(x) THEN x ELSE 0

(* parse_message_type *)
MessageTypeOf(s) ==
    CASE s = "ObjectDefinition" -> "def"
      [] s = "ValueUpdate"      -> "upd"
      [] s = "ObjectDelete"     -> "del"
      [] s = "DeviceConfig"     -> "cfg"
      [] OTHER                  -> "unknown"

(* parse_object_type: the bacnet_object_type_t codes, -1 for anything else. *)
ObjectTypeCode ==
    [t \in {"analog-input", "analog-output", "analog-value",
            "binary-input", "binary-output", "binary-value",
            "multi-state-input", "multi-state-output", "multi-state-value"} |->
        CASE t = "analog-input"       -> 0
          [] t = "analog-output"      -> 1
          [] t = "analog-value"       -> 2
          [] t = "binary-input"       -> 3
          [] t = "binary-output"      -> 4
          [] t = "binary-value"       -> 5
          [] t = "multi-state-input"  -> 13
          [] t = "multi-state-output" -> 14
          [] t = "multi-state-value"  -> 19]

(* A missing field is none of the names parse_message_type and          *)
(* parse_object_type compare with: get_string_safe returns NULL for it,  *)
(* and the parsers check for NULL before any strcmp.                     *)
ASSUME AbsentAssumption ==
    Absent \notin DOMAIN ObjectTypeCode \cup
                  {"ObjectDefinition", "ValueUpdate", "ObjectDelete", "DeviceConfig"}

ParseObjectType(s) == IF s \in DOMAIN ObjectTypeCode THEN ObjectTypeCode[s] ELSE -1

BinaryTypes == {3, 4, 5}
MultiStateTypes == {13, 14, 19}

ValueKinds == {"real", "unsigned", "signed", "boolean", "enumerated"}

(* parse_value_type: an unknown name is "real". *)
ParseValueType(s) == IF s \in ValueKinds THEN s ELSE "real"

Results == {"OK", "INVALID_JSON", "MISSING_FIELD", "INVALID_VALUE",
            "UNKNOWN_MESSAGE_TYPE"}

(* The first failed check of a sequence of early returns, or "OK". *)
FirstFailure(checks) ==
    LET failed == {i \in 1 .. Len(checks) : ~checks[i][1]}
    IN  IF failed = {} THEN "OK" ELSE checks[Min(failed)][2]

Failed(res) ==
    {[res |-> res, mt |-> "none", type |-> -1, inst |-> 0, kind |-> "none", pv |-> 0]}

Decoded(mt, type, inst, kind, pv) ==
    [res |-> "OK", mt |-> mt, type |-> type, inst |-> inst, kind |-> kind, pv |-> pv]

(* The identity checks with the type code tested as > 0, which rejects  *)
(* analog-input, code 0 (mutant of IdentityChecks).                     *)
IdentityChecksPositive(p) ==
    << <<p.objectType # Absent, "MISSING_FIELD">>,
       <<ParseObjectType(p.objectType) > 0, "INVALID_VALUE">>,
       <<IsNumber(p.objectInstance), "MISSING_FIELD">> >>

(* The checks parse_object_definition, parse_value_update and           *)
(* parse_object_delete all start with.                                  *)
IdentityChecks(p) ==
    << <<p.objectType # Absent, "MISSING_FIELD">>,
       <<ParseObjectType(p.objectType) >= 0, "INVALID_VALUE">>,
       <<IsNumber(p.objectInstance), "MISSING_FIELD">> >>

(* parse_object_definition: the value kind is presentValueType's, for  *)
(* every object type.                                                   *)
ParseObjectDefinition(p) ==
    LET res == FirstFailure(IdentityChecks(p) \o
                   << <<p.objectName # Absent, "MISSING_FIELD">>,
                      <<p.presentValueType # Absent, "MISSING_FIELD">> >>)
    IN  IF res # "OK" THEN Failed(res)
        ELSE {Decoded("def", ParseObjectType(p.objectType), i,
                      ParseValueType(p.presentValueType), 0) :
                  i \in ToUint(p.objectInstance)}

(* The value kind parse_value_update derives from the object type. *)
UpdateKind(type) ==
    CASE type \in BinaryTypes     -> "boolean"
      [] type \in MultiStateTypes -> "unsigned"
      [] OTHER                    -> "real"

(* The present value it stores, in that kind (a boolean as 0 or 1). *)
UpdateValues(type, v) ==
    CASE type \in BinaryTypes     -> {IF v = JsonTrue \/ (IsNumber(v) /\ v # 0) THEN 1 ELSE 0}
      [] type \in MultiStateTypes -> ToUint(NumOf(v))
      [] OTHER                    -> {NumOf(v)}

(* parse_value_update *)
ParseValueUpdate(p) ==
    LET res  == FirstFailure(IdentityChecks(p) \o
                    << <<p.presentValue # Absent, "MISSING_FIELD">> >>)
        type == ParseObjectType(p.objectType)
    IN  IF res # "OK" THEN Failed(res)
        ELSE {Decoded("upd", type, i, UpdateKind(type), v) :
                  i \in ToUint(p.objectInstance), v \in UpdateValues(type, p.presentValue)}

(* parse_object_delete *)
ParseObjectDelete(p) ==
    LET res == FirstFailure(IdentityChecks(p))
    IN  IF res # "OK" THEN Failed(res)
        ELSE {Decoded("del", ParseObjectType(p.objectType), i, "none", 0) :
                  i \in ToUint(p.objectInstance)}

(* parse_device_config: every field is optional, it always succeeds. *)
ParseDeviceConfig(p) == {Decoded("cfg", -1, 0, "none", 0)}

(* message_handler_parse: the envelope checks in the code's order, then  *)
(* the dispatch on the message type.  The result is a set because of    *)
(* the undefined casts.                                                 *)
Parse(e) ==
    IF e = InvalidJson THEN Failed("INVALID_JSON")
    ELSE LET res == FirstFailure(
                 << <<e.messageType # Absent, "MISSING_FIELD">>,
                    <<MessageTypeOf(e.messageType) # "unknown", "UNKNOWN_MESSAGE_TYPE">>,
                    <<e.sourceId # Absent, "MISSING_FIELD">>,
                    <<e.payload # NotObject, "MISSING_FIELD">> >>)
         IN  IF res # "OK" THEN Failed(res)
             ELSE CASE MessageTypeOf(e.messageType) = "def" -> ParseObjectDefinition(e.payload)
                    [] MessageTypeOf(e.messageType) = "upd" -> ParseValueUpdate(e.payload)
                    [] MessageTypeOf(e.messageType) = "del" -> ParseObjectDelete(e.payload)
                    [] MessageTypeOf(e.messageType) = "cfg" -> ParseDeviceConfig(e.payload)

(* msg->object_instance + instance_offset, in uint32_t arithmetic. *)
InstanceKey(inst, off) == (inst + off) % (2^W)

Init ==
    /\ raw \in Events
    /\ offset \in Offsets
    /\ out = Pending

(* on_event_received calls message_handler_parse on the event body. *)
Decode ==
    /\ out = Pending
    /\ out' \in Parse(raw)
    /\ UNCHANGED <<raw, offset>>

(* The poll thread hands over the next event of the same subscription. *)
Receive ==
    /\ out # Pending
    /\ raw' \in Events
    /\ out' = Pending
    /\ UNCHANGED offset

Next == Decode \/ Receive

Spec == Init /\ [][Next]_vars

-----------------------------------------------------------------------------
(* What a decoded message can be. *)
Messages ==
    [res : Results, mt : {"def", "upd", "del", "cfg", "none"},
     type : {-1} \cup Range(ObjectTypeCode), inst : Uint,
     kind : ValueKinds \cup {"none"}, pv : Int]

(* The type invariant: every decoded instance is a uint32_t value. *)
TypeOK ==
    /\ raw \in Events
    /\ offset \in Offsets
    /\ out \in Messages \cup {Pending}

(* The reference the decoder is checked against, written from the      *)
(* message schema: the object-type table and the required fields.      *)
SpecTypeTable ==
    { <<"analog-input", 0>>, <<"analog-output", 1>>, <<"analog-value", 2>>,
      <<"binary-input", 3>>, <<"binary-output", 4>>, <<"binary-value", 5>>,
      <<"multi-state-input", 13>>, <<"multi-state-output", 14>>,
      <<"multi-state-value", 19>> }

SpecTypeNames == {entry[1] : entry \in SpecTypeTable}

SpecRequired ==
    [def |-> {"objectType", "objectInstance", "objectName", "presentValueType"},
     upd |-> {"objectType", "objectInstance", "presentValue"},
     del |-> {"objectType", "objectInstance"},
     cfg |-> {}]

SpecMessageType ==
    [ObjectDefinition |-> "def", ValueUpdate |-> "upd",
     ObjectDelete |-> "del", DeviceConfig |-> "cfg"]

(* Spec 4.3: the value kind of a ValueUpdate by object type (binary is   *)
(* boolean, multi-state unsigned, analog real), and spec 3: a            *)
(* multi-state object has at most 16 states.                              *)
SpecBinaryNames == {"binary-input", "binary-output", "binary-value"}

SpecMultiStateNames == {"multi-state-input", "multi-state-output", "multi-state-value"}

SpecUpdateKind ==
    [n \in SpecTypeNames |->
        IF n \in SpecBinaryNames THEN "boolean"
        ELSE IF n \in SpecMultiStateNames THEN "unsigned" ELSE "real"]

SpecMaxStates == 16

(* An event with a known message type, a source, a payload object, every *)
(* field the schema requires for its type, and a known object type name. *)
Complete(e) ==
    /\ e # InvalidJson
    /\ e.messageType \in DOMAIN SpecMessageType
    /\ e.sourceId # Absent
    /\ e.payload # NotObject
    /\ \A f \in SpecRequired[SpecMessageType[e.messageType]] : e.payload[f] # Absent
    /\ SpecMessageType[e.messageType] # "cfg" => e.payload.objectType \in SpecTypeNames

(* A complete event whose values are in the schema's ranges: the         *)
(* instance is an unsigned 32-bit integer (spec 3) and a multi-state      *)
(* present value is a state number, 1 .. 16 at most (invariant 4, 4.4).  *)
WellFormed(e) ==
    /\ Complete(e)
    /\ SpecMessageType[e.messageType] # "cfg" => e.payload.objectInstance \in Uint
    /\ (SpecMessageType[e.messageType] = "upd" /\ e.payload.objectType \in SpecMultiStateNames)
           => e.payload.presentValue \in 1 .. SpecMaxStates

(* message_handler_parse rejects every event that lacks a field the     *)
(* schema requires or names an unknown object type, and accepts every     *)
(* well-formed event as what it is: its message type, the code the       *)
(* schema's table gives its object type, its instance unchanged and, for *)
(* a ValueUpdate, the value kind the schema derives from the object type. *)
DecodesPerSchema ==
    out # Pending =>
        /\ out.res = "OK" => Complete(raw)
        /\ WellFormed(raw) =>
               /\ out.res = "OK"
               /\ out.mt = SpecMessageType[raw.messageType]
               /\ out.mt # "cfg" =>
                      /\ <<raw.payload.objectType, out.type>> \in SpecTypeTable
                      /\ out.inst = raw.payload.objectInstance
               /\ out.mt = "upd" => out.kind = SpecUpdateKind[raw.payload.objectType]

(* The registry key of an accepted event is its instance plus the       *)
(* subscription's offset, with no uint32 wraparound                     *)
(* (the sums in the message_handler_process functions).                  *)
NoInstanceWrap ==
    (out # Pending /\ out.res = "OK" /\ out.mt # "cfg")
        => InstanceKey(out.inst, offset) = out.inst + offset

=============================================================================
