---------------------------- MODULE DecoderProofs ----------------------------
(***************************************************************************)
(* Proofs about the message decoder (Decoder.tla).                        *)
(*                                                                         *)
(* The decoder is stateless: what matters is what Parse returns.  The    *)
(* proofs first reduce FirstFailure, the chain of early returns, to the  *)
(* nested IF of the code, then show that every result Parse(e) can give  *)
(* is a well-typed message, accepted only if e is complete by the schema  *)
(* and always if e is well formed (complete, with a uint32_t instance and *)
(* a multi-state value in the state range), and then keeping e's message *)
(* type, object-type code, instance and, for an update, the schema's     *)
(* value kind.  The invariants of the run follow from                     *)
(* out # Pending => out \in Parse(raw).                                   *)
(*                                                                         *)
(* Two facts the provers lack are assumptions of Decoder, checked by TLC  *)
(* on every run: 2^W - 1 is a natural number (the SMT backend knows      *)
(* nothing of ^ beyond 2^0), and a missing field is none of the names the *)
(* parsers compare with (string literals are distinct for the provers,   *)
(* but not known to be members of STRING).                               *)
(*                                                                         *)
(* A check that is a formula, such as p.objectType # Absent, is hidden   *)
(* behind a local definition before a lemma about check lists is cited:  *)
(* the backends instantiate a lemma's NEW b \in BOOLEAN with a constant, *)
(* not with a formula.                                                    *)
(***************************************************************************)
EXTENDS Decoder, SequenceTheorems, TLAPS

-----------------------------------------------------------------------------
(* The least element of a set of integers is the one below all others. *)
LEMMA MinIs ==
    ASSUME NEW S \in SUBSET Int, NEW k \in S, \A y \in S : k <= y
    PROVE  Min(S) = k
<1>1. \E x \in S : \A y \in S : x =< y
  OBVIOUS
<1>2. Min(S) \in S /\ \A y \in S : Min(S) =< y
  BY <1>1 DEF Min
<1>3. Min(S) \in Int /\ Min(S) =< k /\ k =< Min(S)
  BY <1>2
<1>. QED
  BY <1>3

(* A check list of three early returns reports the first that fails. *)
LEMMA FirstFailure3 ==
    ASSUME NEW b1 \in BOOLEAN, NEW b2 \in BOOLEAN, NEW b3 \in BOOLEAN,
           NEW l1, NEW l2, NEW l3
    PROVE  FirstFailure(<< <<b1, l1>>, <<b2, l2>>, <<b3, l3>> >>)
             = IF ~b1 THEN l1 ELSE IF ~b2 THEN l2 ELSE IF ~b3 THEN l3 ELSE "OK"
<1> DEFINE checks == << <<b1, l1>>, <<b2, l2>>, <<b3, l3>> >>
           failed == {i \in 1 .. Len(checks) : ~checks[i][1]}
<1>1. failed \in SUBSET Int /\ \A i \in failed : i \in 1 .. 3
  OBVIOUS
<1>2. /\ 1 \in failed <=> ~b1
      /\ 2 \in failed <=> ~b2
      /\ 3 \in failed <=> ~b3
  OBVIOUS
<1>3. FirstFailure(checks) = IF failed = {} THEN "OK" ELSE checks[Min(failed)][2]
  BY DEF FirstFailure
<1>4. CASE ~b1
  <2>1. 1 \in failed /\ \A y \in failed : 1 <= y
    <3>1. 1 \in failed /\ TRUE
      BY <1>2, <1>4
    <3>. QED  BY <1>1, <3>1
  <2>2. Min(failed) = 1
    BY <1>1, <2>1, MinIs
  <2>. QED  BY <1>2, <1>3, <1>4, <2>2
<1>5. CASE b1 /\ ~b2
  <2>1. 2 \in failed /\ \A y \in failed : 2 <= y
    <3>1. 2 \in failed /\ 1 \notin failed
      BY <1>2, <1>5
    <3>. QED  BY <1>1, <3>1
  <2>2. Min(failed) = 2
    BY <1>1, <2>1, MinIs
  <2>. QED  BY <1>2, <1>3, <1>5, <2>2
<1>6. CASE b1 /\ b2 /\ ~b3
  <2>1. 3 \in failed /\ \A y \in failed : 3 <= y
    <3>1. 3 \in failed /\ 1 \notin failed /\ 2 \notin failed
      BY <1>2, <1>6
    <3>. QED  BY <1>1, <3>1
  <2>2. Min(failed) = 3
    BY <1>1, <2>1, MinIs
  <2>. QED  BY <1>2, <1>3, <1>6, <2>2
<1>7. CASE b1 /\ b2 /\ b3
  <2>1. failed = {}
    BY <1>1, <1>2, <1>7
  <2>. QED  BY <1>3, <1>7, <2>1
<1>. QED
  BY <1>4, <1>5, <1>6, <1>7

(* A check list of four early returns reports the first that fails. *)
LEMMA FirstFailure4 ==
    ASSUME NEW b1 \in BOOLEAN, NEW b2 \in BOOLEAN, NEW b3 \in BOOLEAN, NEW b4 \in BOOLEAN,
           NEW l1, NEW l2, NEW l3, NEW l4
    PROVE  FirstFailure(<< <<b1, l1>>, <<b2, l2>>, <<b3, l3>>, <<b4, l4>> >>)
             = IF ~b1 THEN l1 ELSE IF ~b2 THEN l2 ELSE IF ~b3 THEN l3 ELSE IF ~b4 THEN l4 ELSE "OK"
<1> DEFINE checks == << <<b1, l1>>, <<b2, l2>>, <<b3, l3>>, <<b4, l4>> >>
           failed == {i \in 1 .. Len(checks) : ~checks[i][1]}
<1>1. failed \in SUBSET Int /\ \A i \in failed : i \in 1 .. 4
  OBVIOUS
<1>2. /\ 1 \in failed <=> ~b1
      /\ 2 \in failed <=> ~b2
      /\ 3 \in failed <=> ~b3
      /\ 4 \in failed <=> ~b4
  OBVIOUS
<1>3. FirstFailure(checks) = IF failed = {} THEN "OK" ELSE checks[Min(failed)][2]
  BY DEF FirstFailure
<1>4. CASE ~b1
  <2>1. 1 \in failed /\ \A y \in failed : 1 <= y
    <3>1. 1 \in failed /\ TRUE
      BY <1>2, <1>4
    <3>. QED  BY <1>1, <3>1
  <2>2. Min(failed) = 1
    BY <1>1, <2>1, MinIs
  <2>. QED  BY <1>2, <1>3, <1>4, <2>2
<1>5. CASE b1 /\ ~b2
  <2>1. 2 \in failed /\ \A y \in failed : 2 <= y
    <3>1. 2 \in failed /\ 1 \notin failed
      BY <1>2, <1>5
    <3>. QED  BY <1>1, <3>1
  <2>2. Min(failed) = 2
    BY <1>1, <2>1, MinIs
  <2>. QED  BY <1>2, <1>3, <1>5, <2>2
<1>6. CASE b1 /\ b2 /\ ~b3
  <2>1. 3 \in failed /\ \A y \in failed : 3 <= y
    <3>1. 3 \in failed /\ 1 \notin failed /\ 2 \notin failed
      BY <1>2, <1>6
    <3>. QED  BY <1>1, <3>1
  <2>2. Min(failed) = 3
    BY <1>1, <2>1, MinIs
  <2>. QED  BY <1>2, <1>3, <1>6, <2>2
<1>7. CASE b1 /\ b2 /\ b3 /\ ~b4
  <2>1. 4 \in failed /\ \A y \in failed : 4 <= y
    <3>1. 4 \in failed /\ 1 \notin failed /\ 2 \notin failed /\ 3 \notin failed
      BY <1>2, <1>7
    <3>. QED  BY <1>1, <3>1
  <2>2. Min(failed) = 4
    BY <1>1, <2>1, MinIs
  <2>. QED  BY <1>2, <1>3, <1>7, <2>2
<1>8. CASE b1 /\ b2 /\ b3 /\ b4
  <2>1. failed = {}
    BY <1>1, <1>2, <1>8
  <2>. QED  BY <1>3, <1>8, <2>1
<1>. QED
  BY <1>4, <1>5, <1>6, <1>7, <1>8

(* A check list of five early returns reports the first that fails. *)
LEMMA FirstFailure5 ==
    ASSUME NEW b1 \in BOOLEAN, NEW b2 \in BOOLEAN, NEW b3 \in BOOLEAN, NEW b4 \in BOOLEAN, NEW b5 \in BOOLEAN,
           NEW l1, NEW l2, NEW l3, NEW l4, NEW l5
    PROVE  FirstFailure(<< <<b1, l1>>, <<b2, l2>>, <<b3, l3>>, <<b4, l4>>, <<b5, l5>> >>)
             = IF ~b1 THEN l1 ELSE IF ~b2 THEN l2 ELSE IF ~b3 THEN l3 ELSE IF ~b4 THEN l4 ELSE IF ~b5 THEN l5 ELSE "OK"
<1> DEFINE checks == << <<b1, l1>>, <<b2, l2>>, <<b3, l3>>, <<b4, l4>>, <<b5, l5>> >>
           failed == {i \in 1 .. Len(checks) : ~checks[i][1]}
<1>1. failed \in SUBSET Int /\ \A i \in failed : i \in 1 .. 5
  OBVIOUS
<1>2. /\ 1 \in failed <=> ~b1
      /\ 2 \in failed <=> ~b2
      /\ 3 \in failed <=> ~b3
      /\ 4 \in failed <=> ~b4
      /\ 5 \in failed <=> ~b5
  OBVIOUS
<1>3. FirstFailure(checks) = IF failed = {} THEN "OK" ELSE checks[Min(failed)][2]
  BY DEF FirstFailure
<1>4. CASE ~b1
  <2>1. 1 \in failed /\ \A y \in failed : 1 <= y
    <3>1. 1 \in failed /\ TRUE
      BY <1>2, <1>4
    <3>. QED  BY <1>1, <3>1
  <2>2. Min(failed) = 1
    BY <1>1, <2>1, MinIs
  <2>. QED  BY <1>2, <1>3, <1>4, <2>2
<1>5. CASE b1 /\ ~b2
  <2>1. 2 \in failed /\ \A y \in failed : 2 <= y
    <3>1. 2 \in failed /\ 1 \notin failed
      BY <1>2, <1>5
    <3>. QED  BY <1>1, <3>1
  <2>2. Min(failed) = 2
    BY <1>1, <2>1, MinIs
  <2>. QED  BY <1>2, <1>3, <1>5, <2>2
<1>6. CASE b1 /\ b2 /\ ~b3
  <2>1. 3 \in failed /\ \A y \in failed : 3 <= y
    <3>1. 3 \in failed /\ 1 \notin failed /\ 2 \notin failed
      BY <1>2, <1>6
    <3>. QED  BY <1>1, <3>1
  <2>2. Min(failed) = 3
    BY <1>1, <2>1, MinIs
  <2>. QED  BY <1>2, <1>3, <1>6, <2>2
<1>7. CASE b1 /\ b2 /\ b3 /\ ~b4
  <2>1. 4 \in failed /\ \A y \in failed : 4 <= y
    <3>1. 4 \in failed /\ 1 \notin failed /\ 2 \notin failed /\ 3 \notin failed
      BY <1>2, <1>7
    <3>. QED  BY <1>1, <3>1
  <2>2. Min(failed) = 4
    BY <1>1, <2>1, MinIs
  <2>. QED  BY <1>2, <1>3, <1>7, <2>2
<1>8. CASE b1 /\ b2 /\ b3 /\ b4 /\ ~b5
  <2>1. 5 \in failed /\ \A y \in failed : 5 <= y
    <3>1. 5 \in failed /\ 1 \notin failed /\ 2 \notin failed /\ 3 \notin failed /\ 4 \notin failed
      BY <1>2, <1>8
    <3>. QED  BY <1>1, <3>1
  <2>2. Min(failed) = 5
    BY <1>1, <2>1, MinIs
  <2>. QED  BY <1>2, <1>3, <1>8, <2>2
<1>9. CASE b1 /\ b2 /\ b3 /\ b4 /\ b5
  <2>1. failed = {}
    BY <1>1, <1>2, <1>9
  <2>. QED  BY <1>3, <1>9, <2>1
<1>. QED
  BY <1>4, <1>5, <1>6, <1>7, <1>8, <1>9

-----------------------------------------------------------------------------
(* The value 0 is a uint32_t value, whatever the width. *)
LEMMA ZeroIsUint == 0 \in Uint
BY WidthAssumption DEF Uint

(* The cast (uint32_t)d always yields uint32_t values. *)
LEMMA ToUintInUint ==
    ASSUME NEW d
    PROVE  ToUint(d) \subseteq Uint
BY DEF ToUint

(* An early return yields a message whose result is its error code. *)
LEMMA FailedIsMessage ==
    ASSUME NEW r \in Results
    PROVE  \A m \in Failed(r) : m \in Messages /\ m.res = r
BY ZeroIsUint DEF Failed, Messages

(* A decoded message with fields of the right kinds is a message. *)
LEMMA DecodedIsMessage ==
    ASSUME NEW mt \in {"def", "upd", "del", "cfg"},
           NEW t \in {-1} \cup Range(ObjectTypeCode), NEW i \in Uint,
           NEW k \in ValueKinds \cup {"none"}, NEW v \in Int
    PROVE  Decoded(mt, t, i, k, v) \in Messages /\ Decoded(mt, t, i, k, v).res = "OK"
BY DEF Decoded, Messages, Results

(* parse_object_type knows exactly the type names of the schema's table, *)
(* and gives each the code the table pairs it with.                       *)
LEMMA ObjectTypeFacts ==
    ASSUME NEW s
    PROVE  /\ ParseObjectType(s) \in {-1} \cup Range(ObjectTypeCode)
           /\ s \in SpecTypeNames =>
                 /\ ParseObjectType(s) >= 0
                 /\ <<s, ParseObjectType(s)>> \in SpecTypeTable
           /\ s \notin SpecTypeNames => ParseObjectType(s) = -1
           /\ Absent \notin SpecTypeNames
<1>1. SpecTypeNames = DOMAIN ObjectTypeCode
  BY DEF SpecTypeNames, SpecTypeTable, ObjectTypeCode
<1>2. SpecTypeTable = {<<n, ObjectTypeCode[n]>> : n \in DOMAIN ObjectTypeCode}
  BY DEF SpecTypeTable, ObjectTypeCode
<1>3. \A n \in DOMAIN ObjectTypeCode : ObjectTypeCode[n] >= 0
  BY DEF ObjectTypeCode
<1>4. ParseObjectType(s) \in {-1} \cup Range(ObjectTypeCode)
  BY DEF ParseObjectType, Range
<1>5. ASSUME s \in SpecTypeNames
      PROVE  /\ ParseObjectType(s) >= 0
             /\ <<s, ParseObjectType(s)>> \in SpecTypeTable
  <2>1. s \in DOMAIN ObjectTypeCode /\ ParseObjectType(s) = ObjectTypeCode[s]
    BY <1>1, <1>5 DEF ParseObjectType
  <2>. QED
    BY <2>1, <1>2, <1>3
<1>6. s \notin SpecTypeNames => ParseObjectType(s) = -1
  BY <1>1 DEF ParseObjectType
<1>7. Absent \notin SpecTypeNames
  BY <1>1, AbsentAssumption
<1>. QED
  BY <1>4, <1>5, <1>6, <1>7

(* Appending checks to the three identity checks gives the longer lists *)
(* the parse functions run.                                               *)
LEMMA ConcatThreeBoth ==
    ASSUME NEW a, NEW b, NEW c, NEW d, NEW f
    PROVE  /\ <<a, b, c>> \o <<d>> = <<a, b, c, d>>
           /\ <<a, b, c>> \o <<d, f>> = <<a, b, c, d, f>>
<1> DEFINE S == {a, b, c, d, f}
<1>1. /\ <<a, b, c>> \in Seq(S) /\ <<d>> \in Seq(S) /\ <<d, f>> \in Seq(S)
      /\ <<a, b, c, d>> \in Seq(S) /\ <<a, b, c, d, f>> \in Seq(S)
  OBVIOUS
<1>2. <<a, b, c>> \o <<d>> = <<a, b, c, d>>
  <2>1. /\ <<a, b, c>> \o <<d>> \in Seq(S)
        /\ Len(<<a, b, c>> \o <<d>>) = 4
        /\ \A i \in 1 .. 4 : (<<a, b, c>> \o <<d>>)[i] = <<a, b, c, d>>[i]
    BY <1>1, ConcatProperties
  <2>. QED  BY <1>1, <2>1, SeqEqual
<1>3. <<a, b, c>> \o <<d, f>> = <<a, b, c, d, f>>
  <2>1. /\ <<a, b, c>> \o <<d, f>> \in Seq(S)
        /\ Len(<<a, b, c>> \o <<d, f>>) = 5
        /\ \A i \in 1 .. 5 : (<<a, b, c>> \o <<d, f>>)[i] = <<a, b, c, d, f>>[i]
    BY <1>1, ConcatProperties
  <2>. QED  BY <1>1, <2>1, SeqEqual
<1>. QED  BY <1>2, <1>3

LEMMA ConcatThree ==
    ASSUME NEW a, NEW b, NEW c, NEW d
    PROVE  <<a, b, c>> \o <<d>> = <<a, b, c, d>>
BY ConcatThreeBoth

LEMMA ConcatThreeTwo ==
    ASSUME NEW a, NEW b, NEW c, NEW d, NEW f
    PROVE  <<a, b, c>> \o <<d, f>> = <<a, b, c, d, f>>
BY ConcatThreeBoth

-----------------------------------------------------------------------------
(* A payload names a known object type and a numeric instance. *)
IdentityOK(p) == p.objectType \in SpecTypeNames /\ IsNumber(p.objectInstance)

(* m is a result a parse function can give for payload p of message kind *)
(* mt: a message, accepted exactly when ok holds, and then of kind mt    *)
(* with the object-type code the schema pairs with p's type name, with   *)
(* p's instance when that is a uint32_t value, and for an update with   *)
(* the value kind parse_value_update derives from the object type.       *)
ParsedAs(m, mt, ok, p) ==
    /\ m \in Messages
    /\ (m.res = "OK") <=> ok
    /\ m.res = "OK" =>
          /\ m.mt = mt
          /\ mt # "cfg" =>
                /\ <<p.objectType, m.type>> \in SpecTypeTable
                /\ p.objectInstance \in Uint => m.inst = p.objectInstance
          /\ mt = "upd" => m.kind = UpdateKind(ParseObjectType(p.objectType))

(* The cast (uint32_t)d is exact on a uint32_t value. *)
LEMMA ToUintExact ==
    ASSUME NEW d \in Uint, NEW i \in ToUint(d)
    PROVE  i = d
BY DEF ToUint

(* The identity checks pass exactly for a known type and a numeric instance. *)
LEMMA IdentityChecksPass ==
    ASSUME NEW p
    PROVE  (/\ p.objectType # Absent
            /\ ParseObjectType(p.objectType) >= 0
            /\ IsNumber(p.objectInstance)) <=> IdentityOK(p)
<1>1. /\ p.objectType \in SpecTypeNames => ParseObjectType(p.objectType) >= 0
      /\ p.objectType \notin SpecTypeNames => ParseObjectType(p.objectType) = -1
      /\ Absent \notin SpecTypeNames
  BY ObjectTypeFacts
<1>. QED
  BY <1>1 DEF IdentityOK

(* What parse_object_delete returns. *)
LEMMA DeleteParsed ==
    ASSUME NEW p, NEW m \in ParseObjectDelete(p)
    PROVE  ParsedAs(m, "del", IdentityOK(p), p)
<1> DEFINE res == FirstFailure(IdentityChecks(p))
           b1 == p.objectType # Absent
           b2 == ParseObjectType(p.objectType) >= 0
           b3 == IsNumber(p.objectInstance)
<1>1. res = IF ~b1 THEN "MISSING_FIELD" ELSE IF ~b2 THEN "INVALID_VALUE"
            ELSE IF ~b3 THEN "MISSING_FIELD" ELSE "OK"
  <2>1. b1 \in BOOLEAN /\ b2 \in BOOLEAN /\ b3 \in BOOLEAN
    BY DEF IsNumber
  <2>2. IdentityChecks(p) = << <<b1, "MISSING_FIELD">>, <<b2, "INVALID_VALUE">>,
                               <<b3, "MISSING_FIELD">> >>
    BY DEF IdentityChecks
  <2> HIDE DEF b1, b2, b3
  <2>3. FirstFailure(<< <<b1, "MISSING_FIELD">>, <<b2, "INVALID_VALUE">>,
                        <<b3, "MISSING_FIELD">> >>)
          = IF ~b1 THEN "MISSING_FIELD" ELSE IF ~b2 THEN "INVALID_VALUE"
            ELSE IF ~b3 THEN "MISSING_FIELD" ELSE "OK"
    BY <2>1, FirstFailure3
  <2>. QED  BY <2>2, <2>3
<1>2. res \in Results /\ ((res = "OK") <=> IdentityOK(p))
  BY <1>1, IdentityChecksPass DEF Results
<1>3. CASE res # "OK"
  <2>1. m \in Failed(res)
    BY <1>3 DEF ParseObjectDelete
  <2>. QED  BY <1>2, <1>3, <2>1, FailedIsMessage DEF ParsedAs
<1>4. CASE res = "OK"
  <2>1. PICK i \in ToUint(p.objectInstance) :
               m = Decoded("del", ParseObjectType(p.objectType), i, "none", 0)
    BY <1>4 DEF ParseObjectDelete
  <2>2. i \in Uint
    BY ToUintInUint
  <2>3. /\ ParseObjectType(p.objectType) \in {-1} \cup Range(ObjectTypeCode)
        /\ <<p.objectType, ParseObjectType(p.objectType)>> \in SpecTypeTable
    BY <1>2, <1>4, ObjectTypeFacts DEF IdentityOK
  <2>4. m \in Messages
    <3>1. "del" \in {"def", "upd", "del", "cfg"} /\ "none" \in ValueKinds \cup {"none"} /\ 0 \in Int
      OBVIOUS
    <3>. QED  BY <2>1, <2>2, <2>3, <3>1, DecodedIsMessage
  <2>5. /\ m.res = "OK" /\ m.mt = "del" /\ m.type = ParseObjectType(p.objectType)
        /\ m.inst = i
    BY <2>1 DEF Decoded
  <2>6. p.objectInstance \in Uint => m.inst = p.objectInstance
    BY <2>1, <2>5, ToUintExact
  <2>. QED  BY <1>2, <1>4, <2>3, <2>4, <2>5, <2>6 DEF ParsedAs
<1>. QED  BY <1>3, <1>4

(* The value kinds and present values parse_value_update can produce. *)
LEMMA UpdateValueFacts ==
    ASSUME NEW t, NEW v
    PROVE  UpdateKind(t) \in ValueKinds /\ UpdateValues(t, v) \subseteq Int
<1>1. Uint \subseteq Int
  BY WidthAssumption DEF Uint
<1>2. NumOf(v) \in Int
  BY DEF NumOf, IsNumber
<1>. QED
  BY <1>1, <1>2, ToUintInUint DEF UpdateKind, UpdateValues, ValueKinds

(* What parse_value_update returns. *)
LEMMA UpdateParsed ==
    ASSUME NEW p, NEW m \in ParseValueUpdate(p)
    PROVE  ParsedAs(m, "upd", IdentityOK(p) /\ p.presentValue # Absent, p)
<1> DEFINE b1 == p.objectType # Absent
           b2 == ParseObjectType(p.objectType) >= 0
           b3 == IsNumber(p.objectInstance)
           b4 == p.presentValue # Absent
           res == FirstFailure(IdentityChecks(p) \o << <<b4, "MISSING_FIELD">> >>)
           type == ParseObjectType(p.objectType)
<1>1. res = IF ~b1 THEN "MISSING_FIELD" ELSE IF ~b2 THEN "INVALID_VALUE"
            ELSE IF ~b3 THEN "MISSING_FIELD" ELSE IF ~b4 THEN "MISSING_FIELD" ELSE "OK"
  <2>1. b1 \in BOOLEAN /\ b2 \in BOOLEAN /\ b3 \in BOOLEAN /\ b4 \in BOOLEAN
    BY DEF IsNumber
  <2>2. IdentityChecks(p) = << <<b1, "MISSING_FIELD">>, <<b2, "INVALID_VALUE">>,
                               <<b3, "MISSING_FIELD">> >>
    BY DEF IdentityChecks
  <2> HIDE DEF b1, b2, b3, b4
  <2>3. IdentityChecks(p) \o << <<b4, "MISSING_FIELD">> >>
          = << <<b1, "MISSING_FIELD">>, <<b2, "INVALID_VALUE">>,
               <<b3, "MISSING_FIELD">>, <<b4, "MISSING_FIELD">> >>
    BY <2>2, ConcatThree
  <2>4. FirstFailure(<< <<b1, "MISSING_FIELD">>, <<b2, "INVALID_VALUE">>,
                        <<b3, "MISSING_FIELD">>, <<b4, "MISSING_FIELD">> >>)
          = IF ~b1 THEN "MISSING_FIELD" ELSE IF ~b2 THEN "INVALID_VALUE"
            ELSE IF ~b3 THEN "MISSING_FIELD" ELSE IF ~b4 THEN "MISSING_FIELD" ELSE "OK"
    BY <2>1, FirstFailure4
  <2>. QED  BY <2>3, <2>4
<1>2. res \in Results /\ ((res = "OK") <=> (IdentityOK(p) /\ b4))
  BY <1>1, IdentityChecksPass DEF Results
<1>3. CASE res # "OK"
  <2>1. m \in Failed(res)
    BY <1>3 DEF ParseValueUpdate
  <2>. QED  BY <1>2, <1>3, <2>1, FailedIsMessage DEF ParsedAs
<1>4. CASE res = "OK"
  <2>1. PICK i \in ToUint(p.objectInstance), v \in UpdateValues(type, p.presentValue) :
               m = Decoded("upd", type, i, UpdateKind(type), v)
    BY <1>4 DEF ParseValueUpdate
  <2>2. i \in Uint /\ v \in Int /\ UpdateKind(type) \in ValueKinds
    BY ToUintInUint, UpdateValueFacts
  <2>3. /\ type \in {-1} \cup Range(ObjectTypeCode)
        /\ <<p.objectType, type>> \in SpecTypeTable
    BY <1>2, <1>4, ObjectTypeFacts DEF IdentityOK
  <2>4. m \in Messages
    <3>1. "upd" \in {"def", "upd", "del", "cfg"} /\ UpdateKind(type) \in ValueKinds \cup {"none"}
      BY <2>2
    <3>. QED  BY <2>1, <2>2, <2>3, <3>1, DecodedIsMessage
  <2>5. /\ m.res = "OK" /\ m.mt = "upd" /\ m.type = type
        /\ m.inst = i /\ m.kind = UpdateKind(type)
    BY <2>1 DEF Decoded
  <2>6. p.objectInstance \in Uint => m.inst = p.objectInstance
    BY <2>1, <2>5, ToUintExact
  <2>. QED  BY <1>2, <1>4, <2>3, <2>4, <2>5, <2>6 DEF ParsedAs
<1>. QED  BY <1>3, <1>4

(* What parse_object_definition returns. *)
LEMMA DefinitionParsed ==
    ASSUME NEW p, NEW m \in ParseObjectDefinition(p)
    PROVE  ParsedAs(m, "def", /\ IdentityOK(p)
                              /\ p.objectName # Absent
                              /\ p.presentValueType # Absent, p)
<1> DEFINE b1 == p.objectType # Absent
           b2 == ParseObjectType(p.objectType) >= 0
           b3 == IsNumber(p.objectInstance)
           b4 == p.objectName # Absent
           b5 == p.presentValueType # Absent
           res == FirstFailure(IdentityChecks(p) \o
                      << <<b4, "MISSING_FIELD">>, <<b5, "MISSING_FIELD">> >>)
           type == ParseObjectType(p.objectType)
<1>1. res = IF ~b1 THEN "MISSING_FIELD" ELSE IF ~b2 THEN "INVALID_VALUE"
            ELSE IF ~b3 THEN "MISSING_FIELD" ELSE IF ~b4 THEN "MISSING_FIELD"
            ELSE IF ~b5 THEN "MISSING_FIELD" ELSE "OK"
  <2>1. b1 \in BOOLEAN /\ b2 \in BOOLEAN /\ b3 \in BOOLEAN /\ b4 \in BOOLEAN
        /\ b5 \in BOOLEAN
    BY DEF IsNumber
  <2>2. IdentityChecks(p) = << <<b1, "MISSING_FIELD">>, <<b2, "INVALID_VALUE">>,
                               <<b3, "MISSING_FIELD">> >>
    BY DEF IdentityChecks
  <2> HIDE DEF b1, b2, b3, b4, b5
  <2>3. IdentityChecks(p) \o << <<b4, "MISSING_FIELD">>, <<b5, "MISSING_FIELD">> >>
          = << <<b1, "MISSING_FIELD">>, <<b2, "INVALID_VALUE">>,
               <<b3, "MISSING_FIELD">>, <<b4, "MISSING_FIELD">>,
               <<b5, "MISSING_FIELD">> >>
    BY <2>2, ConcatThreeTwo
  <2>4. FirstFailure(<< <<b1, "MISSING_FIELD">>, <<b2, "INVALID_VALUE">>,
                        <<b3, "MISSING_FIELD">>, <<b4, "MISSING_FIELD">>,
                        <<b5, "MISSING_FIELD">> >>)
          = IF ~b1 THEN "MISSING_FIELD" ELSE IF ~b2 THEN "INVALID_VALUE"
            ELSE IF ~b3 THEN "MISSING_FIELD" ELSE IF ~b4 THEN "MISSING_FIELD"
            ELSE IF ~b5 THEN "MISSING_FIELD" ELSE "OK"
    BY <2>1, FirstFailure5
  <2>. QED  BY <2>3, <2>4
<1>2. res \in Results /\ ((res = "OK") <=> (IdentityOK(p) /\ b4 /\ b5))
  BY <1>1, IdentityChecksPass DEF Results
<1>3. CASE res # "OK"
  <2>1. m \in Failed(res)
    BY <1>3 DEF ParseObjectDefinition
  <2>. QED  BY <1>2, <1>3, <2>1, FailedIsMessage DEF ParsedAs
<1>4. CASE res = "OK"
  <2>0. ParseObjectDefinition(p)
          = {Decoded("def", type, i, ParseValueType(p.presentValueType), 0) :
               i \in ToUint(p.objectInstance)}
    BY <1>4 DEF ParseObjectDefinition
  <2>1. PICK i \in ToUint(p.objectInstance) :
               m = Decoded("def", type, i, ParseValueType(p.presentValueType), 0)
    BY <2>0
  <2>2. i \in Uint /\ ParseValueType(p.presentValueType) \in ValueKinds
    <3>1. i \in Uint
      BY ToUintInUint
    <3>2. ParseValueType(p.presentValueType) \in ValueKinds
      BY DEF ParseValueType, ValueKinds
    <3>. QED  BY <3>1, <3>2
  <2>3. /\ type \in {-1} \cup Range(ObjectTypeCode)
        /\ <<p.objectType, type>> \in SpecTypeTable
    BY <1>2, <1>4, ObjectTypeFacts DEF IdentityOK
  <2>4. m \in Messages
    <3>1. /\ "def" \in {"def", "upd", "del", "cfg"}
          /\ ParseValueType(p.presentValueType) \in ValueKinds \cup {"none"}
          /\ 0 \in Int
      BY <2>2
    <3>. QED  BY <2>1, <2>2, <2>3, <3>1, DecodedIsMessage
  <2>5. /\ m.res = "OK" /\ m.mt = "def" /\ m.type = type
        /\ m.inst = i
    BY <2>1 DEF Decoded
  <2>6. p.objectInstance \in Uint => m.inst = p.objectInstance
    BY <2>1, <2>5, ToUintExact
  <2>. QED  BY <1>2, <1>4, <2>3, <2>4, <2>5, <2>6 DEF ParsedAs
<1>. QED  BY <1>3, <1>4

(* What parse_device_config returns. *)
LEMMA DeviceConfigParsed ==
    ASSUME NEW p, NEW m \in ParseDeviceConfig(p)
    PROVE  ParsedAs(m, "cfg", TRUE, p)
<1>1. m = Decoded("cfg", -1, 0, "none", 0)
  BY DEF ParseDeviceConfig
<1>2. m \in Messages
  <2>1. -1 \in {-1} \cup Range(ObjectTypeCode) /\ "none" \in ValueKinds \cup {"none"}
        /\ 0 \in Int
    OBVIOUS
  <2>. QED  BY <1>1, <2>1, ZeroIsUint, DecodedIsMessage
<1>. QED  BY <1>1, <1>2 DEF ParsedAs, Decoded

-----------------------------------------------------------------------------
(* parse_message_type knows exactly the four message types of the schema. *)
LEMMA MessageTypeFacts ==
    ASSUME NEW s
    PROVE  /\ (MessageTypeOf(s) # "unknown") <=> s \in DOMAIN SpecMessageType
           /\ s \in DOMAIN SpecMessageType => MessageTypeOf(s) = SpecMessageType[s]
           /\ MessageTypeOf(s) \in {"def", "upd", "del", "cfg", "unknown"}
           /\ Absent \notin DOMAIN SpecMessageType
<1>1. DOMAIN SpecMessageType = {"ObjectDefinition", "ValueUpdate", "ObjectDelete", "DeviceConfig"}
  BY DEF SpecMessageType
<1>. QED
  BY <1>1, AbsentAssumption DEF MessageTypeOf, SpecMessageType

(* The value kind parse_value_update derives from a known object type's *)
(* code is the one the schema gives the type's name.                     *)
LEMMA UpdateKindFacts ==
    ASSUME NEW n \in SpecTypeNames
    PROVE  UpdateKind(ParseObjectType(n)) = SpecUpdateKind[n]
<1>1. n \in DOMAIN ObjectTypeCode /\ ParseObjectType(n) = ObjectTypeCode[n]
  BY DEF SpecTypeNames, SpecTypeTable, ObjectTypeCode, ParseObjectType
<1>2. /\ n \in SpecBinaryNames <=> ObjectTypeCode[n] \in BinaryTypes
      /\ n \in SpecMultiStateNames <=> ObjectTypeCode[n] \in MultiStateTypes
      /\ ~(ObjectTypeCode[n] \in BinaryTypes /\ ObjectTypeCode[n] \in MultiStateTypes)
  BY <1>1 DEF ObjectTypeCode, BinaryTypes, MultiStateTypes, SpecBinaryNames,
              SpecMultiStateNames
<1>3. SpecUpdateKind[n] = IF n \in SpecBinaryNames THEN "boolean"
                         ELSE IF n \in SpecMultiStateNames THEN "unsigned" ELSE "real"
  BY DEF SpecUpdateKind
<1>. QED
  BY <1>1, <1>2, <1>3 DEF UpdateKind

(* The checks of each parse function pass for a payload whose required *)
(* fields are present, whose type name is known and whose instance is a *)
(* uint32_t value; and they pass only if the required fields are present *)
(* and the type name is known.                                           *)
LEMMA RequiredFields ==
    ASSUME NEW p
    PROVE  /\ (IdentityOK(p) /\ p.objectName # Absent /\ p.presentValueType # Absent)
                 => (\A f \in SpecRequired["def"] : p[f] # Absent) /\ p.objectType \in SpecTypeNames
           /\ (\A f \in SpecRequired["def"] : p[f] # Absent) /\ p.objectType \in SpecTypeNames
              /\ p.objectInstance \in Uint
                 => IdentityOK(p) /\ p.objectName # Absent /\ p.presentValueType # Absent
           /\ (IdentityOK(p) /\ p.presentValue # Absent)
                 => (\A f \in SpecRequired["upd"] : p[f] # Absent) /\ p.objectType \in SpecTypeNames
           /\ (\A f \in SpecRequired["upd"] : p[f] # Absent) /\ p.objectType \in SpecTypeNames
              /\ p.objectInstance \in Uint
                 => IdentityOK(p) /\ p.presentValue # Absent
           /\ IdentityOK(p)
                 => (\A f \in SpecRequired["del"] : p[f] # Absent) /\ p.objectType \in SpecTypeNames
           /\ (\A f \in SpecRequired["del"] : p[f] # Absent) /\ p.objectType \in SpecTypeNames
              /\ p.objectInstance \in Uint
                 => IdentityOK(p)
           /\ \A f \in SpecRequired["cfg"] : p[f] # Absent
<1>0. Uint \subseteq Int
  BY WidthAssumption DEF Uint
<1>1. Absent \notin SpecTypeNames /\ Absent \notin Int /\ Uint \subseteq Int
  BY <1>0, ObjectTypeFacts, WidthAssumption
<1>2. /\ SpecRequired["def"] = {"objectType", "objectInstance", "objectName", "presentValueType"}
      /\ SpecRequired["upd"] = {"objectType", "objectInstance", "presentValue"}
      /\ SpecRequired["del"] = {"objectType", "objectInstance"}
      /\ SpecRequired["cfg"] = {}
  BY DEF SpecRequired
<1>3. (IdentityOK(p) /\ p.objectName # Absent /\ p.presentValueType # Absent)
        => (\A f \in SpecRequired["def"] : p[f] # Absent) /\ p.objectType \in SpecTypeNames
  BY <1>1, <1>2 DEF IdentityOK, IsNumber
<1>4. (\A f \in SpecRequired["def"] : p[f] # Absent) /\ p.objectType \in SpecTypeNames
      /\ p.objectInstance \in Uint
        => IdentityOK(p) /\ p.objectName # Absent /\ p.presentValueType # Absent
  BY <1>1, <1>2 DEF IdentityOK, IsNumber
<1>5. (IdentityOK(p) /\ p.presentValue # Absent)
        => (\A f \in SpecRequired["upd"] : p[f] # Absent) /\ p.objectType \in SpecTypeNames
  BY <1>1, <1>2 DEF IdentityOK, IsNumber
<1>6. (\A f \in SpecRequired["upd"] : p[f] # Absent) /\ p.objectType \in SpecTypeNames
      /\ p.objectInstance \in Uint
        => IdentityOK(p) /\ p.presentValue # Absent
  BY <1>1, <1>2 DEF IdentityOK, IsNumber
<1>7. IdentityOK(p)
        => (\A f \in SpecRequired["del"] : p[f] # Absent) /\ p.objectType \in SpecTypeNames
  BY <1>1, <1>2 DEF IdentityOK, IsNumber
<1>8. (\A f \in SpecRequired["del"] : p[f] # Absent) /\ p.objectType \in SpecTypeNames
      /\ p.objectInstance \in Uint
        => IdentityOK(p)
  BY <1>1, <1>2 DEF IdentityOK, IsNumber
<1>9. \A f \in SpecRequired["cfg"] : p[f] # Absent
  BY <1>2
<1>. QED
  BY <1>3, <1>4, <1>5, <1>6, <1>7, <1>8, <1>9

(* m is a result message_handler_parse can give for event e: a message  *)
(* that DecodesPerSchema allows for e.                                   *)
ParsedCorrectly(m, e) ==
    /\ m \in Messages
    /\ m.res = "OK" => Complete(e)
    /\ WellFormed(e) =>
           /\ m.res = "OK"
           /\ m.mt = SpecMessageType[e.messageType]
           /\ m.mt # "cfg" =>
                  /\ <<e.payload.objectType, m.type>> \in SpecTypeTable
                  /\ m.inst = e.payload.objectInstance
           /\ m.mt = "upd" => m.kind = SpecUpdateKind[e.payload.objectType]

(* Every result of message_handler_parse is correct for its event. *)
LEMMA ParseCorrect ==
    ASSUME NEW e, NEW m \in Parse(e)
    PROVE  ParsedCorrectly(m, e)
<1>1. CASE e = InvalidJson
  <2>1. m \in Failed("INVALID_JSON")
    BY <1>1 DEF Parse
  <2>2. m \in Messages /\ m.res = "INVALID_JSON"
    BY <2>1, FailedIsMessage DEF Results
  <2>. QED  BY <1>1, <2>2 DEF ParsedCorrectly, WellFormed, Complete
<1>2. CASE e # InvalidJson
  <2> DEFINE kind == MessageTypeOf(e.messageType)
             p == e.payload
             c1 == e.messageType # Absent
             c2 == kind # "unknown"
             c3 == e.sourceId # Absent
             c4 == e.payload # NotObject
             res == FirstFailure(<< <<c1, "MISSING_FIELD">>, <<c2, "UNKNOWN_MESSAGE_TYPE">>,
                                    <<c3, "MISSING_FIELD">>, <<c4, "MISSING_FIELD">> >>)
  <2>1. res = IF ~c1 THEN "MISSING_FIELD" ELSE IF ~c2 THEN "UNKNOWN_MESSAGE_TYPE"
              ELSE IF ~c3 THEN "MISSING_FIELD" ELSE IF ~c4 THEN "MISSING_FIELD" ELSE "OK"
    <3>1. c1 \in BOOLEAN /\ c2 \in BOOLEAN /\ c3 \in BOOLEAN /\ c4 \in BOOLEAN
      OBVIOUS
    <3> HIDE DEF c1, c2, c3, c4
    <3>. QED  BY <3>1, FirstFailure4
  <2>2. /\ (c1 /\ c2) <=> e.messageType \in DOMAIN SpecMessageType
        /\ e.messageType \in DOMAIN SpecMessageType => kind = SpecMessageType[e.messageType]
        /\ kind \in {"def", "upd", "del", "cfg", "unknown"}
    BY MessageTypeFacts
  <2>3. res \in Results /\ ((res = "OK") <=> (e.messageType \in DOMAIN SpecMessageType /\ c3 /\ c4))
    BY <2>1, <2>2 DEF Results
  <2>4. CASE res # "OK"
    <3>1. m \in Failed(res)
      BY <1>2, <2>4 DEF Parse
    <3>2. m \in Messages /\ m.res # "OK" /\ ~Complete(e)
      BY <2>3, <2>4, <3>1, FailedIsMessage DEF Complete
    <3>. QED  BY <3>2 DEF ParsedCorrectly, WellFormed
  <2>5. CASE res = "OK"
    <3>1. /\ e.messageType \in DOMAIN SpecMessageType
          /\ kind = SpecMessageType[e.messageType]
          /\ kind \in {"def", "upd", "del", "cfg"}
      BY <2>2, <2>3, <2>5
    <3>2. /\ Complete(e) <=>
               /\ \A f \in SpecRequired[kind] : p[f] # Absent
               /\ kind # "cfg" => p.objectType \in SpecTypeNames
          /\ WellFormed(e) =>
               /\ Complete(e)
               /\ kind # "cfg" => p.objectInstance \in Uint
      BY <1>2, <2>3, <2>5, <3>1 DEF Complete, WellFormed
    <3>3. CASE kind = "def"
      <4>1. m \in ParseObjectDefinition(p)
        BY <1>2, <2>5, <3>3 DEF Parse
      <4>2. ParsedAs(m, "def", /\ IdentityOK(p) /\ p.objectName # Absent
                               /\ p.presentValueType # Absent, p)
        BY <4>1, DefinitionParsed
      <4>. QED  BY <3>1, <3>2, <3>3, <4>2, RequiredFields DEF ParsedAs, ParsedCorrectly
    <3>4. CASE kind = "upd"
      <4>1. m \in ParseValueUpdate(p)
        BY <1>2, <2>5, <3>4 DEF Parse
      <4>2. ParsedAs(m, "upd", IdentityOK(p) /\ p.presentValue # Absent, p)
        BY <4>1, UpdateParsed
      <4>3. p.objectType \in SpecTypeNames =>
              UpdateKind(ParseObjectType(p.objectType)) = SpecUpdateKind[p.objectType]
        BY UpdateKindFacts
      <4>. QED  BY <3>1, <3>2, <3>4, <4>2, <4>3, RequiredFields DEF ParsedAs, ParsedCorrectly
    <3>5. CASE kind = "del"
      <4>1. m \in ParseObjectDelete(p)
        BY <1>2, <2>5, <3>5 DEF Parse
      <4>2. ParsedAs(m, "del", IdentityOK(p), p)
        BY <4>1, DeleteParsed
      <4>. QED  BY <3>1, <3>2, <3>5, <4>2, RequiredFields DEF ParsedAs, ParsedCorrectly
    <3>6. CASE kind = "cfg"
      <4>1. m \in ParseDeviceConfig(p)
        BY <1>2, <2>5, <3>6 DEF Parse
      <4>2. ParsedAs(m, "cfg", TRUE, p)
        BY <4>1, DeviceConfigParsed
      <4>. QED  BY <3>1, <3>2, <3>6, <4>2, RequiredFields DEF ParsedAs, ParsedCorrectly
    <3>. QED  BY <3>1, <3>3, <3>4, <3>5, <3>6
  <2>. QED  BY <2>4, <2>5
<1>. QED  BY <1>1, <1>2

-----------------------------------------------------------------------------
(* The inductive invariant: a decoded result is one that                 *)
(* message_handler_parse can return for the event under decoding.        *)
IInv ==
    /\ TypeOK
    /\ out # Pending => out \in Parse(raw)

LEMMA InitIInv == Init => IInv
BY DEF Init, IInv, TypeOK

LEMMA NextIInv == IInv /\ [Next]_vars => IInv'
<1> SUFFICES ASSUME IInv, [Next]_vars PROVE IInv'
  OBVIOUS
<1>1. CASE Decode
  <2>1. out' \in Parse(raw) /\ raw' = raw /\ offset' = offset
    BY <1>1 DEF Decode
  <2>2. out' \in Messages
    BY <2>1, ParseCorrect DEF ParsedCorrectly
  <2>. QED  BY <2>1, <2>2 DEF IInv, TypeOK
<1>2. CASE Receive
  BY <1>2 DEF Receive, IInv, TypeOK
<1>3. CASE UNCHANGED vars
  BY <1>3 DEF vars, IInv, TypeOK
<1>. QED  BY <1>1, <1>2, <1>3 DEF Next

LEMMA AlwaysIInv == Spec => []IInv
BY InitIInv, NextIInv, PTL DEF Spec

(* Every decoded instance is a uint32_t value and every result a message: *)
(* message_handler_parse only returns well-typed messages.               *)
THEOREM DecoderTypeCorrect == Spec => []TypeOK
BY AlwaysIInv, PTL DEF IInv

(* For every width of uint32_t and every event, message_handler_parse    *)
(* rejects an event that lacks a field the schema requires or names an   *)
(* unknown object type, and accepts every well-formed event with its      *)
(* message type, the schema's code for its object type, its instance and, *)
(* for a ValueUpdate, the schema's value kind for its object type.        *)
THEOREM DecodesSchemaConformant == Spec => []DecodesPerSchema
<1>1. IInv => DecodesPerSchema
  <2> SUFFICES ASSUME IInv, out # Pending PROVE DecodesPerSchema
    BY DEF DecodesPerSchema
  <2>1. ParsedCorrectly(out, raw)
    BY ParseCorrect DEF IInv
  <2>. QED  BY <2>1 DEF ParsedCorrectly, DecodesPerSchema
<1>. QED  BY <1>1, AlwaysIInv, PTL

=============================================================================
