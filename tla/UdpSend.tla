------------------------------- MODULE UdpSend -------------------------------
(***************************************************************************)
(* Sending a packet: the form (send.ts, send-form.tsx), what it says of a  *)
(* value (field-validation.ts, types.ts), and the bytes the backend makes  *)
(* of it (encoding.go).                                                    *)
(*                                                                         *)
(* A value is a sequence of characters, of which "tab" and "wide" stand    *)
(* for other white space than a blank and for a character that is not      *)
(* ASCII.  Of the numeric types those of 1 and 2 bytes are here; those of  *)
(* 4 and 8 differ by their size and bounds, floats are left out.           *)
(***************************************************************************)
EXTENDS Integers, Sequences, FiniteSets, SequencesExt

CONSTANTS
    Values,    \* what the user types as a value
    Lengths,   \* what the user types as a length
    MaxFields, \* bound: rows of the form
    Idle       \* no request

Endiannesses == {"big", "little"}
Encodings == {"text", "fixed"}   \* "json" is like "text" here
Variable == {"string", "bytes"}
Unsigned == {"uint8", "uint16"}
Signed == {"int8", "int16"}
FieldTypes == Variable \cup Unsigned \cup Signed
Sizes == [uint8 |-> 1, int8 |-> 1, uint16 |-> 2, int16 |-> 2]   \* FIELD_TYPE_SIZES

Refusal == <<>>   \* no bytes: the backend returns an error

ASSUME SendAssumption == Lengths \subseteq Int /\ MaxFields \in Nat

VARIABLES
    encoding,
    endianness,
    fields,     \* [fieldType, length, value]
    sending,    \* the request under way, or Idle
    sent        \* history: the last request and its bytes

sendVars == <<encoding, endianness, fields, sending, sent>>
-----------------------------------------------------------------------------
(* Characters and numbers.                                                 *)

Digits == {"0", "1", "2", "3", "4", "5", "6", "7", "8", "9"}
HexDigits == Digits \cup {"f"}
DigitOf(c) == CHOOSE d \in 0 .. 9 : <<"0", "1", "2", "3", "4", "5", "6", "7", "8", "9">>[d + 1] = c
AllOf(v, S) == \A i \in DOMAIN v : v[i] \in S

Number(v) == FoldLeft(LAMBDA n, c : 10 * n + DigitOf(c), 0, v)
Negative(v) == v # <<>> /\ v[1] = "-"
Unsign(v) == IF v # <<>> /\ v[1] \in {"-", "+"} THEN Tail(v) ELSE v
NumberOf(v) == IF Negative(v) THEN -Number(Unsign(v)) ELSE Number(Unsign(v))
IsDigits(v) == v # <<>> /\ AllOf(v, Digits)
-----------------------------------------------------------------------------
(* What the form says of a field.                                          *)

\* isValidNumericFieldValue: an empty value is one not entered yet
IsValidNumeric(v, t) ==
    \/ v = <<>>
    \/ t = "uint8" /\ IsDigits(v) /\ Number(v) <= 255
    \/ t = "uint16" /\ IsDigits(v) /\ Number(v) <= 65535
    \/ /\ t \in Signed
       /\ IsDigits(IF Negative(v) THEN Tail(v) ELSE v)
       /\ \/ t = "int8" /\ NumberOf(v) \in -128 .. 127
          \/ t = "int16" /\ NumberOf(v) \in -32768 .. 32767

White == {" ", "tab"}
HexOnly(v, blanks) == SelectSeq(v, LAMBDA c : c \notin blanks)
IsHex(v) == AllOf(v, HexDigits) /\ Len(v) % 2 = 0
IsAscii(v) == \A i \in DOMAIN v : v[i] # "wide"

IsValid(f) ==
    \/ f.fieldType = "string" /\ IsAscii(f.value)
    \/ f.fieldType = "bytes" /\ IsHex(HexOnly(f.value, White))
    \/ f.fieldType \in Unsigned \cup Signed /\ IsValidNumeric(f.value, f.fieldType)

FieldBytes(f) == IF f.fieldType = "bytes" THEN Len(HexOnly(f.value, White)) \div 2 ELSE Len(f.value)
\* not marked as "error" nor as "warn"
Unmarked(f) == IsValid(f) /\ (f.fieldType \in Variable => FieldBytes(f) <= f.length)

\* totalFieldBytes
Total(fs) == FoldLeft(LAMBDA n, f : n + (IF f.fieldType \in Variable THEN f.length ELSE Sizes[f.fieldType]), 0, fs)
-----------------------------------------------------------------------------
(* What the backend makes of it.                                           *)

\* strconv.ParseUint and ParseInt
Parses(v, t) ==
    LET bits == 8 * Sizes[t] IN
    IF t \in Unsigned THEN IsDigits(v) /\ Number(v) < 2 ^ bits
    ELSE IsDigits(Unsign(v)) /\ -(2 ^ (bits - 1)) <= NumberOf(v) /\ NumberOf(v) < 2 ^ (bits - 1)

\* putUint: the low bytes of the 64 bits, a negative number in two's complement
PutBig(n, size, order) ==
    [i \in 1 .. size |-> ((n % (256 ^ size)) \div (256 ^ (size - i))) % 256]
PutUint(n, size, order) ==
    [i \in 1 .. size |-> LET power == IF order = "big" THEN size - i ELSE i - 1
                         IN  ((n % (256 ^ size)) \div (256 ^ power)) % 256]

\* the characters of a field stand for their bytes; padTo
PadTo(data, length) == data \o [i \in 1 .. length - Len(data) |-> 0]
Pairs(v) == [i \in 1 .. Len(v) \div 2 |-> <<v[2 * i - 1], v[2 * i]>>]

EncodeField(f, order) ==
    LET decoded == IF f.fieldType = "string" THEN f.value ELSE Pairs(HexOnly(f.value, {" "}))
        decodes == IF f.fieldType = "string" THEN IsAscii(f.value) ELSE IsHex(HexOnly(f.value, {" "}))
    IN  IF f.fieldType \in Variable
        THEN IF f.length > 0 /\ decodes /\ Len(decoded) <= f.length THEN PadTo(decoded, f.length) ELSE Refusal
        ELSE IF Parses(f.value, f.fieldType)
             THEN PutUint(NumberOf(f.value), Sizes[f.fieldType], order) ELSE Refusal

\* DecodeFixedLengthPayload
EncodeFields(fs, order) ==
    LET parts == [i \in DOMAIN fs |-> EncodeField(fs[i], order)] IN
    IF fs = <<>> \/ Refusal \in Range(parts) THEN Refusal ELSE FlattenSeq(parts)
-----------------------------------------------------------------------------
(* The form.                                                               *)

SendInit ==
    /\ encoding = "text" /\ endianness = "big" /\ fields = <<>>
    /\ sending = Idle /\ sent = Idle

SetEncoding(e) ==
    /\ encoding # e /\ encoding' = e
    /\ UNCHANGED <<endianness, fields, sending, sent>>
SetEndianness(e) ==
    /\ encoding = "fixed" /\ endianness # e /\ endianness' = e
    /\ UNCHANGED <<encoding, fields, sending, sent>>
AddField ==
    /\ encoding = "fixed" /\ Len(fields) < MaxFields
    /\ fields' = Append(fields, [fieldType |-> "string", length |-> 1, value |-> <<>>])
    /\ UNCHANGED <<encoding, endianness, sending, sent>>
\* the length follows a type that has a size; the value stays
SetType(i, t) ==
    /\ encoding = "fixed" /\ t # fields[i].fieldType
    /\ fields' = [fields EXCEPT ![i].fieldType = t,
                                ![i].length = IF t \in Variable THEN @ ELSE Sizes[t]]
    /\ UNCHANGED <<encoding, endianness, sending, sent>>
SetLength(i, n) ==
    /\ encoding = "fixed" /\ fields[i].fieldType \in Variable /\ n # fields[i].length
    /\ fields' = [fields EXCEPT ![i].length = n]
    /\ UNCHANGED <<encoding, endianness, sending, sent>>
SetValue(i, v) ==
    /\ encoding = "fixed" /\ v # fields[i].value
    /\ fields' = [fields EXCEPT ![i].value = v]
    /\ UNCHANGED <<encoding, endianness, sending, sent>>
RemoveField(i) ==
    /\ encoding = "fixed"
    /\ fields' = RemoveAt(fields, i)
    /\ UNCHANGED <<encoding, endianness, sending, sent>>

\* The request is made of the form as it is at the click.  What is sent in the
\* other encodings, a text, is left out.
Send ==
    /\ sending = Idle
    /\ sending' = [encoding |-> encoding, fields |-> IF encoding = "fixed" THEN fields ELSE <<>>,
                   order |-> endianness, shown |-> Total(fields)]
    /\ UNCHANGED <<encoding, endianness, fields, sent>>
\* UDPSendService.Send; the address or the network may refuse the packet
Deliver ==
    /\ sending # Idle
    /\ \/ /\ sending.encoding = "fixed"
          /\ sent' = [req |-> sending, bytes |-> EncodeFields(sending.fields, sending.order)]
       \/ UNCHANGED sent
    /\ sending' = Idle
    /\ UNCHANGED <<encoding, endianness, fields>>

\* the form is blank when the page is loaded again
SendReload ==
    /\ encoding' = "text" /\ endianness' = "big" /\ fields' = <<>>
    /\ sending' = Idle
    /\ UNCHANGED sent

SendUser ==
    \/ AddField \/ Send
    \/ \E i \in DOMAIN fields :
          \/ RemoveField(i)
          \/ \E t \in FieldTypes : SetType(i, t)
          \/ \E n \in Lengths : SetLength(i, n)
          \/ \E v \in Values : SetValue(i, v)
-----------------------------------------------------------------------------
(* Properties.                                                             *)

\* The form marks exactly what the backend will refuse (field-validation.ts:65
\* and encoding.go:121), but for three cases it overlooks: an empty number, a
\* length that is not positive, and hex with other white space than blanks.
Overlooked(f) ==
    \/ f.fieldType \notin Variable /\ f.value = <<>>
    \/ f.fieldType \in Variable /\ f.length <= 0
    \/ f.fieldType = "bytes" /\ "tab" \in Range(f.value)
\* strconv takes a plus sign, which the form marks
Stricter(f) == f.fieldType \in Signed /\ f.value # <<>> /\ f.value[1] = "+"
FormAgrees ==
    \A i \in DOMAIN fields : LET f == fields[i] IN
        Overlooked(f) \/ Stricter(f) \/ (Unmarked(f) <=> EncodeField(f, endianness) # Refusal)

\* A packet has the size that the form showed, and every number is read back
\* from its bytes, in the byte order that was chosen at the click.
ReadBack(bytes, first, t, order) ==
    LET size == Sizes[t]
        byte(i) == bytes[first + (IF order = "big" THEN i ELSE size - 1 - i)]
        n == FoldLeft(LAMBDA acc, i : 256 * acc + byte(i), 0, [i \in 1 .. size |-> i - 1])
    IN  IF t \in Signed /\ n >= 2 ^ (8 * size - 1) THEN n - 2 ^ (8 * size) ELSE n
SentAsShown ==
    IF sent = Idle \/ sent.bytes = Refusal THEN TRUE
    ELSE LET fs == sent.req.fields IN
         /\ Len(sent.bytes) = sent.req.shown
         /\ \A i \in DOMAIN fs : fs[i].fieldType \notin Variable =>
               ReadBack(sent.bytes, 1 + Total(SubSeq(fs, 1, i - 1)), fs[i].fieldType, sent.req.order)
                 = NumberOf(fs[i].value)

\* The form and the encoder read the fields alike.
FieldsAgree == FormAgrees /\ SentAsShown
=============================================================================
