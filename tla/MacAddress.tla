------------------------------ MODULE MacAddress ------------------------------
(***************************************************************************)
(* MAC addresses: the parser and the printer of the C++ class              *)
(* (impl/MacAddress.ipp), and the objects of the same name in Java and in  *)
(* Python, which keep a text and some bytes and have the C++ class turn    *)
(* one into the other.                                                     *)
(*                                                                         *)
(* A text is a sequence of characters: a hexadecimal digit is its value,   *)
(* whether it is a small or a capital letter.  Lengths are eight bits in   *)
(* C++ and bytes of Python are integers of any size.                       *)
(***************************************************************************)
EXTENDS Integers, Sequences

Colon  == 16
Hyphen == 17
Other  == 18

Separators == {Colon, Hyphen}

MIN_ADAPTER_ADDRESS_LENGTH == 6
MAX_ADAPTER_ADDRESS_LENGTH == 8

\* What a parser or a constructor yields when it throws.
Invalid == << >>

GoodLength(n) == n \in MIN_ADAPTER_ADDRESS_LENGTH..MAX_ADAPTER_ADDRESS_LENGTH

\* Counted in a uint8_t, one character after the other.
PredictReprLength(text) ==
    LET count[i \in 0..Len(text)] ==
            IF i = 0 THEN 0 ELSE (count[i - 1] + (IF text[i] \in Separators THEN 1 ELSE 0)) % 256
    IN (count[Len(text)] + 1) % 256

\* One turn of the loop over the characters.
Scan(s, c) ==
    IF c \in Separators
    THEN [data |-> Append(s.data, s.byte), byte |-> 0, chars |-> 0,
          ok |-> s.ok /\ s.chars = 2]
    ELSE [data |-> s.data, byte |-> (s.byte * 16 + c) % 256, chars |-> s.chars + 1,
          ok |-> s.ok /\ c # Other /\ s.chars < 2]

\* What the loop has read after the last character.
Scanned(text) ==
    LET s[i \in 0..Len(text)] ==
            IF i = 0 THEN [data |-> << >>, byte |-> 0, chars |-> 0, ok |-> TRUE]
            ELSE Scan(s[i - 1], text[i])
    IN s[Len(text)]

\* A fault in FromRepr: the last octet is not checked.
FromReprOpenEnded(text) ==
    LET s == Scanned(text)
    IN IF GoodLength(PredictReprLength(text)) /\ s.ok THEN Append(s.data, s.byte) ELSE Invalid

FromRepr(text) ==
    LET s == Scanned(text)
        data == Append(s.data, s.byte)
    IN IF /\ GoodLength(PredictReprLength(text))
          /\ s.ok
          /\ s.chars = 2
          /\ Len(data) = PredictReprLength(text)
       THEN data ELSE Invalid

Digits(octet) == <<octet \div 16, octet % 16>>

\* "%02x", with colons between: every third character is one.
ToRepr(data) ==
    IF ~GoodLength(Len(data)) THEN Invalid
    ELSE [p \in 1..(3 * Len(data) - 1) |->
             IF p % 3 = 0 THEN Colon ELSE Digits(data[(p + 2) \div 3])[p % 3]]

-----------------------------------------------------------------------------
(* The C++, Java and Python objects. *)

Object(text, data) == [text |-> text, data |-> data]

MacAddressOfText(text) == Object(text, FromRepr(text))
MacAddressOfData(data) == Object(ToRepr(data), data)

Threw(object) == object.text = Invalid \/ object.data = Invalid

\* convert_to_java and convertToPython copy both; Java's and Python's own
\* constructors ask C++ for the one they are not given, and throw if it does.
Converted(object) == Object(object.text, object.data)

JavaOfText(text) == IF Len(text) < 2 THEN Object(text, Invalid) ELSE MacAddressOfText(text)

\* jsize becomes uint8_t.
JavaOfData(data) ==
    Object(ToRepr(SubSeq(data, 1, Len(data) % 256)), data)

\* Each integer becomes a uint8_t, and so does their number.
PythonOfData(data) ==
    Object(ToRepr([i \in 1..(Len(data) % 256) |-> data[i] % 256]), data)

PythonOfText(text) == MacAddressOfText(text)

\* operator==, equals() and __eq__: the text is not looked at.
SameAddress(a, b) == a.data = b.data
=============================================================================
