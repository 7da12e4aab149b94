------------------------------- MODULE RAPIDData -------------------------------
(***************************************************************************)
(* RAPID data on the client's side: how values are turned into the text the *)
(* controller stores and back, and the copying and reading of records that  *)
(* is built on it.  A text is a sequence of tokens: brackets, commas,       *)
(* quotes, blanks and the letters of strings, and the words and numbers     *)
(* that stream extraction reads as a whole.                                 *)
(***************************************************************************)
EXTENDS Integers, Sequences, SequencesExt, Functions

CONSTANTS
  Shape,    \* the components of the record type in use
  Values,   \* the values used of it
  Digits    \* the significant digits a stream writes of a number, 6 in the code

Open == <<"[">>
Close == <<"]">>
Comma == <<",">>
Quote == <<"quote">>
Blank == <<" ">>

ASSUME DigitsAssumption == Digits \in Nat \ {0}

----------------------------------------------------------------------------
(* The record types of rws_rapid.h                                         *)

Bool == [kind |-> "bool"]
Num == [kind |-> "num"]
String == [kind |-> "string"]
RecordOf(components) == [kind |-> "record", of |-> components]
Nums(n) == RecordOf([i \in 1 .. n |-> Num])
RobJoint == Nums(6)
ExtJoint == Nums(6)
JointTarget == RecordOf(<<RobJoint, ExtJoint>>)
Pos == Nums(3)
Orient == Nums(4)
Pose == RecordOf(<<Pos, Orient>>)
ConfData == Nums(4)
RobTarget == RecordOf(<<Pos, Orient, ConfData, ExtJoint>>)
LoadData == RecordOf(<<Num, Pos, Orient, Num, Num, Num>>)
ToolData == RecordOf(<<Bool, Pose, LoadData>>)
WObjData == RecordOf(<<Bool, Bool, String, Pose, Pose>>)
SpeedData == Nums(4)

----------------------------------------------------------------------------
(* From values to text                                                     *)

\* Powers of ten up to where the values end.
PowerOfTen == [n \in 0 .. 9 |-> FoldFunction(LAMBDA i, product : 10 * product, 1, [i \in 1 .. n |-> i])]

\* A number as a stream writes it: the digits after the significant ones are
\* rounded off.
Rounded(n) ==
  LET size == IF n < 0 THEN -n ELSE n
      unit == IF \E p \in 1 .. 9 - Digits : PowerOfTen[Digits + p] > size
                THEN LET excess == CHOOSE p \in 0 .. 9 - Digits :
                                     /\ PowerOfTen[Digits + p] > size
                                     /\ p = 0 \/ PowerOfTen[Digits + p - 1] <= size
                     IN PowerOfTen[excess]
                ELSE PowerOfTen[9 - Digits]
      near == ((size + unit \div 2) \div unit) * unit
  IN IF n < 0 THEN -near ELSE near

RECURSIVE ConstructString(_, _)

\* RAPIDRecord::constructString, the components between commas.
ConstructRecord(shape, value) ==
  <<Open>>
  \o FlattenSeq([i \in 1 .. Len(shape) |->
       ConstructString(shape[i], value[i]) \o (IF i # Len(shape) THEN <<Comma>> ELSE <<>>)])
  \o <<Close>>

ConstructString(type, value) ==
  CASE type.kind = "bool" -> <<IF value THEN <<"TRUE">> ELSE <<"FALSE">>>>
    [] type.kind = "num" -> <<<<"number", Rounded(value)>>>>
    [] type.kind = "string" -> <<Quote>> \o value \o <<Quote>>
    [] type.kind = "record" -> ConstructRecord(type.of, value)

----------------------------------------------------------------------------
(* From text to values                                                     *)

CountCharInString(input, character) == Len(SelectSeq(input, LAMBDA c : c = character))

\* The outermost brackets are removed; the place of the last one is counted as if
\* the first one had been before it.
Unbracketed(text) ==
  IF Contains(text, Open) /\ Contains(text, Close)
    THEN RemoveAt(RemoveAt(text, SelectInSeq(text, LAMBDA c : c = Open)),
                  SelectLastInSeq(text, LAMBDA c : c = Close) - 1)
    ELSE text

\* getline at the commas, the pieces that are not empty.
Pieces(text) ==
  LET split == FoldLeft(LAMBDA done, c :
                 IF c = Comma THEN Append(done, <<>>)
                 ELSE Append(Front(done), Append(Last(done), c)), <<<<>>>>, text)
  IN SelectSeq(split, LAMBDA piece : piece # <<>>)

\* The pieces put together until their brackets balance.
ExtractDelimitedSubstrings(input) ==
  FoldLeft(LAMBDA done, piece :
      LET counter == done.counter + CountCharInString(piece, Open)
                                  - CountCharInString(piece, Close)
      IN IF counter = 0
           THEN [counter |-> 0, open |-> <<>>, values |-> Append(done.values, done.open \o piece)]
           ELSE [done EXCEPT !.counter = counter, !.open = @ \o piece \o <<Comma>>],
    [counter |-> 0, open |-> <<>>, values |-> <<>>], Pieces(Unbracketed(input))).values

\* RAPIDString: the quotes at the ends are removed, and the first word is taken.
\* Without one the old value stays, as it does when an exception is thrown.
ParseText(text, old) ==
  LET opened == IF text # <<>> /\ Head(text) = Quote THEN Tail(text) ELSE text
      bare == IF opened # <<>> /\ Last(opened) = Quote THEN Front(opened) ELSE opened
      start == SelectInSeq(bare, LAMBDA c : c # Blank)
      rest == SubSeq(bare, start, Len(bare))
      blank == SelectInSeq(rest, LAMBDA c : c = Blank)
  IN IF start = 0 THEN old
     ELSE IF blank = 0 THEN rest ELSE SubSeq(rest, 1, blank - 1)

\* An extraction that fails makes a number zero.
ParseNumber(text) ==
  IF text # <<>> /\ Head(text)[1] = "number" THEN Head(text)[2] ELSE 0

RECURSIVE Throws(_, _)

\* Parsing throws out_of_range at a string whose text is nothing but a quote: the
\* last quote is looked for in what is left, where npos equals size() - 1.
Throws(type, text) ==
  \/ type.kind = "string" /\ text \in {<<>>, <<Quote>>}
  \/ /\ type.kind = "record"
     /\ LET substrings == ExtractDelimitedSubstrings(text)
        IN /\ Len(type.of) = Len(substrings)
           /\ \E i \in 1 .. Len(type.of) : Throws(type.of[i], substrings[i])

RECURSIVE ParseString(_, _, _)

\* Mutant: as many components as there are, whatever their number.
ParseWhatIsThere(shape, text, old) ==
  LET substrings == ExtractDelimitedSubstrings(text)
  IN [i \in 1 .. Len(shape) |->
        IF i <= Len(substrings) THEN ParseString(shape[i], substrings[i], old[i]) ELSE old[i]]

\* RAPIDRecord::parseString: nothing is done if the number of components differs,
\* and nothing after a component that throws.
ParseRecord(shape, text, old) ==
  LET substrings == ExtractDelimitedSubstrings(text)
      Thrown(i) == \E j \in 1 .. i - 1 : Throws(shape[j], substrings[j])
  IN IF Len(shape) # Len(substrings) THEN old
     ELSE [i \in 1 .. Len(shape) |->
             IF Thrown(i) THEN old[i] ELSE ParseString(shape[i], substrings[i], old[i])]

ParseString(type, text, old) ==
  CASE type.kind = "bool" -> text = <<<<"TRUE">>>>
    [] type.kind = "num" -> ParseNumber(text)
    [] type.kind = "string" -> ParseText(text, old)
    [] type.kind = "record" -> ParseRecord(type.of, text, old)

----------------------------------------------------------------------------
(* A record of a program, and the symbol of the controller                 *)

VARIABLES
  copy,     \* the record the program copies and reads into
  symbol,   \* the value of the controller's symbol
  reading,  \* getRAPIDSymbolData goes on to ask for the data
  given,    \* the value copy was given last, <<>> at first
  outcome   \* of the last getRAPIDSymbolData: "success", "failure" or "exception"

vars == <<copy, symbol, reading, given, outcome>>

Init ==
  /\ copy \in Values /\ symbol \in Values
  /\ given = <<>> /\ reading = FALSE /\ outcome = "none"

\* RAPIDRecord::operator=, by way of the text, component by component.
Assign(other) ==
  /\ ~reading
  /\ copy' = [i \in DOMAIN copy |->
       ParseString(Shape[i], ConstructString(Shape[i], other[i]), copy[i])]
  /\ given' = other
  /\ UNCHANGED <<symbol, reading, outcome>>

\* The symbol as the controller writes it.
Text == ConstructString(RecordOf(Shape), symbol)

\* getRAPIDSymbolData: first the type is asked for, then the data; a request
\* may fail, and a type that differs ends it.
AskType ==
  /\ ~reading
  /\ reading' = TRUE /\ outcome' = "none"
  /\ UNCHANGED <<copy, symbol, given>>

AskData ==
  /\ reading
  /\ reading' = FALSE
  /\ copy' = ParseString(RecordOf(Shape), Text, copy)
  /\ given' = symbol
  /\ outcome' = IF Throws(RecordOf(Shape), Text) THEN "exception" ELSE "success"
  /\ UNCHANGED symbol

RequestFails ==
  /\ reading
  /\ reading' = FALSE /\ outcome' = "failure"
  /\ UNCHANGED <<copy, symbol, given>>

\* External: a RAPID program or a client writes the symbol.
WriteSymbol(value) ==
  /\ symbol' = value
  /\ UNCHANGED <<copy, reading, given, outcome>>

Next ==
  \/ \E value \in Values : Assign(value) \/ WriteSymbol(value)
  \/ AskType \/ AskData \/ RequestFails

Spec == Init /\ [][Next]_vars

----------------------------------------------------------------------------
(* Properties                                                              *)

\* The first word of a string, or the old value of one that has none.
FirstWord(string, old) ==
  IF ToSet(string) \subseteq {Blank} THEN old
  ELSE LET first == CHOOSE i \in 1 .. Len(string) :
                      string[i] # Blank /\ \A k \in 1 .. i - 1 : string[k] = Blank
           last == CHOOSE i \in first .. Len(string) :
                     /\ \A k \in first .. i : string[k] # Blank
                     /\ i = Len(string) \/ string[i + 1] = Blank
       IN SubSeq(string, first, last)

RECURSIVE Taken(_, _, _)

\* A value with its numbers as they are written and its strings as they are read.
Taken(type, value, old) ==
  CASE type.kind = "num" -> Rounded(value)
    [] type.kind = "bool" -> value
    [] type.kind = "string" -> FirstWord(value, old)
    [] type.kind = "record" ->
         [i \in DOMAIN value |-> Taken(type.of[i], value[i], old[i])]

Strings(value) == {value[i] : i \in {j \in DOMAIN Shape : Shape[j] = String}}

\* The values whose strings have no separators, and those whose strings have
\* balanced brackets and no commas with nothing between them.
Plain(value) == \A string \in Strings(value) : ToSet(string) \cap {Open, Close, Comma} = {}
Balanced(value) ==
  \A string \in Strings(value) :
    /\ CountCharInString(string, Open) = CountCharInString(string, Close)
    /\ \A i \in 1 .. Len(string) - 1 : string[i] # Comma \/ string[i + 1] # Comma

\* What a record is given by a copy or by reading a symbol it takes over with every
\* component in its place, or not at all, and without an exception, as long as the
\* brackets in its strings balance and there is something between their commas; and
\* it does take it over if there are no separators in them.  Only strings that are
\* one word are taken over as they are: of others the first word is, or the old
\* string stays; and numbers lose the digits a stream does not write.
TakenWholeOrNotAtAll ==
  [][ LET taken == Taken(RecordOf(Shape), given', copy)
      IN /\ (copy' # copy /\ Balanced(given')) => copy' = taken
         /\ (given' # given /\ Plain(given')) => copy' = taken
         /\ (outcome' # outcome /\ outcome' = "exception") => ~Balanced(given') ]_vars
==============================================================================
