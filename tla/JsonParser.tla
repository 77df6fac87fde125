----------------------------- MODULE JsonParser -----------------------------
(***************************************************************************)
(* The JSON parser (json.c, parser.c): a stack of states, of which the one *)
(* on top looks at the current character and pushes, pops or replaces, and *)
(* consumes the character or leaves it to the next state.  A state learns  *)
(* that the one it pushed is done by a look at the slot above the top of   *)
(* the stack, where a pop leaves what was there.                           *)
(*                                                                         *)
(* The other party is a document written after the grammar in json.h, one  *)
(* character at a time; what it should be reported as is written down with *)
(* it.  A character is one of its kinds: "a" is any that means nothing.    *)
(* Nothing follows the document: the next character would pop the last     *)
(* state and the stack be read below its first entry.                      *)
(***************************************************************************)
EXTENDS Integers, Sequences, FiniteSets

CONSTANTS
    MaxLen,     \* bound: characters of a document
    MaxString,  \* bound: characters of a string (string_val has 50)
    Spaced      \* white space comes before each element of an array

ASSUME MaxLenAssumption == MaxLen \in Nat
ASSUME MaxStringAssumption == MaxString \in Nat
ASSUME SpacedAssumption == Spaced \in BOOLEAN

VARIABLES
    stack, top, lastOperation,      \* struct ParserState
    string_val,                     \* its first string_val_len characters
    buf,                            \* the character being parsed, or NoChar
    events,                         \* calls of event_callback
    \* the document
    todo,                           \* grammar symbols it still has to produce
    text,                           \* its current string
    written,                        \* its length
    expected                        \* what it should be reported as

doc == <<todo, text, written, expected>>
jsonVars == <<stack, top, lastOperation, string_val, buf, events, doc>>

NoChar == "none"
Chars == {"{", "}", "[", "]", ",", ":", "quote", "ws", "a"}

\* parser_init, and a document yet to be written.
JsonInit ==
    /\ stack = [n \in 0 .. MaxLen + 2 |-> "OBJECT"]
    /\ top = 0
    /\ lastOperation = "none"
    /\ string_val = <<>>
    /\ buf = NoChar
    /\ events = <<>>
    /\ todo = <<"object">> /\ text = <<>> /\ written = 0 /\ expected = <<>>
-----------------------------------------------------------------------------
(* The grammar of json.h:19-31: what is left to produce after character c, *)
(* and which event that character completes.                               *)
Then(c, symbols, event) ==
    /\ buf' = c
    /\ todo' = symbols \o Tail(todo)
    /\ expected' = expected \o event
Element == IF Spaced THEN "space" ELSE "object"

Is(symbol) == todo # <<>> /\ Head(todo) = symbol

Space ==
    /\ todo # <<>> /\ Head(todo) \notin {"key chars", "chars", "space", "broken"}
    /\ buf' = "ws"
    /\ UNCHANGED <<todo, text, expected>>

Value ==
    /\ Is("object")
    /\ text' = <<>>
    /\ \/ Then("{", <<"key", ":", "object", "more">>, <<<<"STRUCT_START", <<>>>>>>)
       \/ Then("[", <<Element, "elements">>, <<<<"ARRAY_START", <<>>>>>>)
       \/ Then("quote", <<"chars">>, <<>>)

InString ==
    \/ /\ Is("key chars") \/ Is("chars")
       /\ Len(text) < MaxString
       /\ \E c \in {"a", "ws", "{", "]"} :
            Then(c, <<Head(todo)>>, <<>>) /\ text' = Append(text, c)
    \/ Is("key chars") /\ Then("quote", <<>>, <<<<"KEY", text>>>>) /\ UNCHANGED text
    \/ Is("chars") /\ Then("quote", <<>>, <<<<"STRING", text>>>>) /\ UNCHANGED text

Structure ==
    \/ Is("key") /\ Then("quote", <<"key chars">>, <<>>) /\ text' = <<>>
    \/ /\ UNCHANGED text
       /\ \/ Is("space") /\ Then("ws", <<"object">>, <<>>)
          \/ Is(":") /\ Then(":", <<>>, <<>>)
          \/ Is("more") /\ Then(",", <<"key", ":", "object", "more">>, <<>>)
          \/ Is("more") /\ Then("}", <<>>, <<<<"STRUCT_END", <<>>>>>>)
          \/ Is("elements") /\ Then(",", <<Element, "elements">>, <<>>)
          \/ Is("elements") /\ Then("]", <<>>, <<<<"ARRAY_END", <<>>>>>>)

\* The document goes wrong: its last character may be any.
Mistake ==
    /\ todo # <<>> /\ Head(todo) # "broken"
    /\ buf' \in Chars
    /\ todo' = <<"broken">>
    /\ UNCHANGED <<text, expected>>

\* The next character is given to json_parse_buf.
Feed ==
    /\ buf = NoChar
    /\ written < MaxLen
    /\ written' = written + 1
    /\ Space \/ Value \/ InString \/ Structure \/ Mistake
    /\ UNCHANGED <<stack, top, lastOperation, string_val, events>>
-----------------------------------------------------------------------------
Current == stack[top]

\* parser_push_state, parser_pop_state, parser_replace_state.
Push(s) ==
    /\ top' = top + 1
    /\ stack' = [stack EXCEPT ![top + 1] = s]
    /\ lastOperation' = "push"

Pop ==
    /\ top' = top - 1
    /\ lastOperation' = "pop"
    /\ UNCHANGED stack

Replace(s, operation) ==
    /\ stack' = [stack EXCEPT ![top] = s]
    /\ lastOperation' = operation
    /\ UNCHANGED top

Stay(operation) == lastOperation' = operation /\ UNCHANGED <<stack, top>>

\* Fault: a state is not told what was popped above it but what it is itself.
PrevPopOfTop == IF lastOperation = "pop" THEN stack[top] ELSE "INVALID"

\* parser_prev_pop_state: its result and what it leaves in lastOperation.
PrevPop == IF lastOperation = "pop" THEN stack[top + 1] ELSE "INVALID"
Looked == IF lastOperation = "pop" THEN "none" ELSE lastOperation

Consume == buf' = NoChar
Keep == buf' = buf
Event(kind, data) == events' = Append(events, <<kind, data>>)
Silent == events' = events

\* parser_is_ws, or a character no rule of the state wants.
SpaceOrInvalid(operation) ==
    /\ Silent
    /\ \/ buf = "ws" /\ Consume /\ Stay(operation)
       \/ buf # "ws" /\ Keep /\ Push("INVALID")
-----------------------------------------------------------------------------
\* case ST_OBJECT
Object ==
    /\ Current = "OBJECT"
    /\ UNCHANGED string_val
    /\ \/ /\ PrevPop # "INVALID" /\ Pop /\ Keep
          /\ IF PrevPop = "STRING" THEN Event("STRING", string_val) ELSE Silent
       \/ /\ PrevPop = "INVALID"
          /\ \/ buf = "{" /\ Event("STRUCT_START", <<>>) /\ Push("OBJ") /\ Consume
             \/ buf = "[" /\ Event("ARRAY_START", <<>>) /\ Push("ARRAY") /\ Consume
             \/ buf = "quote" /\ Silent /\ Push("STRING") /\ Keep
             \/ buf \notin {"{", "[", "quote"} /\ SpaceOrInvalid(Looked)

\* case ST_ARRAY: unless an element was popped, the character is consumed.
Array ==
    /\ Current = "ARRAY"
    /\ UNCHANGED string_val
    /\ Silent
    /\ IF PrevPop = "OBJECT" THEN Replace("ARRAY_1", Looked) /\ Keep
       ELSE Push("OBJECT") /\ Consume

\* Fault: the next element gets a state of its own above this one.
Array1Pushes ==
    /\ Current = "ARRAY_1"
    /\ UNCHANGED string_val
    /\ \/ buf = "," /\ Silent /\ Push("ARRAY") /\ Consume
       \/ buf = "]" /\ Event("ARRAY_END", <<>>) /\ Pop /\ Consume
       \/ buf \notin {",", "]"} /\ SpaceOrInvalid(lastOperation)

\* case ST_ARRAY_1
Array1 ==
    /\ Current = "ARRAY_1"
    /\ UNCHANGED string_val
    /\ \/ buf = "," /\ Silent /\ Replace("ARRAY", lastOperation) /\ Consume
       \/ buf = "]" /\ Event("ARRAY_END", <<>>) /\ Pop /\ Consume
       \/ buf \notin {",", "]"} /\ SpaceOrInvalid(lastOperation)

\* Fault: the key is reported when its value has been parsed.
ObjReportsLate ==
    /\ Current = "OBJ"
    /\ UNCHANGED string_val
    /\ \/ PrevPop = "STRING" /\ Silent /\ Push("OBJ_1") /\ Keep
       \/ PrevPop = "OBJ_1" /\ Event("KEY", string_val) /\ Replace("OBJ_2", Looked) /\ Keep
       \/ PrevPop \notin {"STRING", "OBJ_1"} /\ Silent
          /\ IF buf = "ws" THEN Stay(Looked) /\ Consume ELSE Push("STRING") /\ Keep

\* case ST_OBJ
Obj ==
    /\ Current = "OBJ"
    /\ UNCHANGED string_val
    /\ \/ PrevPop = "STRING" /\ Event("KEY", string_val) /\ Push("OBJ_1") /\ Keep
       \/ PrevPop = "OBJ_1" /\ Silent /\ Replace("OBJ_2", Looked) /\ Keep
       \/ PrevPop \notin {"STRING", "OBJ_1"} /\ Silent
          /\ IF buf = "ws" THEN Stay(Looked) /\ Consume ELSE Push("STRING") /\ Keep

\* case ST_OBJ_1.  (string_val_len is reset here and again by ST_STRING.)
Obj1 ==
    /\ Current = "OBJ_1"
    /\ UNCHANGED string_val
    /\ \/ PrevPop = "OBJECT" /\ Silent /\ Pop /\ Keep
       \/ PrevPop # "OBJECT" /\ buf = ":" /\ Silent /\ Push("OBJECT") /\ Consume
       \/ PrevPop # "OBJECT" /\ buf # ":" /\ SpaceOrInvalid(Looked)

\* case ST_OBJ_2
Obj2 ==
    /\ Current = "OBJ_2"
    /\ UNCHANGED string_val /\ Silent
    /\ \/ buf = "," /\ Replace("OBJ", lastOperation) /\ Consume
       \/ buf = "ws" /\ Stay(lastOperation) /\ Consume
       \/ buf \notin {",", "ws"} /\ Replace("OBJ_3", lastOperation) /\ Keep

\* case ST_OBJ_3
Obj3 ==
    /\ Current = "OBJ_3"
    /\ UNCHANGED string_val
    /\ \/ buf = "}" /\ Event("STRUCT_END", <<>>) /\ Pop /\ Consume
       \/ buf # "}" /\ SpaceOrInvalid(lastOperation)

\* case ST_STRING.  string_val_len is reset also after the string; what was
\* in it stays readable, for it was terminated before.
String ==
    /\ Current = "STRING"
    /\ \/ PrevPop = "DSTRING" /\ Silent /\ Pop /\ Keep /\ UNCHANGED string_val
       \/ PrevPop # "DSTRING" /\ buf = "quote" /\ string_val' = <<>>
          /\ Silent /\ Push("DSTRING") /\ Consume
       \/ PrevPop # "DSTRING" /\ buf # "quote" /\ SpaceOrInvalid(Looked)
          /\ UNCHANGED string_val

\* case ST_DSTRING
DString ==
    /\ Current = "DSTRING"
    /\ Silent /\ Consume
    /\ \/ buf = "quote" /\ Pop /\ UNCHANGED string_val
       \/ buf # "quote" /\ string_val' = Append(string_val, buf) /\ Stay(lastOperation)

\* One turn of the loop of json_parse_buf.
Parse ==
    /\ buf # NoChar
    /\ UNCHANGED doc
    /\ \/ Object \/ Array \/ Array1 \/ Obj \/ Obj1 \/ Obj2 \/ Obj3
       \/ String \/ DString

JsonNext == Feed \/ Parse

JsonSpec == JsonInit /\ [][JsonNext]_jsonVars
-----------------------------------------------------------------------------
(* A document of the grammar is never found invalid, by any of the states  *)
(* of json_parse_buf.                                                      *)
Legal == ~Is("broken")
AcceptsGrammar == Legal => Current # "INVALID"

(* The handler is called as the grammar says, in order and with the right  *)
(* strings; a string, key or value, is reported with the character after   *)
(* its last, everything else at once.                                      *)
ReportedAsWritten ==
    buf = NoChar /\ Legal =>
        LET n == Len(events)
        IN  /\ n <= Len(expected)
            /\ events = SubSeq(expected, 1, n)
            /\ \A k \in n + 1 .. Len(expected) :
                    k = Len(expected) /\ expected[k][1] \in {"KEY", "STRING"}

(* A level of nesting takes at most three entries of the stack (the        *)
(* structure, the pair in it, the value of the pair), so that the 50       *)
(* entries parser_push_state never checks for are 15 levels, however long  *)
(* the document is.                                                        *)
Levels == Cardinality({n \in 1 .. Len(todo) : todo[n] \in {"more", "elements"}})
StackPerLevel == buf = NoChar /\ Legal => top <= 3 * Levels + 2
=============================================================================
