--------------------------- MODULE Configuration ----------------------------
(***************************************************************************)
(* Where the server's settings come from: a Value is declared with the     *)
(* places it may be read from, ConfigHandler::parse() reads each one once, *)
(* and Node holds the document of config.yml.  A document is a function    *)
(* from the keys it gives to their values; only the three settings the     *)
(* session depends on are declared here.                                   *)
(***************************************************************************)
EXTENDS Sequences

CONSTANT Absent       \* no value is given

\* The three declarations in initArgs(): the places, possibleValues(), defaultValue().
Declarations ==
    [key \in {"whitelist-enabled", "enforce-whitelist", "online-mode"} |->
        [argument |-> key = "online-mode",
         possible |-> {"true", "false", ""},       \* resize() puts empty strings before them
         default |-> IF key = "online-mode" THEN "true" ELSE "false"]]

Keys == DOMAIN Declarations

\* What the command line, the file named by <VARIABLE>_FILE and the variable give.
NothingGiven == [argument |-> Absent, secret |-> Absent, variable |-> Absent]

Given(decl, given) ==
    SelectSeq(<<IF decl.argument THEN given.argument ELSE Absent, given.secret, given.variable>>,
              LAMBDA value : value # Absent)

\* Value::parse(): the first place that has a value wins, and config.yml is the
\* last; it must have the key.
ParseValue(key, given, doc) ==
    LET first == Given(Declarations[key], given)
        value == IF first # <<>> THEN Head(first)
                 ELSE IF key \in DOMAIN doc THEN doc[key]
                 ELSE "Invalid value"
    IN  IF value \in Declarations[key].possible THEN value ELSE "Invalid value"

Parse(given, doc) == [key \in Keys |-> ParseValue(key, given[key], doc)]

\* Convertor<bool>.
AsBool(value) == value = "true"

\* The loop in Node::load(): emplace() does not replace a child that is there.
Children(children, doc) ==
    [key \in DOMAIN children \cup DOMAIN doc |->
        IF key \in DOMAIN children THEN children[key] ELSE doc[key]]

\* Node::load(), where the file has a document.
Load(node, doc) == [impl |-> doc, children |-> Children(node.children, doc)]

\* The Node before anything is loaded.
EmptyNode == [impl |-> <<>>, children |-> <<>>]

\* ConfigHandler::save(): every declared default.
Defaults == [key \in Keys |-> Declarations[key].default]

\* initArgs(): a file that is missing is made of the defaults.
StartNode(file) == IF file = Absent THEN Load(EmptyNode, Defaults) ELSE Load(EmptyNode, file)

\* The settings in effect after initArgs(); it exits if one is invalid.
StartValues(given, file) == Parse(given, StartNode(file).children)
=============================================================================
