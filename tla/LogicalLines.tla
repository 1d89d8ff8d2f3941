---------------------------- MODULE LogicalLines ----------------------------
(***************************************************************************)
(* Logical lines, as the scanner marks their names and the parser reads    *)
(* them, next to Python's grammar.                                         *)
(*                                                                         *)
(* An expression is enclosed in one construct after the other, is put in a *)
(* place of a statement, and the line may then lose, double or swap a      *)
(* token.  Most lines are Python; what a construct's precedence forbids    *)
(* and what a slip leaves may not be.                                      *)
(***************************************************************************)
EXTENDS LineParser, ScanContext
Python == INSTANCE PythonGrammar

CONSTANTS
  Atoms,           \* the texts an expression starts from
  Constructs,      \* what may enclose it: the tokens on the left and on the right
  Forms,           \* statements with a place for an expression, which may be an annotation's
  MaxEnclosures,   \* bound: constructs around an expression
  MaxOfASlip       \* bound: constructs around an expression of a line with a slip

VARIABLES
  text,        \* the tokens
  enclosures,  \* how many constructs enclose the expression
  stage        \* "expression", "line" or "slip"

vars == <<text, enclosures, stage>>

Init == text \in Atoms /\ enclosures = 0 /\ stage = "expression"

Enclose ==
  /\ stage = "expression" /\ enclosures < MaxEnclosures
  /\ \E c \in Constructs : text' = c.left \o text \o c.right
  /\ enclosures' = enclosures + 1
  /\ UNCHANGED stage

\* The names of an annotation are those of types.
AsAnnotation(tokens) == [i \in DOMAIN tokens |-> IF tokens[i] = "x" THEN "T" ELSE tokens[i]]

\* What is annotated is one expression.
State ==
  /\ stage = "expression"
  /\ \E f \in Forms :
       /\ f.annotates => Python!Trees(Python!Expression, text) # {}
       /\ text' = f.left \o (IF f.annotates THEN AsAnnotation(text) ELSE text) \o f.right
  /\ stage' = "line"
  /\ UNCHANGED enclosures

Slip ==
  /\ stage = "line" /\ enclosures <= MaxOfASlip
  /\ \E k \in DOMAIN text :
       \/ text' = RemoveAt(text, k)
       \/ text' = InsertAt(text, k, text[k])
       \/ k < Len(text) /\ text' = [text EXCEPT ![k] = text[k + 1], ![k + 1] = text[k]]
  /\ stage' = "slip"
  /\ UNCHANGED enclosures

Next == Enclose \/ State \/ Slip
Spec == Init /\ [][Next]_vars

-----------------------------------------------------------------------------
(* Properties.                                                             *)

IsLine == stage # "expression" /\ text # <<>>
\* parse_line returns the statements of a line, or one compound statement.
Result == parse_line(text)
ReadAsPython(result) == Ok(result) => result.tree \in Python!Lines(text)

\* What the parser accepts is Python, with the tree Python gives it: no operator, comma,
\* bracket or clause of a line goes to another node, and no line is read that Python does
\* not read (parse_binary, parse_power, parse_target, parse_annotated_assignment).
AcceptedIsPython == IsLine => ReadAsPython(Result)

\* The constructs Cythonpp leaves out; one of them is not refused by a name of its own.
Unsupported ==
  {"conditional", "lambda", "await", "yield", "starred", "walrus", "keyword", "generator", "slice",
   "concatenation", "set", "set comprehension", "dict comprehension", "augmented", "f-string"}
Unnamed == {"chained assignment"}
RECURSIVE Labels(_)
Labels(tree) == {tree[1]} \union UNION {Labels(tree[k]) : k \in 2..Len(tree)}
Refusals(tree) ==
  (Labels(tree) \intersect Unsupported)
  \union IF Labels(tree) \intersect Unnamed # {} THEN {Malformed} ELSE {}

\* The commas after which no element begins.
BeginsAnElement(k) ==
  \E last \in k..Len(text) : Python!Trees(Python!StarItem, SubSeq(text, k, last)) # {}
TrailingCommas == {i \in DOMAIN text : text[i] = "," /\ ~BeginsAnElement(i + 1)}
Overlooked == {i \in TrailingCommas : ~ends_a_sequence(Peek(text, i + 1)) /\ Peek(text, i + 1) # "in"}

NamesARefusal(result) ==
  ~Ok(result) => \A tree \in Python!Lines(text) : result.complaint \in Refusals(tree) \/ Overlooked # {}

\* A line of Python the parser does not read holds a construct Cythonpp leaves out, and the
\* error names it: a program that is right is never told that its syntax is wrong
\* (the rejections of parse_expression, parse_atom, parse_subscript, parse_call).  Lines
\* with a trailing comma the parser overlooks apart.
RefusedByName == IsLine => NamesARefusal(Result)

RECURSIVE AnnotationsIn(_)
AnnotationsIn(tree) ==
  (CASE tree[1] = "annotate" -> {tree[3]}
     [] tree[1] = "parameter" -> {tree[2]}
     [] tree[1] = "def" -> {tree[3]}
     [] OTHER -> {})
  \union UNION {AnnotationsIn(tree[k]) : k \in 2..Len(tree)}

\* The scanner marks a name as one of a type in an annotation and nowhere else, whatever
\* brackets, colons and commas there are (ScanContext::observe).  The markings may be wrong
\* where an annotation holds a lambda or a keyword argument, which is refused.
WronglyMarked == {i \in DOMAIN text : text[i] \in {"x", "T"} /\ in_annotation(text, i) # (text[i] = "T")}
NamesOfTypesAreMarked ==
  stage = "line" /\ WronglyMarked # {} =>
    \A tree \in Python!Lines(text) :
      \E a \in AnnotationsIn(tree) : Labels(a) \intersect {"lambda", "keyword"} # {}
=============================================================================
