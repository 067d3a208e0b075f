------------------------------ MODULE SqlxLexer ------------------------------
(***************************************************************************)
(* src/sqlx/lexer.ts: the lexer of SQLX files, a stack of lexer states,    *)
(* and the syntax tree that SyntaxTreeNode.create() builds from its        *)
(* tokens.                                                                 *)
(*                                                                         *)
(* Code is a sequence of symbols, each the text of some rule or a word of  *)
(* text that no rule is about; "\n" is the end of a line, and "config {"   *)
(* contains a brace wherever the rule of that name does not apply.         *)
(***************************************************************************)
EXTENDS Naturals, Sequences, SequencesExt

CONSTANT MaxNesting  \* bound on the nodes that are open at a time
ASSUME LexerAssumption == MaxNesting \in Nat \ {0}

Min0(is) == IF is = {} THEN 0 ELSE CHOOSE i \in is : \A j \in is : i <= j

Sym(code, i) == IF i \in DOMAIN code THEN code[i] ELSE "end"
AtLineEnd(code, i) == Sym(code, i) \in {"\n", "end"}
LineEnd(code, i) == CHOOSE j \in i..(Len(code) + 1) :
                      AtLineEnd(code, j) /\ \A k \in i..(j - 1) : ~AtLineEnd(code, k)
CommentEnd(code, i) == Min0({j \in (i + 1)..Len(code) : code[j] = "*/"})

(* The end of the string of JavaScript after i, 0 if it has none on its    *)
(* line, or if it escapes anything but quotes and backslashes: something   *)
(* begins where a plain symbol, or two that are an escape, are before it.  *)
StringEnd(code, i, quote) ==
  LET begins[j \in i..Len(code)] ==
        \/ j = i
        \/ j > i /\ code[j - 1] \notin {quote, "\n", "\\"} /\ begins[j - 1]
        \/ j > i + 1 /\ code[j - 2] = "\\" /\ code[j - 1] \in {quote, "\\"} /\ begins[j - 2]
  IN Min0({j \in i..Len(code) : code[j] = quote /\ begins[j]})

JsBlocks == {"config {", "js {"}
SqlBlocks == {"pre_operations {", "post_operations {", "incremental_where {", "input {"}
Braces == JsBlocks \cup SqlBlocks \cup {"${", "{"}

(* A token: what it does to the tree, the type of its node, how many       *)
(* symbols it has, and the state it pushes, or "pop".                      *)
Token(does, type, length, to) == [does |-> does, type |-> type, length |-> length, to |-> to]
PlainText(length) == Token("text", "", length, "")
-----------------------------------------------------------------------------
(* The rules of each state, the first that matches.                        *)
CommentsAndStrings(code, i, otherwise) ==
  CASE Sym(code, i) = "---" /\ AtLineEnd(code, i + 1) -> Token("whole", "separator", 1, "")
    [] Sym(code, i) \in {"--", "---"} -> Token("whole", "comment", LineEnd(code, i) - i, "")
    [] Sym(code, i) = "/*" /\ CommentEnd(code, i) # 0 ->
         Token("whole", "comment", CommentEnd(code, i) - i + 1, "")
    [] Sym(code, i) = "${" -> Token("start", "placeholder", 1, "js")
    [] Sym(code, i) = "'" -> Token("start", "string", 1, "single")
    [] Sym(code, i) = "\"" -> Token("start", "string", 1, "double")
    [] OTHER -> otherwise

SqlToken(code, i) ==
  CASE Sym(code, i) \in JsBlocks -> Token("start", "js", 1, "js")
    [] Sym(code, i) \in SqlBlocks -> Token("start", "sql", 1, "inner")
    [] OTHER -> CommentsAndStrings(code, i, PlainText(1))

InnerSqlToken(code, i) ==
  IF Sym(code, i) = "}" THEN Token("close", "", 1, "pop")
  ELSE CommentsAndStrings(code, i, PlainText(1))

JsToken(code, i) ==
  CASE Sym(code, i) = "//" -> PlainText(LineEnd(code, i) - i)
    [] Sym(code, i) = "/*" /\ CommentEnd(code, i) # 0 -> PlainText(CommentEnd(code, i) - i + 1)
    [] Sym(code, i) \in {"'", "\""} /\ StringEnd(code, i + 1, Sym(code, i)) # 0 ->
         PlainText(StringEnd(code, i + 1, Sym(code, i)) - i + 1)
    [] Sym(code, i) = "backtick" -> Token("text", "", 1, "template")
    [] Sym(code, i) \in Braces -> Token("start", "js", 1, "js")
    [] Sym(code, i) = "}" -> Token("close", "", 1, "pop")
    [] OTHER -> PlainText(1)

(* Mutant: the end of a template string ends a node, which it never began. *)
TemplateTokenCloses(code, i) ==
  CASE Sym(code, i) = "${" -> Token("start", "js", 1, "js")
    [] Sym(code, i) = "backtick" -> Token("close", "", 1, "pop")
    [] OTHER -> PlainText(1)

(* "${" is escaped only when a backtick follows; otherwise the backslash   *)
(* is text.  Template strings are no nodes of their own.                   *)
TemplateToken(code, i) ==
  CASE Sym(code, i) = "\\" /\ Sym(code, i + 1) = "\\" -> PlainText(2)
    [] Sym(code, i) = "\\" /\ Sym(code, i + 1) = "${" /\ Sym(code, i + 2) = "backtick" -> PlainText(3)
    [] Sym(code, i) = "${" -> Token("start", "js", 1, "js")
    [] Sym(code, i) = "backtick" -> Token("text", "", 1, "pop")
    [] OTHER -> PlainText(1)

(* The rule for "${" of double quoted strings is given to single quoted    *)
(* ones, a second time.                                                    *)
QuotedToken(code, i, quote, placeholders) ==
  CASE Sym(code, i) = "\\" /\ Sym(code, i + 1) \in {"\\", quote} -> PlainText(2)
    [] Sym(code, i) = "${" /\ placeholders -> Token("start", "placeholder", 1, "js")
    [] Sym(code, i) = quote -> Token("close", "", 1, "pop")
    [] OTHER -> PlainText(1)

NextToken(code, i, state) ==
  CASE state = "sql" -> SqlToken(code, i)
    [] state = "inner" -> InnerSqlToken(code, i)
    [] state = "js" -> JsToken(code, i)
    [] state = "template" -> TemplateToken(code, i)
    [] state = "single" -> QuotedToken(code, i, "'", TRUE)
    [] state = "double" -> QuotedToken(code, i, "\"", FALSE)
-----------------------------------------------------------------------------
(* Nodes of the tree; a text has no children.                              *)
Node(type, children) == [type |-> type, text |-> <<>>, children |-> children]
TextNode(text) == [type |-> "text", text |-> text, children |-> <<>>]

(* The trees that are at most so deep.                                     *)
Depths == 0..(MaxNesting + 1)
NodeTypes == {"sql", "js", "placeholder", "string", "comment", "separator"}
Texts == [type : {"text"}, text : Seq(STRING), children : {<<>>}]
Trees[d \in Depths] ==
  IF d = 0 THEN Texts
  ELSE Texts \cup [type : NodeTypes, text : {<<>>}, children : Seq(Trees[d - 1])]

(* concatenate(), of trees that are at most so deep.                       *)
Concatenation[d \in Depths] ==
  [node \in Trees[d] |->
     IF node.type = "text" THEN node.text
     ELSE FlattenSeq([k \in DOMAIN node.children |-> Concatenation[d - 1][node.children[k]]])]
Concatenate(node) == Concatenation[MaxNesting + 1][node]

(* push(): texts in a row are one.                                         *)
Push(node, child) ==
  LET cs == node.children
  IN IF cs # <<>> /\ child.type = "text" /\ Last(cs).type = "text"
     THEN [node EXCEPT !.children = Append(Front(cs), TextNode(Last(cs).text \o child.text))]
     ELSE [node EXCEPT !.children = Append(cs, child)]

(* The lexer and the nodes that are open, outermost first; a node is given *)
(* to its parent when it is closed.                                        *)
Start == [at |-> 1, states |-> <<"sql">>, nodes |-> <<Node("sql", <<>>)>>]

LexToken(code, lexing) ==
  LET token == NextToken(code, lexing.at, Last(lexing.states))
      text == TextNode(SubSeq(code, lexing.at, lexing.at + token.length - 1))
      ns == lexing.nodes
      added(child) == Append(Front(ns), Push(Last(ns), child))
      closed == Push(Last(ns), text)
  IN [at |-> lexing.at + token.length,
      states |-> CASE token.to = "" -> lexing.states
                   [] token.to = "pop" -> Front(lexing.states)
                   [] OTHER -> Append(lexing.states, token.to),
      nodes |-> CASE token.does = "start" -> Append(ns, Node(token.type, <<text>>))
                  [] token.does = "close" -> Append(Front(Front(ns)), Push(Last(Front(ns)), closed))
                  [] token.does = "whole" -> added(Node(token.type, <<text>>))
                  [] token.does = "text" -> added(text)]

(* SyntaxTreeNode.create(): the root, with whatever is still open in it.   *)
TreeOf(nodes) ==
  LET closed[k \in 0..(Len(nodes) - 1)] ==
        IF k = 0 THEN Last(nodes) ELSE Push(nodes[Len(nodes) - k], closed[k - 1])
  IN closed[Len(nodes) - 1]

VARIABLES
  code,   \* of the file
  lexing  \* SyntaxTreeNode.create(), see Start

LexInit == code \in Seq(STRING) /\ lexing = Start
LexStep ==
  /\ lexing.at <= Len(code)
  /\ lexing' = LexToken(code, lexing)
  /\ Len(lexing'.nodes) <= MaxNesting
  /\ UNCHANGED code

(* The lexer is used for one file after another.                           *)
NextFile == code' \in Seq(STRING) /\ lexing' = Start
LexSpec == LexInit /\ [][LexStep \/ NextFile]_<<code, lexing>>
-----------------------------------------------------------------------------
(* The tree holds all the code that was read, in its order; the nodes that *)
(* are open are those that the states of the lexer are about, so that a    *)
(* closing token ends the node it belongs to; placeholders and strings are *)
(* found in SQL only, and nodes of SQL at the top level only, so that      *)
(* create() never throws (lexer.ts:143-172).                               *)
NodeOfState(state) ==
  CASE state \in {"sql", "inner"} -> {"sql"} [] state = "js" -> {"js", "placeholder"}
    [] state \in {"single", "double"} -> {"string"}

OpenStates(states) ==
  FlattenSeq([k \in DOMAIN states |-> IF states[k] = "template" THEN <<>> ELSE <<states[k]>>])

TreeIsTheCode ==
  LET open == OpenStates(lexing.states)
      ns == lexing.nodes
  IN /\ Concatenate(TreeOf(ns)) = SubSeq(code, 1, lexing.at - 1)
     /\ Len(ns) = Len(open) /\ \A k \in DOMAIN ns : ns[k].type \in NodeOfState(open[k])
     /\ \A k \in 1..(Len(ns) - 1) :
          /\ ns[k + 1].type \in {"string", "placeholder"} => ns[k].type \in {"sql", "string"}
          /\ ns[k + 1].type = "sql" => k = 1
=============================================================================
