--------------------------------- MODULE Sqlx ---------------------------------
(***************************************************************************)
(* A SQLX file is read token by token (SqlxLexer), compiled to JavaScript  *)
(* by src/core/compilers.ts, and rewritten by formatFile() of              *)
(* src/sqlx/format.ts.                                                     *)
(*                                                                         *)
(* Compiled SQL is the contents of template strings, given as symbols.     *)
(* js-beautify and sql-formatter change whitespace only, which is nothing  *)
(* but "\n" here.  All blocks, strings and placeholders of the code are    *)
(* closed when it is compiled or formatted.                                *)
(***************************************************************************)
EXTENDS SqlxLexer

CONSTANT Codes     \* contents of the file

VARIABLES
  parts,       \* what compileSqlx() writes, or why it does not
  formatting,  \* what became of formatFile()
  before       \* history: the code and its parts before it was formatted

sqlxVars == <<code, lexing, parts, formatting, before>>

NoParts == [refused |-> "not compiled"]

SqlxInit ==
  /\ code \in Codes
  /\ lexing = Start /\ parts = NoParts
  /\ formatting = "none" /\ before = NoParts
-----------------------------------------------------------------------------
(* Mutant: backslashes are left as they are.                               *)
EscapeTextBackticks(text) ==
  FlattenSeq([k \in DOMAIN text |-> IF text[k] = "backtick" THEN <<"\\", text[k]>> ELSE <<text[k]>>])

(* The escapers of texts and strings, and of comments.                     *)
EscapeText(text) ==
  FlattenSeq([k \in DOMAIN text |-> IF text[k] \in {"\\", "backtick"} THEN <<"\\", text[k]>> ELSE <<text[k]>>])

EscapeComment(text) ==
  FlattenSeq([k \in DOMAIN text |-> IF text[k] \in {"backtick", "${"} THEN <<"\\", text[k]>> ELSE <<text[k]>>])

(* escapeNode(): texts of the node itself are escaped by its type, those   *)
(* of nodes in it, placeholders, are not.                                  *)
Escape(type, text) ==
  CASE type \in {"text", "string"} -> EscapeText(text)
    [] type = "comment" -> EscapeComment(text)
    [] OTHER -> text

EscapeNode(node) ==
  Escape(node.type, node.text)
    \o FlattenSeq([k \in DOMAIN node.children |->
         IF node.children[k].type = "text" THEN Escape(node.type, node.children[k].text)
         ELSE Concatenate(node.children[k])])

(* Statements of what a node has, without blocks, apart at separators.     *)
Statements(children) ==
  FoldLeft(LAMBDA ss, c : CASE c.type \in {"js", "sql"} -> ss
                            [] c.type = "separator" -> Append(ss, <<>>)
                            [] OTHER -> Append(Front(ss), Append(Last(ss), c)),
           << <<>> >>, children)

CreateEscapedStatements(children) ==
  LET ss == Statements(children)
  IN [k \in DOMAIN ss |-> FlattenSeq([j \in DOMAIN ss[k] |-> EscapeNode(ss[k][j])])]

OfType(node, type) == SelectSeq(node.children, LAMBDA c : c.type = type)

(* A block without "pre_operations {" and "}".                             *)
WithoutBraces(block) ==
  LET cs == block.children
      first == TextNode(Tail(cs[1].text))
  IN IF Len(cs) = 1 THEN <<TextNode(Front(first.text))>>
     ELSE <<first>> \o SubSeq(cs, 2, Len(cs) - 1) \o <<TextNode(Front(Last(cs).text))>>

Opening(block) == Head(Concatenate(block))
LastOf(ss, default) == IF ss = <<>> THEN default ELSE Last(ss)

(* extractSqlxParts(): the last block of a name counts, but js blocks and  *)
(* inputs, of which there may be several.                                  *)
ExtractSqlxParts(root) ==
  LET js == OfType(root, "js")
      named(bs, name) == SelectSeq(bs, LAMBDA b : Opening(b) = name)
      blocks(name) == LET bs == named(OfType(root, "sql"), name)
                      IN [k \in DOMAIN bs |-> CreateEscapedStatements(WithoutBraces(bs[k]))]
      single == blocks("incremental_where {") \o blocks("input {")
      jsText == named(js, "js {")
  IN IF \E k \in DOMAIN single : Len(single[k]) > 1
     THEN [refused |-> "may only contain a single SQL statement"]
     ELSE [config |-> LET cs == named(js, "config {") IN IF cs = <<>> THEN <<>> ELSE Concatenate(Last(cs)),
           js |-> FlattenSeq([k \in DOMAIN jsText |-> Front(Tail(Concatenate(jsText[k])))]),
           sql |-> CreateEscapedStatements(root.children),
           incremental |-> LastOf(blocks("incremental_where {"), << <<>> >>),
           preOperations |-> LastOf(blocks("pre_operations {"), <<>>),
           postOperations |-> LastOf(blocks("post_operations {"), <<>>),
           inputs |-> FlattenSeq(blocks("input {"))]
-----------------------------------------------------------------------------
(* Texts on lines of their own; those that are empty leave nothing.        *)
TrimLines(text) ==
  LET is == {k \in DOMAIN text : text[k] # "\n"}
  IN IF is = {} THEN <<>>
     ELSE SubSeq(text, Min0(is), CHOOSE k \in is : \A j \in is : j <= k)

Lines(texts) ==
  LET filled == SelectSeq(texts, LAMBDA t : TrimLines(t) # <<>>)
  IN FlattenSeq([k \in DOMAIN filled |->
       IF k = 1 THEN TrimLines(filled[k]) ELSE <<"\n">> \o TrimLines(filled[k])])

WithoutWhitespace(text) == SelectSeq(text, LAMBDA s : s # "\n")

(* Mutant: comments stay in their line.                                    *)
FormatPartInline(c) == IF c.type = "text" THEN WithoutWhitespace(c.text) ELSE Concatenate(c)

(* What becomes of a part of a statement: texts have the lines that        *)
(* sql-formatter gives them, none here; comments, and what has several     *)
(* lines, are put on lines of their own.                                   *)
FormatPart(c) ==
  LET text == Concatenate(c)
  IN CASE c.type = "text" -> WithoutWhitespace(text)
       [] c.type = "comment" \/ "\n" \in ToSet(text) -> <<"\n">> \o text \o <<"\n">>
       [] OTHER -> text

FormatStatement(statement) ==
  FlattenSeq([k \in DOMAIN statement |-> FormatPart(statement[k])])

(* formatSqlx(): first JavaScript, then the statements, then the blocks of *)
(* SQL; and at most one empty line, that is "\n" once.                     *)
RECURSIVE FormatSqlx(_)
FormatSqlx(children) ==
  LET root == Node("sql", children)
      js == OfType(root, "js")
      ss == Statements(children)
      blocks == OfType(root, "sql")
      separated(k) == IF k = 1 THEN <<FormatStatement(ss[k])>> ELSE << <<"---">>, FormatStatement(ss[k])>>
      block(b) == Lines(<<(<<Opening(b)>>), FormatSqlx(WithoutBraces(b)), <<"}">> >>)
  IN Lines([k \in DOMAIN js |-> Concatenate(js[k])]
             \o FlattenSeq([k \in DOMAIN ss |-> separated(k)])
             \o [k \in DOMAIN blocks |-> block(blocks[k])])

OneLineBreak(text) ==
  FoldLeft(LAMBDA t, s : IF s = "\n" /\ t # <<>> /\ Last(t) = "\n" THEN t ELSE Append(t, s), <<>>, text)

RECURSIVE LexFrom(_, _)
LexFrom(text, l) == IF l.at > Len(text) THEN l ELSE LexFrom(text, LexToken(text, l))
Tree(text) == TreeOf(LexFrom(text, Start).nodes)
Format(text) == OneLineBreak(FormatSqlx(Tree(text).children))
-----------------------------------------------------------------------------
ReadToken == LexStep /\ UNCHANGED <<parts, formatting, before>>

Closed == lexing.at > Len(code) /\ lexing.states = <<"sql">>
Root == TreeOf(lexing.nodes)

(* compile() of a file whose name ends in ".sqlx".                         *)
CompileSqlx ==
  /\ Closed /\ parts = NoParts
  /\ parts' = ExtractSqlxParts(Root)
  /\ UNCHANGED <<code, lexing, formatting, before>>

(* formatFile(): what would change when it is formatted again, or has lost *)
(* or got anything but whitespace, is an error and not written.            *)
FormatFile ==
  /\ Closed /\ parts # NoParts /\ formatting = "none"
  /\ LET text == Format(code)
     IN /\ Format(text) = text /\ Len(WithoutWhitespace(text)) = Len(WithoutWhitespace(code))
        /\ code' = text
  /\ formatting' = "written"
  /\ lexing' = Start /\ parts' = NoParts
  /\ before' = [root |-> Root, parts |-> parts]

SqlxNext == ReadToken \/ CompileSqlx \/ FormatFile
-----------------------------------------------------------------------------
(* What JavaScript makes of the contents of a template string: escaped     *)
(* symbols are themselves; what a placeholder is replaced by is given as   *)
(* its code.                                                               *)
RECURSIVE JsEnd(_, _)
JsEnd(text, l) ==
  IF Len(l.states) = 1 THEN l.at
  ELSE IF l.at > Len(text) THEN 0 ELSE JsEnd(text, LexToken(text, l))

RECURSIVE EvaluateFrom(_, _)
EvaluateFrom(text, i) ==
  CASE Sym(text, i) = "end" -> <<>>
    [] Sym(text, i) = "backtick" -> <<"ended">>
    [] Sym(text, i) = "\\" /\ Sym(text, i + 1) \in {"\\", "backtick", "${"} ->
         <<text[i + 1]>> \o EvaluateFrom(text, i + 2)
    [] Sym(text, i) = "\\" -> <<"not an escape">>
    [] Sym(text, i) = "${" ->
         LET l == LexToken(text, [Start EXCEPT !.at = i])
             j == JsEnd(text, l)
         IN IF j = 0 THEN <<"not closed">> ELSE SubSeq(text, i, j - 1) \o EvaluateFrom(text, j)
    [] OTHER -> <<text[i]>> \o EvaluateFrom(text, i + 1)
Evaluate(text) == EvaluateFrom(text, 1)

Evaluated(statements, children) ==
  LET ss == Statements(children)
  IN [k \in DOMAIN statements |-> Evaluate(statements[k])]
       = [k \in DOMAIN ss |-> FlattenSeq([j \in DOMAIN ss[k] |-> Concatenate(ss[k][j])])]

(* Comments with a backslash, and double quoted strings with "${", are not *)
(* escaped as they should be: see the README.                              *)
RECURSIVE Escapable(_)
Escapable(node) ==
  /\ node.type = "comment" => "\\" \notin ToSet(Concatenate(node))
  /\ node.type = "string" /\ Opening(node) = "\"" => "${" \notin ToSet(Concatenate(node))
  /\ node.type # "placeholder" => \A k \in DOMAIN node.children : Escapable(node.children[k])

(* Whatever SQL is written, the template strings that it is compiled to    *)
(* evaluate to the very same text, statement by statement: backslashes and *)
(* backticks act literally in texts, strings and comments                  *)
(* (compilers.ts:297-325).                                                 *)
StatementsEvaluate ==
  "sql" \in DOMAIN parts /\ Closed =>
    LET pre == SelectSeq(OfType(Root, "sql"), LAMBDA b : Opening(b) = "pre_operations {")
    IN Escapable(Root) =>
         /\ Evaluated(parts.sql, Root.children)
         /\ pre # <<>> => Evaluated(parts.preOperations, WithoutBraces(Last(pre)))

(* A tree without its whitespace; texts that a block was between are one.  *)
RECURSIVE Bare(_)
Meaning(cs) ==
  LET bare == SelectSeq([k \in DOMAIN cs |-> Bare(cs[k])], LAMBDA c : c.type # "text" \/ c.text # <<>>)
  IN FoldLeft(Push, Node("sql", <<>>), bare).children
Bare(node) == [type |-> node.type, text |-> WithoutWhitespace(node.text), children |-> Meaning(node.children)]

Meanings(root) ==
  LET ss == Statements(root.children)
      blocks == OfType(root, "sql")
  IN [js |-> Meaning(OfType(root, "js")),
      sql |-> [k \in DOMAIN ss |-> Meaning(ss[k])],
      blocks |-> [k \in DOMAIN blocks |->
        LET bs == Statements(WithoutBraces(blocks[k]))
        IN <<Opening(blocks[k]), [j \in DOMAIN bs |-> Meaning(bs[j])]>>]]

(* A file that was formatted means what it meant before: the same blocks,  *)
(* statements, comments, strings and placeholders, but for whitespace; and *)
(* it compiles if it did (format.ts:34-143).                               *)
FormattingKeepsMeaning ==
  formatting = "written" /\ parts # NoParts =>
    /\ Meanings(Root) = Meanings(before.root)
    /\ DOMAIN parts = DOMAIN before.parts
=============================================================================
