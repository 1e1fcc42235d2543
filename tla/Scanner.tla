------------------------------- MODULE Scanner -------------------------------
(***************************************************************************)
(* The scanner (scanner.c) and the parser's two tokens that it feeds       *)
(* (compiler.c: advance_compiler).  A source is a sequence of characters,  *)
(* strings of length 1, and its positions count from 1; the NUL that ends  *)
(* it lies at Edge.  A scanner that has gone past Edge reads memory that   *)
(* is not the source's; the model stops there.                             *)
(***************************************************************************)
EXTENDS Integers, Sequences, FiniteSetsExt

CONSTANT Sources   \* the programs to scan

VARIABLES src,
          current, line,   \* of scan; scan.start is the token's from
          pre, cur,        \* of the parser
          odd              \* history: text was read whose lines are miscounted

scanVars == <<src, current, line, pre, cur, odd>>

(* TLA+ strings have no backquote: @ stands for the one of a FMT_STR.      *)
Tick == "@"

Letters == {"a", "b", "c", "d", "e", "f", "g", "h", "i", "j", "k", "l", "m",
            "n", "o", "p", "q", "r", "s", "t", "u", "v", "w", "x", "y", "z",
            "A", "B", "C", "D", "E", "F", "G", "H", "I", "J", "K", "L", "M",
            "N", "O", "P", "Q", "R", "S", "T", "U", "V", "W", "X", "Y", "Z",
            "_"}
Digits  == {"0", "1", "2", "3", "4", "5", "6", "7", "8", "9"}

(* A backslash counts as space, so the case of scan_token for it is never  *)
(* reached; nor is that of skip_whitespace for a comment.                  *)
Space == {" ", "\t", "\\", "\r", "\n"}

NUL == ""

ASSUME ScannerAssumption ==
    \A s \in Sources : s \in Seq(STRING) /\ \A i \in DOMAIN s : s[i] # NUL

Edge == Len(src) + 1
At(i) == IF i \in DOMAIN src THEN src[i] ELSE NUL
Text(i, j) == SubSeq(src, i, Min({j, Len(src)}))
Capped(i) == Min({i, Edge + 1})

(* Where a loop that skips the characters of S, or all others, stops.      *)
Behind(S, i) == Min({j \in i .. Edge : At(j) \notin S})
Next_(S, i)  == Min({j \in i .. Edge : At(j) \in S \cup {NUL}})
Lines(i, j)  == Cardinality({k \in i .. j : At(k) = "\n"})

-----------------------------------------------------------------------------
(* Keywords (id_type).  A row says: below the case of letter from, and of  *)
(* second and third where they are given, check_keyword compares the word  *)
(* behind its first n letters with rest.  A case without a decision falls  *)
(* through to the next one.                                                *)
Row(from, second, third, n, rest, token) ==
    [from |-> from, second |-> second, third |-> third, n |-> n,
     rest |-> rest, token |-> token]

Any == "*"

Rows == <<
    Row("a", "r", Any, 2, <<"r", "a", "y">>, "TYPE_ARRAY"),
    Row("a", "n", Any, 2, <<"d">>, "OP_AND"),
    Row("b", "r", Any, 2, <<"e", "a", "k">>, "BREAK"),
    Row("b", "o", Any, 2, <<"o", "l">>, "TYPE_BOOL"),
    Row("c", "a", Any, 2, <<"s", "e">>, "CASE"),
    Row("c", "l", "o", 3, <<"c", "k">>, "CLOCK"),
    Row("c", "l", "a", 3, <<"s", "s">>, "CLASS"),
    Row("c", "l", Any, 2, <<"a", "r">>, "TYPE_CHAR"),
    Row("c", "h", Any, 2, <<"a", "r">>, "TYPE_CHAR"),
    Row("d", Any, Any, 1, <<"e", "f", "a", "u", "l", "t">>, "DEFAULT"),
    Row("e", "a", Any, 2, <<"c", "h">>, "EACH"),
    Row("e", "l", "s", 3, <<"e">>, "ELSE"),
    Row("e", "l", "i", 3, <<"f">>, "ELIF"),
    Row("e", "l", Any, 2, <<"p", "o", "r", "t">>, "EXPORT"),
    Row("e", "x", Any, 2, <<"p", "o", "r", "t">>, "EXPORT"),
    Row("f", "o", Any, 2, <<"r">>, "FOR"),
    Row("f", "a", Any, 2, <<"l", "s", "e">>, "FALSE"),
    Row("f", "r", Any, 2, <<"e", "e">>, "OP_FREE"),
    Row("f", "i", Any, 2, <<"l", "e">>, "FILE"),
    Row("i", "m", Any, 2, <<"p", "o", "r", "t">>, "IMPORT"),
    Row("i", Any, Any, 1, <<"f">>, "IF"),
    Row("n", "u", "l", 3, <<"l">>, "NULL"),
    Row("n", "u", Any, 2, <<"m">>, "TYPE_NUM"),
    Row("o", Any, Any, 1, <<"r">>, "OP_OR"),
    Row("p", "r", Any, 2, <<"i", "m", "e">>, "PRIME"),
    Row("p", "o", Any, 2, <<"u", "t">>, "PRINT"),
    Row("r", "e", "t", 3, <<"u", "r", "n">>, "RETURN"),
    Row("r", "e", "a", 3, <<"d">>, "READ"),
    Row("r", Any, Any, 1, <<"m">>, "OP_REM"),
    Row("s", "w", Any, 2, <<"i", "t", "c", "h">>, "SWITCH"),
    Row("s", "u", Any, 2, <<"p", "e", "r">>, "SUPER"),
    Row("s", "q", Any, 2, <<"u", "a", "r", "e">>, "SQRT"),
    Row("s", "t", "r", 2, <<"r", "i", "n", "g">>, "TYPE_STR"),
    Row("s", "t", "a", 2, <<"a", "c", "k">>, "TYPE_STACK"),
    Row("s", Any, Any, 1, <<"r">>, "FUNC"),
    Row("t", "a", Any, 2, <<"b", "l", "e">>, "TABLE"),
    Row("t", "h", Any, 2, <<"i", "s">>, "THIS"),
    Row("t", "r", Any, 2, <<"u", "e">>, "TRUE"),
    Row("v", Any, Any, 1, <<"a", "r">>, "VAR"),
    Row("w", Any, Any, 1, <<"h", "i", "l", "e">>, "WHILE") >>

LetterAt(w, i) == IF i <= Len(w) THEN w[i] ELSE NUL

(* Faulty: the third letter is not looked at.                              *)
DecidesEarly(r, w) == r.second \in {Any, LetterAt(w, 2)}

Decides(r, w) == /\ r.second \in {Any, LetterAt(w, 2)}
                 /\ r.third \in {Any, LetterAt(w, 3)}

(* Faulty: the word may go on behind the keyword.                          *)
IsRestPrefix(r, w) == /\ Len(w) >= r.n + Len(r.rest)
                      /\ SubSeq(w, r.n + 1, r.n + Len(r.rest)) = r.rest

(* check_keyword *)
IsRest(r, w) == /\ Len(w) = r.n + Len(r.rest)
                /\ SubSeq(w, r.n + 1, Len(w)) = r.rest

(* The decision is that of the first row from the word's own case on.      *)
IdType(w) ==
    LET own == {k \in DOMAIN Rows : Rows[k].from = LetterAt(w, 1)} IN
    IF own = {} THEN "ID"
    ELSE LET r == Rows[Min({k \in Min(own) .. Len(Rows) : Decides(Rows[k], w)})]
         IN  IF IsRest(r, w) THEN r.token ELSE "ID"

-----------------------------------------------------------------------------
(* The longest of these at a position is the operator found there.         *)
Operators ==
    {<<c>> : c \in {"(", ")", "[", "]", "{", "}", ",", ".", ";", ":", "?", "/",
                    "*", "-", "+", "%", "&", "|", "!", "=", ">", "<"}}
    \cup {<<c, "=">> : c \in {"/", "*", "-", "+", "%", "&", "|", "!", "=", ">",
                              "<"}}
    \cup {<<c, c>> : c \in {"?", "-", "+", "&", "|"}}
    \cup {<<"-", ">">>, <<"!", "=", "=">>, <<"=", "=", "=">>}

(* Where the text of a string goes to.  A backslash takes the next         *)
(* character along, even the NUL; its n counts as a line, while the line   *)
(* breaks within the string do not.                                        *)
InString(q, from) ==
    LET f[i \in from .. Edge + 1] ==
          IF At(i) \in {q, NUL} THEN [at |-> i, nl |-> 0]
          ELSE IF At(i) # "\\" THEN f[i + 1]
          ELSE [f[Capped(i + 2)] EXCEPT
                   !.nl = @ + (IF At(i + 1) = "n" THEN 1 ELSE 0)]
    IN  f[from]

Opens(i)  == At(i) = "/" /\ At(i + 1) = "*"
Closes(i) == At(i) = "*" /\ At(i + 1) = "/"

(* skip_multi_line_comment: a comment in a comment is skipped on its own   *)
(* and takes the character behind it along; an end that does not come is   *)
(* skipped all the same.                                                   *)
InBlock(from) ==
    LET f[i \in from .. Edge + 1] ==
          IF i >= Edge THEN [at |-> Capped(i + 2), nl |-> 0]
          ELSE IF Opens(i)
          THEN LET inner == f[i + 1]
                   rest  == f[Capped(inner.at + 1)]
               IN  [at |-> rest.at, nl |-> inner.nl + rest.nl]
          ELSE IF Closes(i) THEN [at |-> i + 2, nl |-> 0]
          ELSE [f[i + 1] EXCEPT !.nl = @ + (IF At(i) = "\n" THEN 1 ELSE 0)]
    IN  f[Capped(from)]

-----------------------------------------------------------------------------
(* advance_compiler takes tokens until one is no error.                    *)
Scans == cur.type # "EOF" /\ current <= Edge
start == Behind(Space, current)
first == At(start)

(* The token of a type that ends before position at, with nl line breaks.  *)
Token(type, at, nl) ==
    /\ current' = Capped(at)
    /\ line' = line + Lines(current, start - 1) + nl
    /\ cur' = [type |-> type, from |-> start, to |-> current' - 1,
               line |-> line']
    /\ pre' = IF cur.type = "ERR" THEN pre ELSE cur
    /\ UNCHANGED src

Plain == UNCHANGED odd

AtEnd == /\ Scans /\ first = NUL
         /\ Token("EOF", start, 0) /\ Plain

WordEnd == Behind(Letters \cup Digits, start + 1)

Word == /\ Scans /\ first \in Letters
        /\ Token(IdType(Text(start, WordEnd - 1)), WordEnd, 0) /\ Plain

Number ==
    LET k == Behind(Digits, start)
        end == IF At(k) = "." /\ At(k + 1) \in Digits
               THEN Behind(Digits, k + 1) ELSE k
    IN  /\ Scans /\ first \in Digits
        /\ Token("NUMBER", end, 0) /\ Plain

IsComment == first = "/" /\ At(start + 1) \in {"/", "*"}

OperatorsHere == {t \in Operators : Text(start, start + Len(t) - 1) = t}

Operator ==
    /\ Scans /\ ~ IsComment /\ OperatorsHere # {}
    /\ Token("OP", start + Max({Len(t) : t \in OperatorsHere}), 0) /\ Plain

(* Faulty: the line break that ends a comment is not counted.              *)
BreakSkipped(at) == 0

BreakAt(at) == IF At(at) = "\n" THEN 1 ELSE 0

(* A slash behind the star that begins it makes it a comment of one line.  *)
LineComment ==
    LET end == Next_({"\n"}, start + 1) IN
    /\ Scans /\ IsComment
    /\ "/" \in {At(start + 1), At(start + 2)}
    /\ Token("LINE_COMMENT", end + 1, BreakAt(end)) /\ Plain

BlockComment ==
    LET end == InBlock(start + 2) IN
    /\ Scans /\ IsComment
    /\ "/" \notin {At(start + 1), At(start + 2)}
    /\ Token("NLINE_COMMENT", end.at, end.nl)
    /\ odd' = (odd \/ \E i \in start + 2 .. end.at - 2 : Opens(i))

(* Faulty: the closing quote is skipped though the source has ended.       *)
ShutBlindly(at) == at + 1

Shut(at) == IF At(at) = NUL THEN at ELSE at + 1

String ==
    LET end == InString(first, start + 1) IN
    /\ Scans /\ first \in {"\"", Tick}
    /\ Token(IF At(end.at) = NUL THEN "ERR"
             ELSE IF first = Tick THEN "FMT_STR" ELSE "STR",
             Shut(end.at), end.nl)
    /\ odd' = (odd \/ \E i \in start .. Len(src) : At(i) \in {"\\", "\n"})

(* Two characters are skipped, whatever they are.                          *)
Character == /\ Scans /\ first = "'"
             /\ Token("CHAR", start + 3, 0)
             /\ odd' = (odd \/ Lines(start, start + 2) > 0)

Unknown ==
    /\ Scans /\ first \notin Letters \cup Digits \cup {NUL, "\"", Tick, "'"}
    /\ OperatorsHere = {}
    /\ Token("ERR", start + 1, 0) /\ Plain

-----------------------------------------------------------------------------
NoToken == [type |-> "NONE", from |-> 1, to |-> 0, line |-> 1]

ScanInit ==
    /\ src \in Sources
    /\ current = 1 /\ line = 1
    /\ pre = NoToken /\ cur = NoToken /\ odd = FALSE

(* After EOF the parser asks for nothing more.                             *)
Done == ~ Scans /\ UNCHANGED scanVars

ScanNext == \/ Done \/ AtEnd \/ Word \/ Number \/ Operator \/ LineComment
            \/ BlockComment \/ String \/ Character \/ Unknown

ScanSpec == ScanInit /\ [][ScanNext]_scanVars

-----------------------------------------------------------------------------
Types == {Rows[k].token : k \in DOMAIN Rows}
         \cup {"NONE", "ID", "NUMBER", "OP", "STR", "FMT_STR", "CHAR",
               "LINE_COMMENT", "NLINE_COMMENT", "ERR", "EOF"}

(* Type correctness.  The line runs ahead of no character; every token but *)
(* EOF takes one at least, and the parser's two lie one behind the other:  *)
(* with no state that has no next token, every source is scanned to its    *)
(* end.                                                                    *)
ScanTypeOK ==
    /\ current \in 1 .. Edge + 1 /\ line \in 1 .. current
    /\ {pre.type, cur.type} \subseteq Types
    /\ cur.type \notin {"NONE", "EOF"} => cur.from <= cur.to
    /\ cur.type # "NONE" => pre.to < cur.from

(* What the row of a keyword spells below its own case.                    *)
Spelled(r) == SubSeq(<<r.from, r.second, r.third>>, 1, r.n) \o r.rest
Wanted == {k \in DOMAIN Rows : ~ (Rows[k].second = "l" /\ Rows[k].third = Any)}

(* No case of id_type hides a keyword from a later one.                    *)
KeywordsKnown ==
    cur.type = "ID" =>
        \A k \in Wanted : Text(cur.from, cur.to) # Spelled(Rows[k])

(* The cases that one falls through to.                                    *)
Groups == <<{"a", "b", "c", "d"}, {"e", "f", "i"}, {"n", "o"}, {"p", "r"},
            {"t", "v"}>>
FallsTo(a, b) == a = b \/ \E g \in DOMAIN Groups : {a, b} \subseteq Groups[g]

(* A word is taken for a keyword only if it is that keyword but for its    *)
(* first letters, one of which falls through to the other: identifiers     *)
(* like nr, pm or base are not available to programs, but no others.       *)
MisreadByTail ==
    LET w == Text(cur.from, cur.to) IN
    cur.type \in {Rows[k].token : k \in DOMAIN Rows} =>
        \E k \in DOMAIN Rows :
           LET s == Spelled(Rows[k]) IN
           /\ Rows[k].token = cur.type
           /\ Len(s) = Len(w) /\ FallsTo(LetterAt(w, 1), Rows[k].from)
           /\ SubSeq(w, 2, Len(w)) = SubSeq(s, 2, Len(s))

(* Tokens carry the line they end on, up to the first string or character  *)
(* that hides a line break and the first comment within a comment.         *)
LinesRight ==
    cur.type # "NONE" /\ ~ odd =>
        cur.line = 1 + Lines(1, IF cur.type = "EOF" THEN cur.from ELSE cur.to)

(* The scanner leaves the source only through a comment that the source's  *)
(* end cuts off (or one within a comment), a character literal, or a       *)
(* string whose last character is a backslash.                             *)
StaysInside ==
    current > Edge =>
        \/ cur.type = "LINE_COMMENT" /\ Lines(cur.from, Len(src)) = 0
        \/ /\ cur.type = "NLINE_COMMENT"
           /\ odd \/ \A i \in cur.from + 2 .. Len(src) - 1 : ~ Closes(i)
        \/ cur.type = "CHAR"
        \/ cur.type = "ERR" /\ At(Len(src)) = "\\"
=============================================================================
