-------------------------------- MODULE Parsing --------------------------------
(***************************************************************************)
(* The parser of v2 modules (v2/parser.rs), from the tokens of a text: a   *)
(* record with the kind of the token, its text if it is a word and its     *)
(* value if it is a literal.  Every operator of the grammar takes the      *)
(* tokens t and a position i, and gives what it read and the position      *)
(* after it, or the code of its diagnostic and the position it is for.     *)
(* Spans, the kinds of records and the defaults of fields are left out.    *)
(***************************************************************************)
EXTENDS Syntax, Integers, TLC

Word(x)   == [kind |-> "word", text |-> x]
Value(v)  == [kind |-> "value", value |-> v]
Mark(m)   == [kind |-> m]
Eof       == Mark("eof")

Read(x, i)     == [got |-> x, next |-> i]
Error(code, i) == [error |-> code, next |-> i]
Ok(r)          == "got" \in DOMAIN r
Then(r, F(_, _)) == IF Ok(r) THEN F(r.got, r.next) ELSE r

check(t, i, m)     == t[i].kind = m
check_kw(t, i, w)  == t[i] = Word(w)
ident(t, i)        == IF check(t, i, "word") THEN Read(t[i].text, i + 1)
                                             ELSE Error("E0104", i)
expect(t, i, m)    == IF check(t, i, m) THEN Read(m, i + 1) ELSE Error("E0107", i)
expect_kw(t, i, w) == IF check_kw(t, i, w) THEN Read(w, i + 1) ELSE Error("E0106", i)
Closing(t, i, m, x) == Then(expect(t, i, m), LAMBDA y, j : Read(x, j))
\* The position after an optional mark.
Past(t, i, marks)  == IF t[i].kind \in marks THEN i + 1 ELSE i

\* The operators and how strongly they bind on their left; on their right one
\* more, so that operators of one strength go from left to right.
Operators ==
    ("||" :> <<1, "Or">>)  @@ ("&&" :> <<3, "And">>) @@
    ("==" :> <<5, "Eq">>)  @@ ("!=" :> <<5, "Ne">>)  @@
    ("<"  :> <<7, "Lt">>)  @@ ("<=" :> <<7, "Le">>)  @@
    (">"  :> <<7, "Gt">>)  @@ (">=" :> <<7, "Ge">>)  @@
    ("+"  :> <<9, "Add">>) @@ ("-"  :> <<9, "Sub">>) @@
    ("*"  :> <<11, "Mul">>) @@ ("/" :> <<11, "Div">>) @@ ("%" :> <<11, "Mod">>)

\* Wrong on purpose: operators of one strength go from right to left.
binary_binding__FromTheRight(m) ==
    [left |-> Operators[m][1], right |-> Operators[m][1], op |-> Operators[m][2]]

binary_binding(m) ==
    [left |-> Operators[m][1], right |-> Operators[m][1] + 1,
     op |-> Operators[m][2]]

Uppercase == {"A", "B", "C", "D", "E", "F", "G", "H", "I", "J", "K", "L", "M",
              "N", "O", "P", "Q", "R", "S", "T", "U", "V", "W", "X", "Y", "Z"}

SimpleTypes == [nil |-> TNil, bool |-> TBool, int |-> TInt, float |-> TFloat,
                string |-> TString, any |-> TAny]

RECURSIVE type_ref(_, _)
type_ref(t, i) ==
    LET Of(name, inner) == IF name = "Array" THEN TArray(inner)
                                             ELSE TOption(inner)
    IN  Then(ident(t, i), LAMBDA name, j :
            IF name \in DOMAIN SimpleTypes THEN Read(SimpleTypes[name], j)
            ELSE IF name \notin {"Array", "Option"} THEN Read(TNamed(name), j)
            ELSE Then(expect(t, j, "<"), LAMBDA x, k :
                 Then(type_ref(t, k), LAMBDA inner, n :
                 Closing(t, n, ">", Of(name, inner)))))

----------------------------------------------------------------------------
(***************************************************************************)
(* Lists.  The elements of a separated list have a comma between them, the *)
(* others follow each other; the close is read with the list.              *)
(***************************************************************************)
RECURSIVE expr(_, _, _), stmt(_, _), Separated(_, _, _, _, _),
          Sequence(_, _, _, _, _)

Typed(t, i) ==
    Then(ident(t, i), LAMBDA name, j :
    Then(expect(t, j, ":"), LAMBDA x, k :
    Then(type_ref(t, k), LAMBDA type, n : Read(Param(name, type), n))))

pattern(t, i) ==
    CASE check_kw(t, i, "_")    -> Read(Wildcard, i + 1)
      [] check(t, i, "word") /\ ~check_kw(t, i, "_") ->
            Read(NamePattern(t[i].text), i + 1)
      [] check(t, i, "value")   -> Read(LitPattern(t[i].value), i + 1)
      [] t[i].kind \notin {"word", "value"} -> Error("E0108", i)

block(t, i) == Then(expect(t, i, "{"), LAMBDA x, j :
                    Sequence("stmt", "}", t, j, <<>>))

Element(what, t, i) ==
    CASE what = "expr"  -> expr(t, i, 0)
      [] what = "stmt"  -> stmt(t, i)
      [] what = "param" -> Typed(t, i)
      [] what = "field" ->     \* of a record's declaration
            Then(Typed(t, i), LAMBDA f, j :
                IF check(t, j, "=")
                THEN Then(expr(t, j + 1, 0), LAMBDA e, k :
                          Read(f, Past(t, k, {",", ";"})))
                ELSE Read(f, Past(t, j, {",", ";"})))
      [] what = "entry" ->     \* of a record's constructor
            Then(ident(t, i), LAMBDA name, j :
            Then(expect(t, j, ":"), LAMBDA x, k :
            Then(expr(t, k, 0), LAMBDA e, n : Read(<<name, e>>, n))))
      [] what = "type"  -> type_ref(t, i)
      [] what = "variant" ->
            Then(ident(t, i), LAMBDA name, j :
                IF check(t, j, "(")
                THEN Then(Separated("type", ")", t, j + 1, <<>>),
                          LAMBDA types, k : Read(name, Past(t, k, {","})))
                ELSE Read(name, Past(t, j, {","})))
      [] what = "arm"   ->
            Then(pattern(t, i), LAMBDA p, j :
            Then(expect(t, j, "=>"), LAMBDA x, k :
            Then(block(t, k), LAMBDA b, n :
                 Read(Arm(p, b), Past(t, n, {","})))))

\* Only the entries of a constructor may end in a comma.
Separated(what, close, t, i, read) ==
    IF check(t, i, close) /\ (read = <<>> \/ what = "entry")
    THEN Read(read, i + 1)
    ELSE Then(Element(what, t, i), LAMBDA x, j :
             IF check(t, j, ",")
             THEN Separated(what, close, t, j + 1, Append(read, x))
             ELSE Closing(t, j, close, Append(read, x)))

Sequence(what, close, t, i, read) ==
    IF check(t, i, close) \/ check(t, i, "eof") THEN Closing(t, i, close, read)
    ELSE Then(Element(what, t, i), LAMBDA x, j :
              Sequence(what, close, t, j, Append(read, x)))

----------------------------------------------------------------------------
(***************************************************************************)
(* Expressions, by the strength of what is around them.                    *)
(***************************************************************************)

\* A name with a capital and a brace construct a record, also where the brace
\* would open a block.
primary(t, i) ==
    CASE check(t, i, "value") -> Read(Lit(t[i].value), i + 1)
      [] check_kw(t, i, "nil") -> Read(Lit([tag |-> "nil"]), i + 1)
      [] check_kw(t, i, "true") \/ check_kw(t, i, "false") ->
            Read(Lit([tag |-> "bool", bool |-> check_kw(t, i, "true")]), i + 1)
      [] check(t, i, "(") -> Then(expr(t, i + 1, 0), LAMBDA e, j :
                                  Closing(t, j, ")", e))
      [] check(t, i, "[") -> Then(Separated("expr", "]", t, i + 1, <<>>),
                                  LAMBDA es, j : Read(ArrayOf(es), j))
      [] /\ check(t, i, "word")
         /\ \A w \in {"nil", "true", "false"} : ~check_kw(t, i, w) ->
            IF SubSeq(t[i].text, 1, 1) \in Uppercase /\ check(t, i + 1, "{")
            THEN Then(Separated("entry", "}", t, i + 2, <<>>),
                      LAMBDA fs, j : Read(RecordOf(t[i].text, fs), j))
            ELSE Read(Var(t[i].text), i + 1)
      [] t[i].kind \notin {"value", "(", "[", "word"} -> Error("E0103", i)

\* What follows an operand, as long as it binds at least as strongly as min.
RECURSIVE Following(_, _, _, _)
Following(t, i, min, left) ==
    LET m == t[i].kind
    IN  CASE m = "(" -> Then(Separated("expr", ")", t, i + 1, <<>>),
                             LAMBDA es, j : Following(t, j, min, CallOf(left, es)))
          [] m = "." -> Then(ident(t, i + 1), LAMBDA x, j :
                             Following(t, j, min, Field(left, x)))
          [] m = "[" -> Then(expr(t, i + 1, 0), LAMBDA e, j :
                        Then(expect(t, j, "]"), LAMBDA x, k :
                             Following(t, k, min, Index(left, e))))
          [] m \in DOMAIN Operators ->
                IF binary_binding(m).left < min THEN Read(left, i)
                ELSE Then(expr(t, i + 1, binary_binding(m).right), LAMBDA e, j :
                          Following(t, j, min,
                                    BinaryOp(binary_binding(m).op, left, e)))
          [] m \notin {"(", ".", "["} \cup DOMAIN Operators -> Read(left, i)

expr(t, i, min) ==
    LET Prefix(F(_)) == Then(expr(t, i + 1, 13), LAMBDA e, j :
                             Following(t, j, min, F(e)))
    IN  CASE check_kw(t, i, "await") -> Prefix(Await)
          [] check(t, i, "-") -> Prefix(LAMBDA e : UnaryOp("Neg", e))
          [] check(t, i, "!") -> Prefix(LAMBDA e : UnaryOp("Not", e))
          [] OTHER -> Then(primary(t, i), LAMBDA e, j :
                           Following(t, j, min, e))

----------------------------------------------------------------------------
(***************************************************************************)
(* Statements and declarations.                                            *)
(***************************************************************************)
Ended(t, i, s) == Closing(t, i, ";", s)

LetStmt(t, i) ==
    LET Valued(name, type, k) ==
            Then(expect(t, k, "="), LAMBDA x, n :
            Then(expr(t, n, 0), LAMBDA e, o : Ended(t, o, Let(name, type, e))))
    IN  Then(ident(t, i), LAMBDA name, j :
            IF check(t, j, ":")
            THEN Then(type_ref(t, j + 1), LAMBDA type, k :
                      Valued(name, Some(type), k))
            ELSE Valued(name, None, j))

IfStmt(t, i) ==
    Then(expr(t, i, 0), LAMBDA c, j :
    Then(block(t, j), LAMBDA then, k :
        IF check_kw(t, k, "else")
        THEN Then(block(t, k + 1), LAMBDA else, n :
                  Read(If(c, then, Some(else)), n))
        ELSE Read(If(c, then, None), k)))

MatchStmt(t, i) ==
    Then(expr(t, i, 0), LAMBDA e, j :
    Then(expect(t, j, "{"), LAMBDA x, k :
    Then(Sequence("arm", "}", t, k, <<>>), LAMBDA arms, n :
         Read(Match(e, arms), n))))

ForStmt(t, i) ==
    Then(ident(t, i), LAMBDA name, j :
    Then(expect_kw(t, j, "in"), LAMBDA x, k :
    Then(expr(t, k, 0), LAMBDA e, n :
    Then(block(t, n), LAMBDA b, o : Read(For(name, e, b), o)))))

Plain(t, i) ==
    Then(expr(t, i, 0), LAMBDA e, j :
        IF check(t, j, "=")
        THEN Then(expr(t, j + 1, 0), LAMBDA v, k : Ended(t, k, Assign(e, v)))
        ELSE Ended(t, j, Do(e)))

stmt(t, i) ==
    CASE check_kw(t, i, "let")    -> LetStmt(t, i + 1)
      [] check_kw(t, i, "return") ->
            IF check(t, i + 1, ";") THEN Read(ReturnOf(None), i + 2)
            ELSE Then(expr(t, i + 1, 0), LAMBDA e, j :
                      Ended(t, j, ReturnOf(Some(e))))
      [] check_kw(t, i, "if")     -> IfStmt(t, i + 1)
      [] check_kw(t, i, "while")  ->
            Then(expr(t, i + 1, 0), LAMBDA c, j :
            Then(block(t, j), LAMBDA b, k : Read(While(c, b), k)))
      [] check_kw(t, i, "match")  -> MatchStmt(t, i + 1)
      [] check_kw(t, i, "for")    -> ForStmt(t, i + 1)
      [] check_kw(t, i, "break")  -> Ended(t, i + 1, Break)
      [] check_kw(t, i, "continue") -> Ended(t, i + 1, ContinueLoop)
      [] check_kw(t, i, "emit")   ->
            Then(expr(t, i + 1, 0), LAMBDA e, j : Ended(t, j, EmitEvent(e)))
      [] OTHER -> Plain(t, i)

callable(t, i, kind) ==
    LET Bodied(name, params, type, j) ==
            Then(block(t, j), LAMBDA b, k :
                 Read([item |-> "callable",
                       decl |-> Callable(name, kind, params, type, b)], k))
    IN  Then(ident(t, i), LAMBDA name, j :
        Then(expect(t, j, "("), LAMBDA x, k :
        Then(Separated("param", ")", t, k, <<>>), LAMBDA params, n :
            IF check(t, n, "->")
            THEN Then(type_ref(t, n + 1), LAMBDA type, o :
                      Bodied(name, params, type, o))
            ELSE Bodied(name, params, TNil, n))))

record(t, i) ==
    Then(ident(t, i), LAMBDA name, j :
    LET persistent == check_kw(t, j, "persistent")
    IN  Then(expect(t, IF persistent THEN j + 1 ELSE j, "{"), LAMBDA x, k :
        Then(Sequence("field", "}", t, k, <<>>), LAMBDA fields, n :
             Read([item |-> "record",
                   decl |-> [name |-> name, persistent |-> persistent,
                             fields |-> fields]], n))))

handler(t, i) ==
    Then(ident(t, i), LAMBDA name, j :
        IF name \notin {"start", "tick", "input", "message", "save", "load"}
        THEN Error("E0101", j)
        ELSE Then(block(t, j), LAMBDA b, k :
                  Read([item |-> "handler", decl |-> <<name, b>>], k)))

import(t, i) ==
    IF ~check(t, i, "value") THEN Error("E0105", i)
    ELSE IF check_kw(t, i + 1, "as")
    THEN Then(ident(t, i + 2), LAMBDA x, j : Ended(t, j, [item |-> "import"]))
    ELSE Ended(t, i + 1, [item |-> "import"])

enum_decl(t, i) ==
    Then(ident(t, i), LAMBDA name, j :
    Then(expect(t, j, "{"), LAMBDA x, k :
    Then(Sequence("variant", "}", t, k, <<>>), LAMBDA names, n :
         Read([item |-> "enum"], n))))

Records   == {"struct", "component", "resource", "event"}
Callables == {"func", "task", "system"}
item(t, i) ==
    LET w == IF check(t, i, "word") THEN t[i].text ELSE ""
    IN  CASE w = "import"     -> import(t, i + 1)
          [] w \in Records    -> record(t, i + 1)
          [] w = "enum"       -> enum_decl(t, i + 1)
          [] w = "test"       -> Then(expect_kw(t, i + 1, "func"),
                                      LAMBDA x, j : callable(t, j, "test"))
          [] w \in Callables  -> callable(t, i + 1, w)
          [] w = "on"         -> handler(t, i + 1)
          [] w \notin {"import", "enum", "test", "on"} \cup Records \cup Callables ->
                Error("E0100", i)

\* After an error the parser goes on where a declaration may start.
RECURSIVE synchronize_item(_, _)
synchronize_item(t, i) ==
    IF \/ check(t, i, "eof")
       \/ \E w \in {"import", "enum", "test", "on"} \cup Records \cup Callables :
              check_kw(t, i, w)
    THEN i ELSE synchronize_item(t, i + 1)

\* The declarations of a text and the codes of the parser's diagnostics.
RECURSIVE Items(_, _, _)
Items(t, i, read) ==
    IF check(t, i, "eof") THEN read
    ELSE LET r == item(t, i)
         IN  IF Ok(r) THEN Items(t, r.next, [read EXCEPT !.items = Append(@, r.got)])
             ELSE Items(t, synchronize_item(t, r.next),
                        [read EXCEPT !.errors = @ \cup {r.error}])

Of(items, kind) ==
    LET chosen == SelectSeq(items, LAMBDA x : x.item = kind)
    IN  [i \in DOMAIN chosen |-> chosen[i].decl]

parse(t) ==
    LET read     == Items(t, 1, [items |-> <<>>, errors |-> {}])
        starts   == SelectSeq(Of(read.items, "handler"),
                              LAMBDA h : h[1] = "start")
    IN  [errors |-> read.errors,
         module |-> Module(Of(read.items, "record"), Of(read.items, "callable"),
                           IF starts = <<>> THEN None
                           ELSE Some(starts[1][2]))]
=============================================================================
