-------------------------------- MODULE Writing --------------------------------
(***************************************************************************)
(* How a v2 module is written: the tokens of a syntax tree, with the fewest*)
(* parentheses.  The reference for the parser: the strength of operators   *)
(* is stated as one order, the strongest last, and operators of one        *)
(* strength go from left to right.                                         *)
(***************************************************************************)
EXTENDS Parsing, SequencesExt

Words(q)  == [i \in DOMAIN q |-> Word(q[i])]
Marks(q)  == [i \in DOMAIN q |-> Mark(q[i])]
Between(open, q, close) == <<Mark(open)>> \o q \o <<Mark(close)>>
Listed(q) == IF q = <<>> THEN <<>>
             ELSE FoldLeft(LAMBDA text, x : text \o <<Mark(",")>> \o x,
                           q[1], Tail(q))

Strengths == <<{"Or"}, {"And"}, {"Eq", "Ne"}, {"Lt", "Le", "Gt", "Ge"},
               {"Add", "Sub"}, {"Mul", "Div", "Mod"}>>
Strength(op) == CHOOSE i \in DOMAIN Strengths : op \in Strengths[i]
Sign == [Or |-> "||", And |-> "&&", Eq |-> "==", Ne |-> "!=", Lt |-> "<",
         Le |-> "<=", Gt |-> ">", Ge |-> ">=", Add |-> "+", Sub |-> "-",
         Mul |-> "*", Div |-> "/", Mod |-> "%", Neg |-> "-", Not |-> "!"]
StrengthOf(e) ==
    CASE e.node = "binary"                      -> Strength(e.op)
      [] e.node \in {"unary", "await"}          -> 7
      [] e.node \in {"call", "field", "index"}  -> 8
      [] OTHER                                  -> 9

RECURSIVE TypeText(_), ExprText(_), StmtText(_)
TypeText(type) ==
    CASE type.type \in {"Array", "Option"} ->
            <<Word(type.type)>> \o Between("<", TypeText(type.of), ">")
      [] type.type = "Named" -> <<Word(type.name)>>
      [] OTHER -> <<Word(CHOOSE w \in DOMAIN SimpleTypes :
                             SimpleTypes[w] = type)>>

AtLeast(strength, e) == IF StrengthOf(e) >= strength THEN ExprText(e)
                        ELSE Between("(", ExprText(e), ")")
Texts(es) == [i \in DOMAIN es |-> ExprText(es[i])]
Entries(fs) == [i \in DOMAIN fs |->
                   <<Word(fs[i][1]), Mark(":")>> \o ExprText(fs[i][2])]

ExprText(e) ==
    CASE e.node = "literal" ->
            <<CASE e.value.tag = "nil"  -> Word("nil")
                [] e.value.tag = "bool" -> Word(IF e.value.bool THEN "true"
                                                ELSE "false")
                [] OTHER -> Value(e.value)>>
      [] e.node = "name"   -> <<Word(e.name)>>
      [] e.node = "array"  -> Between("[", Listed(Texts(e.items)), "]")
      [] e.node = "record" ->
            <<Word(e.name)>> \o Between("{", Listed(Entries(e.fields)), "}")
      [] e.node = "unary"  -> <<Mark(Sign[e.op])>> \o AtLeast(7, e.arg)
      [] e.node = "await"  -> <<Word("await")>> \o AtLeast(7, e.arg)
      [] e.node = "binary" ->
            AtLeast(Strength(e.op), e.left) \o <<Mark(Sign[e.op])>> \o
            AtLeast(Strength(e.op) + 1, e.right)
      [] e.node = "field"  -> AtLeast(8, e.object) \o <<Mark("."), Word(e.name)>>
      [] e.node = "index"  ->
            AtLeast(8, e.object) \o Between("[", ExprText(e.index), "]")
      [] e.node = "call"   ->
            AtLeast(8, e.callee) \o Between("(", Listed(Texts(e.args)), ")")

BlockText(b) == Between("{", FoldLeft(LAMBDA text, s : text \o StmtText(s),
                                      <<>>, b), "}")
Line(q) == q \o <<Mark(";")>>
PatternText(p) == CASE p.pat = "wildcard" -> <<Word("_")>>
                    [] p.pat = "name"     -> <<Word(p.name)>>
                    [] p.pat = "literal"  -> <<Value(p.value)>>
ArmsText(arms) ==
    FoldLeft(LAMBDA text, a : text \o PatternText(a.pattern) \o <<Mark("=>")>>
                              \o BlockText(a.body), <<>>, arms)

StmtText(s) ==
    CASE s.stmt = "let" ->
            Line(<<Word("let"), Word(s.name)>> \o
                 (IF IsSome(s.type) THEN <<Mark(":")>> \o TypeText(Get(s.type))
                  ELSE <<>>) \o <<Mark("=")>> \o ExprText(s.value))
      [] s.stmt = "assign" ->
            Line(ExprText(s.target) \o <<Mark("=")>> \o ExprText(s.value))
      [] s.stmt = "expr"   -> Line(ExprText(s.value))
      [] s.stmt = "emit"   -> Line(<<Word("emit")>> \o ExprText(s.value))
      [] s.stmt = "return" ->
            Line(<<Word("return")>> \o (IF IsSome(s.result)
                                        THEN ExprText(Get(s.result)) ELSE <<>>))
      [] s.stmt = "if"     ->
            <<Word("if")>> \o ExprText(s.cond) \o BlockText(s.then) \o
            (IF IsSome(s.else) THEN <<Word("else")>> \o BlockText(Get(s.else))
             ELSE <<>>)
      [] s.stmt = "while"  ->
            <<Word("while")>> \o ExprText(s.cond) \o BlockText(s.body)
      [] s.stmt = "for"    ->
            Words(<<"for", s.name, "in">>) \o ExprText(s.iter) \o
            BlockText(s.body)
      [] s.stmt = "match"  ->
            <<Word("match")>> \o ExprText(s.value) \o
            Between("{", ArmsText(s.arms), "}")
      [] s.stmt \in {"break", "continue"} -> Line(<<Word(s.stmt)>>)

Declarations(params) ==
    [i \in DOMAIN params |-> <<Word(params[i].name), Mark(":")>> \o
                             TypeText(params[i].type)]
RecordText(r) ==
    Words(<<"component", r.name>>) \o
    (IF r.persistent THEN <<Word("persistent")>> ELSE <<>>) \o
    Between("{", Listed(Declarations(r.fields)), "}")
CallableText(c) ==
    (IF c.kind = "test" THEN Words(<<"test", "func">>) ELSE <<Word(c.kind)>>)
    \o <<Word(c.name)>> \o Between("(", Listed(Declarations(c.params)), ")")
    \o (IF c.type = TNil THEN <<>> ELSE <<Mark("->")>> \o TypeText(c.type))
    \o BlockText(c.body)

\* The text of a module; an import and an enum that nothing uses come first.
Written(m) ==
    <<Word("import"), Value([tag |-> "string", text |-> "other"])>> \o
    Words(<<"as", "other">>) \o Marks(<<";">>) \o Words(<<"enum", "Way">>) \o
    Between("{", <<Word("Up"), Mark(","), Word("Down"), Mark("("), Word("int"),
                   Mark(")")>>, "}") \o
    FlattenSeq([i \in DOMAIN m.records |-> RecordText(m.records[i])]) \o
    FlattenSeq([i \in DOMAIN m.callables |-> CallableText(m.callables[i])]) \o
    (IF IsSome(m.start) THEN Words(<<"on", "start">>) \o BlockText(Get(m.start))
     ELSE <<>>) \o <<Eof>>
=============================================================================
