-------------------------------- MODULE Syntax --------------------------------
(***************************************************************************)
(* The syntax tree of a v2 module, after the parser.  What is optional is  *)
(* a sequence of at most one element.                                      *)
(***************************************************************************)
EXTENDS Sequences

None    == <<>>
Some(x) == <<x>>
IsSome(o) == o # None
Get(o)    == o[1]

\* Types.
T(name)         == [type |-> name]
TArray(inner)   == [type |-> "Array", of |-> inner]
TOption(inner)  == [type |-> "Option", of |-> inner]
TNamed(name)    == [type |-> "Named", name |-> name]
TNil    == T("Nil")
TBool   == T("Bool")
TInt    == T("Int")
TFloat  == T("Float")
TString == T("String")
TAny    == T("Any")

\* Expressions.
Lit(v)              == [node |-> "literal", value |-> v]
Var(x)              == [node |-> "name", name |-> x]
ArrayOf(items)      == [node |-> "array", items |-> items]
RecordOf(name, fields) == [node |-> "record", name |-> name, fields |-> fields]
UnaryOp(op, a)      == [node |-> "unary", op |-> op, arg |-> a]
BinaryOp(op, a, b)  == [node |-> "binary", op |-> op, left |-> a, right |-> b]
Field(object, name) == [node |-> "field", object |-> object, name |-> name]
Index(object, i)    == [node |-> "index", object |-> object, index |-> i]
CallOf(callee, args) == [node |-> "call", callee |-> callee, args |-> args]
Await(a)            == [node |-> "await", arg |-> a]

\* Statements; a block is a sequence of them.
Let(x, type, e)    == [stmt |-> "let", name |-> x, type |-> type, value |-> e]
Assign(target, e)  == [stmt |-> "assign", target |-> target, value |-> e]
Do(e)              == [stmt |-> "expr", value |-> e]
ReturnOf(e)        == [stmt |-> "return", result |-> e]
If(c, then, else)  == [stmt |-> "if", cond |-> c, then |-> then, else |-> else]
While(c, body)     == [stmt |-> "while", cond |-> c, body |-> body]
For(x, e, body)    == [stmt |-> "for", name |-> x, iter |-> e, body |-> body]
Match(e, arms)     == [stmt |-> "match", value |-> e, arms |-> arms]
Break              == [stmt |-> "break"]
ContinueLoop       == [stmt |-> "continue"]
EmitEvent(e)            == [stmt |-> "emit", value |-> e]

\* Arms of a match: a literal, a name (an enum's variant) or the wildcard.
Arm(pattern, body) == [pattern |-> pattern, body |-> body]
Wildcard           == [pat |-> "wildcard"]
LitPattern(v)      == [pat |-> "literal", value |-> v]
NamePattern(x)     == [pat |-> "name", name |-> x]

\* Declarations.  `callables` are in the order of their names, `records` are
\* [name, persistent, fields : <<[name, type], ..>>].
Callable(name, kind, params, type, body) ==
    [name |-> name, kind |-> kind, params |-> params, type |-> type,
     body |-> body]
Param(name, type) == [name |-> name, type |-> type]
Module(records, callables, start) ==
    [records |-> records, callables |-> callables, start |-> start]

NamesOf(q) == {q[i].name : i \in DOMAIN q}
Named(q, name) == q[CHOOSE i \in DOMAIN q : q[i].name = name]

\* A dotted name, or None: the callee of a call.
RECURSIVE expr_path(_)
expr_path(e) ==
    CASE e.node = "name"  -> <<e.name>>
      [] e.node = "field" ->
            LET root == expr_path(e.object)
            IN  IF root = None THEN None ELSE Append(root, e.name)
      [] OTHER -> None
=============================================================================
