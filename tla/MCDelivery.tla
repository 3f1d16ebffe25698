------------------------------- MODULE MCDelivery -------------------------------
(* Delivery on small instances: a module and an asset with one id, assets of   *)
(* which two have one resource and one is too short; programs with nested      *)
(* constants, without and with the smallest and the largest entry.             *)
EXTENDS Delivery

Cell(v) == [unit |-> "cell", value |-> v]
Resource(id, size) == [unit |-> "resource", id |-> id, offset |-> 1, size |-> size]

Module(id, align, payload) == [id |-> id, kind |-> "Module", flags |-> 0, align |-> align,
                               hash |-> 0, payload |-> payload]
Asset(id, align, payload)  == [id |-> id, kind |-> "Asset", flags |-> 1, align |-> align,
                               hash |-> id, payload |-> payload]

Program(cell, constants) == [entry |-> 0, constants |-> constants,
                  functions |-> [id \in {0} |-> [args |-> 0, locals |-> 0, stack |-> 1,
                                                 code |-> <<Cell(cell)>>]]]

SmallTable == Table([k \in {0} |-> Integer(1)])

MCPushable ==
    {Module(2, 2, encode_binary(Program("ui", <<>>))), Module(4, 4, encode_binary(Program("engine", <<SmallTable>>))),
     Asset(3, 4, <<Resource(1, 1), Cell("d")>>), Asset(4, 0, <<Resource(1, 1), Cell("e")>>),
     Asset(5, 2, <<Resource(2, 0)>>), Asset(6, 4, <<>>)}

\* Constants of programs, with what they hold.
NestedArray == Array(<<Nil, Array(<<>>)>>)
NestedTable == Table([k \in {0, 2} |-> IF k = 0 THEN String("s") ELSE Array(<<Bool(TRUE)>>)])
MCConstantValue ==
    {Integer(1), Nil, Bool(TRUE), String("s"), SmallTable, Array(<<>>), Array(<<Bool(TRUE)>>),
     NestedArray, NestedTable}
MCNesting ==
    [v \in MCConstantValue |-> IF v \in {NestedArray, NestedTable} THEN 2
                               ELSE IF v.tag = "array" \/ v = SmallTable THEN 1 ELSE 0]

MCPrograms ==
    {[entry |-> e, constants |-> c, functions |-> f] :
        e \in {0, MaxId, NoEntry},
        c \in {<<>>, <<Integer(1), NestedArray>>, <<NestedTable>>},
        f \in {Nothing, [id \in {0, MaxId} |-> [args |-> id, locals |-> 1, stack |-> 2,
                                               code |-> IF id = 0 THEN <<>> ELSE <<Cell("x")>>]]}}

MCPackages ==
    {[manifest |-> [package |-> "p", seed |-> 7], capabilities |-> c, program |-> p,
      schema |-> <<Cell("s")>>, assets |-> a] :
        p \in MCPrograms,
        c \in {<<>>, <<[unit |-> "capability", name |-> "gui"]>>},
        a \in {<<>>,
               <<[id |-> 1, kind |-> "Data", name |-> "m", units |-> <<>>]>>,
               <<[id |-> 2, kind |-> "Data", name |-> "m", units |-> <<Cell("u")>>],
                 [id |-> 1, kind |-> "Image", name |-> "n", units |-> <<>>]>>,
               <<[id |-> 1, kind |-> "Data", name |-> "m", units |-> <<>>],
                 [id |-> 2, kind |-> "Data", name |-> "m", units |-> <<>>]>>}}
=============================================================================
