------------------------------- MODULE Verifier -------------------------------
(***************************************************************************)
(* The verifier of wmverifier: a sweep over the code of every function.    *)
(* The operands of the stack, the locals, and where in an instruction a    *)
(* jump lands, are not looked at.                                          *)
(***************************************************************************)
EXTENDS StandardHost, Bytecode

\* Wrong on purpose: an address at the end of the code is refused.
verify_op__EndIsOutside(p, code, d) ==
    CASE d.op = "PushConst" -> d.args[1] < Len(p.constants)
      [] d.op \in Branches  -> d.args[1] < Len(code)
      [] d.op = "Call"      -> d.args[1] \in DOMAIN p.functions
      [] d.op = "CallHost"  -> d.args[1] \in registry
      [] OTHER              -> TRUE

\* Wrong on purpose: constants are not looked at.
verify_op__AnyConstant(p, code, d) ==
    CASE d.op \in Branches  -> d.args[1] <= Len(code)
      [] d.op = "Call"      -> d.args[1] \in DOMAIN p.functions
      [] d.op = "CallHost"  -> d.args[1] \in registry
      [] OTHER              -> TRUE

verify_op(p, code, d) ==
    CASE d.op = "PushConst" -> d.args[1] < Len(p.constants)
      [] d.op \in Branches  -> d.args[1] <= Len(code)
      [] d.op = "Call"      -> d.args[1] \in DOMAIN p.functions
      [] d.op = "CallHost"  -> d.args[1] \in registry
      [] OTHER              -> TRUE

verify_function(p, code) ==
    \A pc \in Sweep(code) :
        LET d == decode_at(code, pc)
        IN  Decoded(d) /\ verify_op(p, code, d)

verify_program(p) ==
    /\ p.entry \in DOMAIN p.functions
    /\ \A id \in DOMAIN p.functions :
           verify_function(p, p.functions[id].code)
=============================================================================
