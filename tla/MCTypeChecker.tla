--------------------------- MODULE MCTypeChecker ----------------------------
(***************************************************************************)
(* TypeChecker for TLC.  The language is cut into parts that are checked   *)
(* to a greater depth than all of it together can be.                      *)
(***************************************************************************)
EXTENDS TypeChecker

Function(name, params, returns) == [name |-> name, params |-> params, returns |-> returns]
Program(functions, nodes, types, constructs) ==
  [functions |-> functions, nodes |-> nodes, types |-> types, constructs |-> constructs]

F == Function("f", <<>>, FALSE)
OneParameter == Function("g", <<"x">>, TRUE)

Everything ==
  Program(<<F>>, 5, {"s8", "u8", "s64", "unknown"},
          StatementKinds \cup ExpressionKinds \cup TypeKinds)
Scopes ==
  Program(<<Function("f", <<"x">>, FALSE)>>, 9, {"s8"},
          {"declaration", "for", "block", "identifier", "named", "boolean"})
Signatures ==
  {Program(<<F, OneParameter>>, 9, {"s8", "s64"},
           {"call", "integer", "named", "pointer", "type_of", "assign"}),
   Program(<<Function("g", <<>>, TRUE), Function("f", <<"x">>, TRUE)>>, 10, {"s8"},
           {"call", "identifier", "named", "type_of", "assign"})}
Operators ==
  Program(<<F>>, 7, {"s8", "u8", "s64"},
          {"declaration", "return", "integer", "identifier", "named",
           "compare", "arithmetic", "minus", "size_of", "cast"})

AllPrograms == {Everything, Scopes, Operators} \cup Signatures

(* 200, which is an u8 but no s8.                                          *)
Literal200 == {Magnitude(8, FALSE)}
=============================================================================
