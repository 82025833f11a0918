-------------------------- MODULE MCCompiledValues --------------------------
(***************************************************************************)
(* CompiledValues for TLC: bytes of four values, so that the largest       *)
(* number of 8 bytes is 65535.  What the contexts mean is kept in the      *)
(* variable calls, so that TLC computes it once per state.                 *)
(***************************************************************************)
EXTENDS CompiledValues

Sizes ==
  [s8 |-> 1, u8 |-> 1, u16 |-> 2, s32 |-> 4, s64 |-> 8, u64 |-> 8, pointer |-> 8,
   bool |-> 1, string |-> 16, void |-> 0]

MembersOfStrings == [count |-> "s64", data |-> "pointer"]

SomeFunctions ==
  [main |-> [params |-> <<>>, returns |-> "void"],
   exit |-> [params |-> <<"s32">>, returns |-> "void"],
   write |-> [params |-> <<"s32", "pointer", "u64">>, returns |-> "s64"],
   first |-> [params |-> <<"s8", "s64">>, returns |-> "s8"],
   next |-> [params |-> <<"u8">>, returns |-> "u8"],
   print |-> [params |-> <<"string">>, returns |-> "void"]]

Value(t, n) == [type |-> t, value |-> n]
Text == Value("string", [count |-> 3, data |-> 4099])

Scenario(variables, literals, functions, n) ==
  [variables |-> variables, literals |-> literals, calls |-> functions, nodes |-> n]

(* Values at the ends of the ranges of their types, operands of several    *)
(* widths in a call, and the calls of the system as the libraries make     *)
(* them.                                                                   *)
SomeScenarios ==
  {Scenario(<<Value("s8", -2), Value("u8", 3)>>,
            {Value("s8", 1), Value("s8", -2), Value("u8", 2), Value("bool", 1)}, {}, 4),
   Scenario(<<Value("s64", -300), Value("s32", -100)>>,
            {Value("s64", 200), Value("s64", -65), Value("s32", 127), Value("u16", 9)},
            {"exit"}, 4),
   Scenario(<<Value("s8", -2), Value("s64", 257)>>, {}, {"first"}, 6),
   Scenario(<<Value("u8", 3)>>, {Value("u8", 2)}, {"next"}, 6),
   Scenario(<<Text>>, {Text}, {"print"}, 5),
   Scenario(<<Value("s32", 1), Text, Value("u64", 2)>>, {}, {"write"}, 5)}

(* How many nodes the open constructs of a call lack at least: operands    *)
(* that are missing, and operators for those that are too many.            *)
Lacking(c) ==
  LET levels == Len(c.open)
      base(j) == IF j = 0 THEN 0 ELSE c.open[j].base
      end(j) == IF j = levels THEN Len(c.operands) ELSE c.open[j + 1].base
      given(j) == end(j) - base(j)
                  + (IF j < levels /\ c.open[j + 1].construct \in {"call", "member"} THEN 1 ELSE 0)
      wanted(j) ==
        IF j = 0 \/ c.open[j].construct \in Blocks THEN (IF given(j) = 0 THEN 0 ELSE 1)
        ELSE IF c.open[j].construct = "call" THEN Len(Functions[c.open[j].of].params) ELSE 1
      distance(j) == IF given(j) > wanted(j) THEN given(j) - wanted(j) ELSE wanted(j) - given(j)
      lacking[j \in 0 .. levels] == distance(j) + (IF j = 0 THEN 0 ELSE lacking[j - 1])
  IN  lacking[levels]

(* Only what can be completed within the bound on nodes is begun.          *)
Completable == Running => nodes + Lacking(Last(contexts)) <= scenario.nodes

VARIABLE calls

Numbers == UNION {s.literals : s \in Scenarios}

MCInit == Init /\ calls = Meaning
MCNext == Next /\ Completable' /\ \E meaning \in {Meaning'} : calls' = meaning
MCSpec == MCInit /\ [][MCNext]_<<vars, calls>>

Source == INSTANCE SourceValues WITH Literals <- Numbers

(* The code of both backends computes what the program means: whatever     *)
(* was on the stack before and is in the registers, every operand and      *)
(* variable has its value in its slot, arguments and results pass between  *)
(* calls, conditions choose their branch, returns arrive, and the system   *)
(* gets its arguments.                                                     *)
ComputesTheProgram == Source!SourceInit /\ [][Source!SourceNext]_<<calls, request, node>>
=============================================================================
