------------------------------ MODULE Datatypes ------------------------------
(***************************************************************************)
(* The table of datatypes (ast.c:1-34, 147-190; main.c:725-761) and the    *)
(* rules that compare two of its entries (type_checking.c:1-58).  A type   *)
(* is known by its id, the index of its entry; 0 is the invalid type.  The *)
(* table only grows: types that refer to others are appended when they are *)
(* first met.                                                              *)
(***************************************************************************)
EXTENDS Naturals, Sequences, FiniteSets

Integer(name, unsigned, size) ==
  [kind |-> "integer", unsigned |-> unsigned, ref |-> 0, name |-> name, size |-> size]
Base(kind, name, size) ==
  [kind |-> kind, unsigned |-> FALSE, ref |-> 0, name |-> name, size |-> size]

(* What main appends before anything is parsed.                            *)
BaseTypes ==
  << Base("void", "void", 0), Base("boolean", "bool", 1),
     Integer("s8", FALSE, 1), Integer("s16", FALSE, 2),
     Integer("s32", FALSE, 4), Integer("s64", FALSE, 8),
     Integer("u8", TRUE, 1), Integer("u16", TRUE, 2),
     Integer("u32", TRUE, 4), Integer("u64", TRUE, 8),
     Base("float", "f32", 4), Base("float", "f64", 8), Base("string", "string", 16) >>

Datatype ==
  [kind : {"void", "boolean", "integer", "float", "string", "pointer"},
   unsigned : BOOLEAN, ref : Nat, name : STRING, size : Nat]

(* get_datatype answers a null pointer for any other id.                   *)
IsDatatype(table, id) == id \in DOMAIN table

(* The first entry that is as asked for, 0 if there is none.               *)
FirstEntry(table, Wanted(_)) ==
  LET found == {i \in DOMAIN table : Wanted(table[i])}
  IN  IF found = {} THEN 0 ELSE CHOOSE i \in found : \A j \in found : i <= j

FindByName(table, name) == FirstEntry(table, LAMBDA d : d.name = name)

FindByKindAndReference(table, kind, ref) ==
  FirstEntry(table, LAMBDA d : d.kind = kind /\ d.ref = ref)

(* Mutant: appended every time.                                            *)
WithNewPointerTo(table, ref) ==
  Append(table, [kind |-> "pointer", unsigned |-> FALSE, ref |-> ref,
                 name |-> "*", size |-> 8])

(* The table with a pointer to type ref, and the id of that type.          *)
WithPointerTo(table, ref) ==
  IF FindByKindAndReference(table, "pointer", ref) # 0 THEN table
  ELSE Append(table, [kind |-> "pointer", unsigned |-> FALSE, ref |-> ref,
                      name |-> "*", size |-> 8])

PointerTo(table, ref) ==
  FindByKindAndReference(WithPointerTo(table, ref), "pointer", ref)

Void == FindByName(BaseTypes, "void")
Bool == FindByName(BaseTypes, "bool")
String == FindByName(BaseTypes, "string")
U8 == FindByName(BaseTypes, "u8")
U64 == FindByName(BaseTypes, "u64")
S64 == FindByName(BaseTypes, "s64")
F32 == FindByName(BaseTypes, "f32")

IsInteger(table, id) == IsDatatype(table, id) /\ table[id].kind = "integer"

(* The answers of the comparisons: most pairs of kinds end in              *)
(* assert(!"not implemented"), an invalid type in a null pointer.          *)
Answers == {"yes", "no", "not_implemented", "null"}

(* Mutant: an integer may also be narrowed.                                *)
CanNarrowTo(table, from, to) ==
  IF from = to \/ (IsInteger(table, from) /\ IsInteger(table, to)) THEN "yes"
  ELSE IF ~ IsDatatype(table, from) \/ ~ IsDatatype(table, to) THEN "null"
  ELSE IF table[from].kind = "pointer" /\ table[to].kind = "pointer" THEN
    (IF table[table[to].ref].kind = "void" THEN "yes" ELSE "no")
  ELSE "not_implemented"

CanImplicitlyCastTo(table, from, to) ==
  IF from = to THEN "yes"
  ELSE IF ~ IsDatatype(table, from) \/ ~ IsDatatype(table, to) THEN "null"
  ELSE LET f == table[from]
           t == table[to]
       IN  CASE f.kind = "integer" /\ t.kind = "integer" ->
                  IF (~ t.unsigned \/ f.unsigned) /\ t.size > f.size THEN "yes" ELSE "no"
             [] f.kind = "pointer" /\ t.kind = "pointer" ->
                  IF table[t.ref].kind = "void" THEN "yes" ELSE "no"
             [] OTHER -> "not_implemented"

(* || in C: the second cast is only asked for after a "no".                *)
CanImplicitlyCastEitherWay(table, left, right) ==
  LET answer == CanImplicitlyCastTo(table, left, right)
  IN  IF answer = "no" THEN CanImplicitlyCastTo(table, right, left) ELSE answer

CanCastTo(table, from, to) ==
  IF from = to THEN "yes"
  ELSE IF ~ IsDatatype(table, from) \/ ~ IsDatatype(table, to) THEN "null"
  ELSE IF IsInteger(table, from) /\ IsInteger(table, to) THEN "yes"
  ELSE "not_implemented"

-----------------------------------------------------------------------------
(* Integer literals.  Of a value the model keeps the sign, the number of   *)
(* bits of its magnitude and whether that is a power of two: enough to say *)
(* exactly which of the integer types hold it.                             *)

Literal == [negative : BOOLEAN, bits : 0 .. 64, power : BOOLEAN]

Magnitude(bits, power) == [negative |-> FALSE, bits |-> bits, power |-> power]

(* 0, 1, 2, 4, 8 and 16, the sizes of types.                               *)
SizeAsLiteral(size) ==
  Magnitude(CHOOSE b \in 0 .. 5 : size = (IF b = 0 THEN 0 ELSE 2 ^ (b - 1)), size # 0)

Negated(v) == [v EXCEPT !.negative = v.bits # 0 /\ ~ v.negative]

(* The comparisons with min_value_s64, max_value_s64 and max_value_u64.    *)
Fits(v, type) ==
  LET bits == 8 * type.size
  IN  CASE type.unsigned -> ~ v.negative /\ v.bits <= bits
        [] ~ type.unsigned /\ v.negative -> v.bits < bits \/ (v.bits = bits /\ v.power)
        [] OTHER -> v.bits < bits

(* Type of an integer literal of type own where preferred is asked for.    *)
LiteralType(table, value, own, preferred) ==
  IF Fits(value, table[preferred]) THEN preferred ELSE own
=============================================================================
