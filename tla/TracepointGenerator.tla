------------------------ MODULE TracepointGenerator -------------------------
(***************************************************************************)
(* tpgen.py: tracepoints with random fields, and the calls of them.        *)
(*                                                                         *)
(* The functions that add a field share the globals vars, fields and       *)
(* c_vars with the loop that writes a tracepoint.  The program is compiled *)
(* from three lists that have to agree: the expressions of the fields, the *)
(* arguments declared, and those of the call.  Names of fields are left    *)
(* out, and a value is reduced to the tracepoint it was drawn for and, for *)
(* the string, its length.                                                 *)
(***************************************************************************)
EXTENDS Integers, Sequences, SequencesExt

CONSTANTS
  NumTp,      \* the argument
  MaxFields,  \* how many fields a tracepoint has at most
  Lengths     \* how long the random string may be

ASSUME NumTpAssumption == NumTp \in Nat
ASSUME MaxFieldsAssumption == MaxFields \in Nat \ {0}
ASSUME LengthsAssumption == Lengths \subseteq Nat

(* The keys of c_vars, in the order in which they are sorted.              *)
Names ==
  <<"tp_charptr_1", "tp_charptr_1_size", "tp_double_1", "tp_double_2", "tp_float_1",
    "tp_float_2", "tp_int_1", "tp_int_2", "tp_long_1", "tp_long_2">>

Name == ToSet(Names)

Numeric ==
  [int |-> <<"tp_int_1", "tp_int_2">>, long |-> <<"tp_long_1", "tp_long_2">>,
   float |-> <<"tp_float_1", "tp_float_2">>, double |-> <<"tp_double_1", "tp_double_2">>]

VARIABLES
  pc,      \* where the loop is
  i,       \* its variable
  left,    \* the fields still to add
  vars,    \* the variables that the fields use
  fields,  \* the fields
  c_vars,  \* the random string, its size, and the tracepoint they are drawn for
  tps      \* the tracepoints written and called

tpgenVars == <<pc, i, left, vars, fields, c_vars, tps>>

NoString == [length |-> 0, size |-> 0, of |-> 0]

Init ==
  /\ pc = "next" /\ i = 1 /\ left = 0
  /\ vars = {} /\ fields = <<>> /\ c_vars = NoString /\ tps = <<>>

-----------------------------------------------------------------------------
(* Mutated: the variables of the tracepoint before are still there.        *)
OldVars == vars

NoVars == {}

(* Mutated: the size is that of the string with its quotes.                *)
QuotedSize(length) == [length |-> length, size |-> length + 2, of |-> i]

NewValues(length) == [length |-> length, size |-> length, of |-> i]

(* The head of the loop.                                                   *)
Begin ==
  /\ pc = "next" /\ i <= NumTp
  /\ vars' = NoVars /\ fields' = <<>>
  /\ \E length \in Lengths : c_vars' = NewValues(length)
  /\ left' \in 1 .. MaxFields
  /\ pc' = "fields"
  /\ UNCHANGED <<i, tps>>

(* One of the functions in fun: the field it adds, with its length if that *)
(* is a number, and the variables it uses.                                 *)
AddField(type, used, length) ==
  /\ vars' = vars \cup used
  /\ fields' = Append(fields, [type |-> type, used |-> used, length |-> length])

add_ctf_numeric ==
  \E type \in DOMAIN Numeric, n \in 1 .. 2 :
    AddField(type, {Numeric[type][k] : k \in 1 .. n}, 0)

add_ctf_string == AddField("string", {"tp_charptr_1"}, 0)

add_ctf_sequence == AddField("sequence", {"tp_charptr_1", "tp_charptr_1_size"}, 0)

add_ctf_array == AddField("array", {"tp_charptr_1"}, c_vars.size)

Field ==
  /\ pc = "fields" /\ left > 0
  /\ add_ctf_numeric \/ add_ctf_string \/ add_ctf_sequence \/ add_ctf_array
  /\ left' = left - 1
  /\ UNCHANGED <<pc, i, c_vars, tps>>

(* The order of strings, on names; and sort().                             *)
Before(a, b) == \E k, l \in DOMAIN Names : k < l /\ Names[k] = a /\ Names[l] = b

Ascending(s) == \A k, l \in DOMAIN s : k < l => Before(s[k], s[l])

Sorted(names) == CHOOSE s \in SetToSeqs(names) : Ascending(s)

(* Mutated: the call takes the variables in another order.                 *)
Unsorted(names) == Reverse(Sorted(names))

CallOrder(names) == Sorted(names)

Value(name) ==
  [name |-> name, of |-> c_vars.of,
   length |-> CASE name = "tp_charptr_1" -> c_vars.length
                [] name = "tp_charptr_1_size" -> c_vars.size
                [] OTHER -> 0]

(* The end of the loop: the file with the tracepoint, and its call.        *)
Write ==
  /\ pc = "fields" /\ left = 0
  /\ LET c_args == CallOrder(vars)
     IN  tps' = Append(tps, [fields |-> fields, tp_args |-> Sorted(vars),
                             c_args |-> [k \in DOMAIN c_args |-> Value(c_args[k])]])
  /\ i' = i + 1
  /\ pc' = "next"
  /\ UNCHANGED <<left, vars, fields, c_vars>>

(* generated_tp.h is written.                                              *)
Finished == pc = "next" /\ i > NumTp /\ UNCHANGED tpgenVars

Next == Begin \/ Field \/ Write \/ Finished

Spec == Init /\ [][Next]_tpgenVars

-----------------------------------------------------------------------------
(***************************************************************************)
(* Properties.                                                             *)
(***************************************************************************)
(* A tracepoint declares exactly what its fields use, once, and is called  *)
(* with values of its own for just those, in the same order.               *)
CallsMatch ==
  \A n \in DOMAIN tps :
    LET tp == tps[n]
    IN  /\ ToSet(tp.tp_args) = UNION {tp.fields[f].used : f \in DOMAIN tp.fields}
        /\ IsInjective(tp.tp_args)
        /\ tp.tp_args = [k \in DOMAIN tp.c_args |-> tp.c_args[k].name]
        /\ \A k \in DOMAIN tp.c_args : tp.c_args[k].of = n

(* An array is as long as the string that is passed for it, and a sequence *)
(* is passed the length of its string: neither is read beyond its end.     *)
LengthsMatch ==
  \A n \in DOMAIN tps :
    LET tp == tps[n]
        Passed(name) == {tp.c_args[k].length :
                           k \in {l \in DOMAIN tp.c_args : tp.c_args[l].name = name}}
    IN  \A f \in DOMAIN tp.fields :
          /\ tp.fields[f].type = "array" => Passed("tp_charptr_1") = {tp.fields[f].length}
          /\ tp.fields[f].type = "sequence" =>
               Passed("tp_charptr_1_size") = Passed("tp_charptr_1")

=============================================================================
