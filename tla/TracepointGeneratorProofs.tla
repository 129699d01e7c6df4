--------------------- MODULE TracepointGeneratorProofs ---------------------
(***************************************************************************)
(* Theorems about module TracepointGenerator.                              *)
(***************************************************************************)
EXTENDS TracepointGenerator, FiniteSetTheorems, SequenceTheorems, TLAPS

LEMMA TenNames ==
  /\ Len(Names) = 10 /\ DOMAIN Names = 1 .. 10
  /\ Name = {Names[k] : k \in 1 .. 10}
  /\ \A k, l \in 1 .. 10 : Names[k] = Names[l] => k = l
BY DEF Names, Name, ToSet

LEMMA UsedAreNames ==
  /\ "tp_charptr_1" \in Name /\ "tp_charptr_1_size" \in Name
  /\ \A type \in DOMAIN Numeric, k \in 1 .. 2 : Numeric[type][k] \in Name
BY DEF Names, Name, Numeric, ToSet

(***************************************************************************)
(* Every set of names can be sorted: by induction on the last of them.     *)
(***************************************************************************)
First(k) == {Names[l] : l \in 1 .. k}

LEMMA NamesAreFinite ==
  ASSUME NEW S \in SUBSET Name
  PROVE  IsFiniteSet(S)
<1>1. Names \in Surjection(1 .. 10, Name)
  BY TenNames DEF Names, Surjection
<1>2. IsFiniteSet(Name)
  <2>1. 1 \in Int /\ 10 \in Int
    OBVIOUS
  <2>2. IsFiniteSet(1 .. 10)
    BY <2>1, FS_Interval, Zenon
  <2>. QED BY <1>1, <2>2, FS_Surjection
<1>. QED BY <1>2, FS_Subset

LEMMA SortableStep ==
  ASSUME NEW k \in 0 .. 9,
         \A S \in SUBSET First(k) : \E s \in SetToSeqs(S) : Ascending(s),
         NEW S \in SUBSET First(k + 1)
  PROVE  \E s \in SetToSeqs(S) : Ascending(s)
<1>. DEFINE x == Names[k + 1]
            T == S \ {x}
            n == Cardinality(T)
<1>1. T \in SUBSET First(k) /\ S \in SUBSET Name
  BY TenNames DEF First
<1>2. IsFiniteSet(S) /\ IsFiniteSet(T) /\ n \in Nat
  BY <1>1, NamesAreFinite, FS_CardinalityType, FS_Subset
<1>3. CASE x \notin S
  BY <1>1, <1>3
<1>4. CASE x \in S
  <2>1. PICK s \in SetToSeqs(T) : Ascending(s)
    BY <1>1
  <2>2. /\ s \in [1 .. n -> T]
        /\ \A j, l \in 1 .. n : j # l => s[j] # s[l]
    BY <2>1 DEF SetToSeqs
  <2>3. Cardinality(S) = n + 1
    BY <1>2, <1>4, FS_RemoveElement, FS_CardinalityType
  <2>. HIDE DEF n
  <2>. DEFINE t == [j \in 1 .. (n + 1) |-> IF j = n + 1 THEN x ELSE s[j]]
  <2>4. \A j \in 1 .. n : t[j] = s[j] /\ s[j] \in T
    BY <1>2, <2>2
  <2>5. t[n + 1] = x
    BY <1>2
  <2>6. DOMAIN t = 1 .. (n + 1)
    OBVIOUS
  <2>. HIDE DEF t
  <2>7. t \in SetToSeqs(S)
    <3>1. t \in [1 .. (n + 1) -> S]
      BY <1>2, <1>4, <2>2 DEF t
    <3>2. ASSUME NEW j \in 1 .. (n + 1), NEW l \in 1 .. (n + 1), j # l
          PROVE  t[j] # t[l]
      BY <1>2, <2>2, <2>4, <2>5, <3>2
    <3>. QED BY <2>3, <3>1, <3>2 DEF SetToSeqs
  <2>8. ASSUME NEW j \in 1 .. (n + 1), NEW l \in 1 .. (n + 1), j < l
        PROVE  Before(t[j], t[l])
    <3>1. CASE l \in 1 .. n
      BY <1>2, <2>1, <2>2, <2>4, <2>8, <3>1 DEF Ascending
    <3>2. CASE l = n + 1
      <4>1. j \in 1 .. n
        BY <1>2, <2>8, <3>2
      <4>2. PICK m \in 1 .. k : t[j] = Names[m]
        BY <1>1, <2>4, <4>1 DEF First
      <4>. QED BY <2>5, <3>2, <4>2, TenNames DEF Before
    <3>. QED BY <1>2, <3>1, <3>2
  <2>. QED BY <2>6, <2>7, <2>8 DEF Ascending
<1>. QED BY <1>3, <1>4

LEMMA Sortable ==
  ASSUME NEW S \in SUBSET Name
  PROVE  \E s \in SetToSeqs(S) : Ascending(s)
<1>. DEFINE P == {k \in 0 .. 10 : \A U \in SUBSET First(k) :
                                     \E s \in SetToSeqs(U) : Ascending(s)}
<1>1. 0 \in P
  <2>1. SUFFICES ASSUME NEW U \in SUBSET First(0)
                 PROVE  \E s \in SetToSeqs(U) : Ascending(s)
    OBVIOUS
  <2>2. U = {} /\ Cardinality(U) = 0
    BY FS_EmptySet DEF First
  <2>3. <<>> \in SetToSeqs(U) /\ Ascending(<<>>)
    BY <2>2 DEF SetToSeqs, Ascending
  <2>. QED BY <2>3
<1>2. ASSUME NEW k \in 0 .. 9, k \in P PROVE k + 1 \in P
  BY <1>2, SortableStep
<1>3. 10 \in P
  <2>. HIDE DEF P
  <2>. QED BY <1>1, <1>2
<1>. QED BY <1>3, TenNames DEF First

(* What list.sort() makes of a set of names: all of them, each once.       *)
LEMMA SortedIs ==
  ASSUME NEW S \in SUBSET Name
  PROVE  LET s == Sorted(S)
         IN  /\ s \in [1 .. Cardinality(S) -> S]
             /\ ToSet(s) = S /\ IsInjective(s)
             /\ Cardinality(S) \in Nat
<1>1. PICK s : s = Sorted(S)
  OBVIOUS
<1>. DEFINE n == Cardinality(S)
<1>2. IsFiniteSet(S) /\ n \in Nat
  BY NamesAreFinite, FS_CardinalityType
<1>3. s \in SetToSeqs(S)
  BY <1>1, Sortable DEF Sorted
<1>4. s \in [1 .. n -> S] /\ \A j, l \in 1 .. n : j # l => s[j] # s[l]
  BY <1>3 DEF SetToSeqs
<1>5. s \in Injection(1 .. n, S)
  BY <1>4 DEF Injection, IsInjective
<1>6. Cardinality(1 .. n) = n
  BY <1>2, FS_Interval
<1>7. s \in Surjection(1 .. n, S)
  BY <1>2, <1>5, <1>6, FS_Injection
<1>8. ToSet(s) = S
  BY <1>4, <1>7 DEF Surjection, ToSet
<1>. QED BY <1>1, <1>2, <1>4, <1>5, <1>8 DEF Injection

-----------------------------------------------------------------------------
(***************************************************************************)
(* The invariant.                                                          *)
(***************************************************************************)
FieldSet == [type : {"string", "sequence", "array"} \cup DOMAIN Numeric,
             used : SUBSET Name, length : Nat]

ValueSet == [name : Name, of : Nat, length : Nat]

Tracepoint ==
  [fields : Seq(FieldSet), tp_args : Seq(Name), c_args : Seq(ValueSet)]

(* A field of a tracepoint whose string has this length.                   *)
FieldOK(field, length) ==
  /\ field.type = "array" => field.length = length /\ "tp_charptr_1" \in field.used
  /\ field.type = "sequence" => {"tp_charptr_1", "tp_charptr_1_size"} \subseteq field.used

(* A value passed for tracepoint n, with a string of this length.          *)
ValueOK(value, n, length) ==
  /\ value.of = n
  /\ value.name \in {"tp_charptr_1", "tp_charptr_1_size"} => value.length = length

Used(fs) == UNION {fs[f].used : f \in DOMAIN fs}

TypeInv ==
  /\ pc \in {"next", "fields"} /\ i \in Nat \ {0}
  /\ fields \in Seq(FieldSet) /\ c_vars \in [length : Nat, size : Nat, of : Nat]
  /\ tps \in Seq(Tracepoint) /\ Len(tps) = i - 1

(* The tracepoint in the making.                                           *)
CurrentInv ==
  pc = "fields" =>
    /\ c_vars.of = i /\ c_vars.size = c_vars.length
    /\ vars = Used(fields)
    /\ \A f \in 1 .. Len(fields) : FieldOK(fields[f], c_vars.length)

TracepointOK(tp, n) ==
  /\ tp.tp_args = Sorted(Used(tp.fields))
  /\ tp.tp_args = [k \in 1 .. Len(tp.c_args) |-> tp.c_args[k].name]
  /\ \E length \in Nat :
       /\ \A f \in 1 .. Len(tp.fields) : FieldOK(tp.fields[f], length)
       /\ \A k \in 1 .. Len(tp.c_args) : ValueOK(tp.c_args[k], n, length)

WrittenInv == \A n \in 1 .. Len(tps) : TracepointOK(tps[n], n)

Inv == TypeInv /\ CurrentInv /\ WrittenInv

LEMMA InitInv ==
  ASSUME Init
  PROVE  Inv
<1>1. TypeInv
  BY EmptySeq DEF Init, TypeInv, NoString
<1>2. CurrentInv /\ WrittenInv
  BY DEF Init, CurrentInv, WrittenInv
<1>. QED BY <1>1, <1>2 DEF Inv

LEMMA BeginStep ==
  ASSUME Inv, Begin
  PROVE  Inv'
<1>1. PICK length \in Nat : c_vars' = [length |-> length, size |-> length, of |-> i]
  BY LengthsAssumption DEF Begin, NewValues
<1>2. fields' = <<>> /\ Len(fields') = 0 /\ DOMAIN fields' = {} /\ fields' \in Seq(FieldSet)
  BY EmptySeq DEF Begin
<1>3. TypeInv'
  BY <1>1, <1>2 DEF Inv, TypeInv, Begin
<1>4. CurrentInv'
  BY <1>1, <1>2 DEF CurrentInv, Begin, NoVars, Used
<1>5. WrittenInv'
  BY DEF Inv, WrittenInv, Begin
<1>. QED BY <1>3, <1>4, <1>5 DEF Inv

(* What any of the functions in fun adds.                                  *)
LEMMA FieldAdded ==
  ASSUME Inv, Field
  PROVE  \E field \in FieldSet :
           /\ FieldOK(field, c_vars.length)
           /\ fields' = Append(fields, field) /\ vars' = vars \cup field.used
<1>. SUFFICES ASSUME NEW type \in {"string", "sequence", "array"} \cup DOMAIN Numeric,
                     NEW used \in SUBSET Name, NEW length \in Nat,
                     AddField(type, used, length),
                     type = "array" => length = c_vars.length /\ "tp_charptr_1" \in used,
                     type = "sequence" => {"tp_charptr_1", "tp_charptr_1_size"} \subseteq used
              PROVE  \E field \in FieldSet :
                       /\ FieldOK(field, c_vars.length)
                       /\ fields' = Append(fields, field) /\ vars' = vars \cup field.used
  <2>1. CASE add_ctf_numeric
    <3>1. PICK type \in DOMAIN Numeric, n \in 1 .. 2 :
                 AddField(type, {Numeric[type][k] : k \in 1 .. n}, 0)
      BY <2>1 DEF add_ctf_numeric
    <3>2. {Numeric[type][k] : k \in 1 .. n} \in SUBSET Name
      BY UsedAreNames
    <3>3. type # "array" /\ type # "sequence"
      BY DEF Numeric
    <3>. QED BY <3>1, <3>2, <3>3
  <2>2. CASE add_ctf_string
    BY <2>2, UsedAreNames DEF add_ctf_string
  <2>3. CASE add_ctf_sequence
    BY <2>3, UsedAreNames DEF add_ctf_sequence
  <2>4. CASE add_ctf_array
    BY <2>4, UsedAreNames DEF add_ctf_array, Inv, TypeInv, CurrentInv, Field
  <2>. QED BY <2>1, <2>2, <2>3, <2>4 DEF Field
<1>1. PICK field : field = [type |-> type, used |-> used, length |-> length]
  OBVIOUS
<1>2. field \in FieldSet /\ field.used = used
  BY <1>1 DEF FieldSet
<1>3. FieldOK(field, c_vars.length)
  BY <1>1 DEF FieldOK
<1>. QED BY <1>1, <1>2, <1>3 DEF AddField

LEMMA FieldStep ==
  ASSUME Inv, Field
  PROVE  Inv'
<1>1. PICK field \in FieldSet :
             /\ FieldOK(field, c_vars.length)
             /\ fields' = Append(fields, field) /\ vars' = vars \cup field.used
  BY FieldAdded
<1>2. /\ fields' \in Seq(FieldSet) /\ Len(fields) \in Nat
      /\ Len(fields') = Len(fields) + 1 /\ fields'[Len(fields) + 1] = field
      /\ \A f \in 1 .. Len(fields) : fields'[f] = fields[f]
  BY <1>1, AppendProperties, LenProperties DEF Inv, TypeInv
<1>3. DOMAIN fields = 1 .. Len(fields) /\ DOMAIN fields' = 1 .. Len(fields')
  BY <1>2, LenProperties DEF Inv, TypeInv
<1>4. UNCHANGED <<pc, i, c_vars, tps>> /\ pc = "fields"
  BY DEF Field
<1>5. TypeInv'
  BY <1>2, <1>4 DEF Inv, TypeInv
<1>6. Used(fields') = Used(fields) \cup field.used
  BY <1>2, <1>3 DEF Used
<1>7. \A f \in 1 .. Len(fields') : FieldOK(fields'[f], c_vars'.length)
  BY <1>1, <1>2, <1>4 DEF Inv, CurrentInv
<1>8. CurrentInv'
  BY <1>1, <1>4, <1>6, <1>7 DEF Inv, CurrentInv
<1>9. WrittenInv'
  BY <1>4 DEF Inv, WrittenInv
<1>. QED BY <1>5, <1>8, <1>9 DEF Inv

(* The variables that the fields use are names.                            *)
LEMMA UsedNames ==
  ASSUME NEW fs \in Seq(FieldSet)
  PROVE  Used(fs) \in SUBSET Name
<1>1. \A f \in DOMAIN fs : fs[f] \in FieldSet
  BY LenProperties
<1>2. \A field \in FieldSet : field.used \in SUBSET Name
  BY DEF FieldSet
<1>. QED BY <1>1, <1>2 DEF Used

LEMMA ValueIs ==
  ASSUME NEW name \in Name, NEW length \in Nat, c_vars.length = length,
         c_vars.size = length, NEW n \in Nat, c_vars.of = n
  PROVE  LET value == Value(name)
         IN  value \in ValueSet /\ value.name = name /\ ValueOK(value, n, length)
<1>. DEFINE passed == CASE name = "tp_charptr_1" -> c_vars.length
                        [] name = "tp_charptr_1_size" -> c_vars.size
                        [] OTHER -> 0
<1>1. passed \in Nat
  OBVIOUS
<1>2. name \in {"tp_charptr_1", "tp_charptr_1_size"} => passed = length
  OBVIOUS
<1>3. Value(name) = [name |-> name, of |-> n, length |-> passed]
  BY DEF Value
<1>. HIDE DEF passed
<1>. QED BY <1>1, <1>2, <1>3 DEF ValueSet, ValueOK

LEMMA WriteStep ==
  ASSUME Inv, Write
  PROVE  Inv'
<1>. DEFINE c_args == CallOrder(vars)
<1>1. PICK tp : /\ tps' = Append(tps, tp)
                /\ tp = [fields |-> fields, tp_args |-> Sorted(vars),
                         c_args |-> [k \in DOMAIN c_args |-> Value(c_args[k])]]
  BY DEF Write
<1>. DEFINE n == Cardinality(vars)
<1>2. PICK names : /\ names = Sorted(vars) /\ names = CallOrder(vars)
                   /\ n \in Nat /\ names \in [1 .. n -> Name]
  <2>1. vars \in SUBSET Name
    BY UsedNames DEF Inv, TypeInv, CurrentInv, Write
  <2>2. Cardinality(vars) \in Nat /\ Sorted(vars) \in [1 .. Cardinality(vars) -> vars]
    BY <2>1, SortedIs
  <2>3. Sorted(vars) \in [1 .. Cardinality(vars) -> Name]
    BY <2>1, <2>2
  <2>. QED BY <2>2, <2>3 DEF CallOrder
<1>. HIDE DEF n
<1>3. names \in Seq(Name) /\ Len(names) = n
  BY <1>2, SeqDef, LenProperties
<1>4. PICK values : values = [k \in 1 .. n |-> Value(names[k])]
  OBVIOUS
<1>5. /\ c_vars.length \in Nat /\ i \in Nat
      /\ c_vars.size = c_vars.length /\ c_vars.of = i
      /\ pc = "fields"
  BY DEF Inv, TypeInv, CurrentInv, Write
<1>6. \A k \in 1 .. n : /\ values[k] \in ValueSet /\ values[k].name = names[k]
                        /\ ValueOK(values[k], i, c_vars.length)
  BY <1>2, <1>4, <1>5, ValueIs
<1>7. values \in Seq(ValueSet) /\ Len(values) = n
  <2>1. values \in [1 .. n -> ValueSet]
    BY <1>4, <1>6
  <2>. QED BY <2>1, <1>2, SeqDef, LenProperties
<1>8. tp = [fields |-> fields, tp_args |-> names, c_args |-> values]
  BY <1>1, <1>2, <1>4
<1>9. tp.fields = fields /\ tp.tp_args = names /\ tp.c_args = values
  BY <1>8
<1>10. tp \in Tracepoint
  BY <1>3, <1>7, <1>8 DEF Tracepoint, Inv, TypeInv
<1>11. /\ tps' \in Seq(Tracepoint) /\ Len(tps') = Len(tps) + 1
       /\ tps'[Len(tps) + 1] = tp
       /\ \A k \in 1 .. Len(tps) : tps'[k] = tps[k]
  BY <1>1, <1>10, AppendProperties DEF Inv, TypeInv
<1>12. TypeInv'
  BY <1>11 DEF Inv, TypeInv, Write
<1>13. TracepointOK(tp, i)
  <2>1. names = [k \in 1 .. n |-> names[k]]
    BY <1>2
  <2>2. names = [k \in 1 .. n |-> values[k].name]
    BY <2>1, <1>6, Zenon
  <2>3. names = Sorted(Used(fields))
    BY <1>2 DEF Inv, CurrentInv, Write
  <2>4. \A f \in 1 .. Len(fields) : FieldOK(fields[f], c_vars.length)
    BY <1>5 DEF Inv, CurrentInv
  <2>. QED BY <1>5, <1>6, <1>7, <1>9, <2>2, <2>3, <2>4, Zenon DEF TracepointOK
<1>14. WrittenInv'
  BY <1>11, <1>13 DEF Inv, TypeInv, WrittenInv
<1>15. CurrentInv'
  BY DEF CurrentInv, Write
<1>. QED BY <1>12, <1>14, <1>15 DEF Inv

THEOREM InvCorrect == Spec => []Inv
<1>1. Init => Inv
  BY InitInv
<1>2. Inv /\ [Next]_tpgenVars => Inv'
  <2>. SUFFICES ASSUME Inv, [Next]_tpgenVars PROVE Inv'
    OBVIOUS
  <2>1. CASE UNCHANGED tpgenVars
    BY <2>1 DEF tpgenVars, Inv, TypeInv, CurrentInv, WrittenInv
  <2>. QED BY <2>1, BeginStep, FieldStep, WriteStep DEF Next, Finished
<1>. QED BY <1>1, <1>2, PTL DEF Spec

-----------------------------------------------------------------------------
(***************************************************************************)
(* The properties.                                                         *)
(***************************************************************************)
LEMMA CallMatches ==
  ASSUME NEW tp \in Tracepoint, NEW n \in Nat, TracepointOK(tp, n)
  PROVE  /\ ToSet(tp.tp_args) = UNION {tp.fields[f].used : f \in DOMAIN tp.fields}
         /\ IsInjective(tp.tp_args)
         /\ tp.tp_args = [k \in DOMAIN tp.c_args |-> tp.c_args[k].name]
         /\ \A k \in DOMAIN tp.c_args : tp.c_args[k].of = n
<1>1. DOMAIN tp.c_args = 1 .. Len(tp.c_args) /\ tp.fields \in Seq(FieldSet)
  BY LenProperties DEF Tracepoint
<1>2. ToSet(tp.tp_args) = Used(tp.fields) /\ IsInjective(tp.tp_args)
  BY <1>1, UsedNames, SortedIs DEF TracepointOK
<1>. QED BY <1>1, <1>2 DEF TracepointOK, ValueOK, Used

(* The loop of tpgen.py and gen_tp(): every tracepoint declares exactly    *)
(* the variables of its own fields, each once, and its call passes values  *)
(* drawn for this tracepoint, for those variables, in the same order.      *)
THEOREM CallsMatchCorrect == Spec => []CallsMatch
<1>1. Inv => CallsMatch
  <2>. SUFFICES ASSUME Inv, NEW n \in DOMAIN tps
                PROVE  LET tp == tps[n]
                       IN  /\ ToSet(tp.tp_args)
                                = UNION {tp.fields[f].used : f \in DOMAIN tp.fields}
                           /\ IsInjective(tp.tp_args)
                           /\ tp.tp_args = [k \in DOMAIN tp.c_args |-> tp.c_args[k].name]
                           /\ \A k \in DOMAIN tp.c_args : tp.c_args[k].of = n
    BY DEF CallsMatch
  <2>1. n \in 1 .. Len(tps) /\ n \in Nat /\ tps[n] \in Tracepoint
    BY LenProperties DEF Inv, TypeInv
  <2>2. TracepointOK(tps[n], n)
    BY <2>1 DEF Inv, WrittenInv
  <2>. QED BY <2>1, <2>2, CallMatches
<1>. QED BY <1>1, InvCorrect, PTL

LEMMA LengthsFit ==
  ASSUME NEW tp \in Tracepoint, NEW n \in Nat, TracepointOK(tp, n),
         NEW f \in DOMAIN tp.fields
  PROVE  LET Passed(name) ==
               {tp.c_args[k].length : k \in {l \in DOMAIN tp.c_args : tp.c_args[l].name = name}}
         IN  /\ tp.fields[f].type = "array" => Passed("tp_charptr_1") = {tp.fields[f].length}
             /\ tp.fields[f].type = "sequence" =>
                  Passed("tp_charptr_1_size") = Passed("tp_charptr_1")
<1>1. DOMAIN tp.c_args = 1 .. Len(tp.c_args) /\ f \in 1 .. Len(tp.fields)
  BY LenProperties DEF Tracepoint
<1>2. PICK length \in Nat :
        /\ \A k \in 1 .. Len(tp.c_args) : ValueOK(tp.c_args[k], n, length)
        /\ FieldOK(tp.fields[f], length)
  BY <1>1 DEF TracepointOK
<1>. DEFINE Passed(name) ==
       {tp.c_args[k].length : k \in {l \in DOMAIN tp.c_args : tp.c_args[l].name = name}}
<1>3. ASSUME NEW name \in {"tp_charptr_1", "tp_charptr_1_size"} \cap tp.fields[f].used
      PROVE  Passed(name) = {length}
  <2>1. name \in ToSet(tp.tp_args)
    <3>1. ToSet(tp.tp_args) = UNION {tp.fields[g].used : g \in DOMAIN tp.fields}
      BY CallMatches
    <3>. QED BY <1>3, <3>1
  <2>2. PICK k \in DOMAIN tp.c_args : tp.c_args[k].name = name
    <3>1. tp.tp_args = [k \in DOMAIN tp.c_args |-> tp.c_args[k].name]
      BY CallMatches
    <3>. QED BY <2>1, <3>1 DEF ToSet
  <2>3. \A l \in DOMAIN tp.c_args : tp.c_args[l].name = name => tp.c_args[l].length = length
    BY <1>1, <1>2 DEF ValueOK
  <2>. QED BY <2>2, <2>3
<1>4. tp.fields[f].type = "array" => Passed("tp_charptr_1") = {tp.fields[f].length}
  BY <1>2, <1>3 DEF FieldOK
<1>5. tp.fields[f].type = "sequence" => Passed("tp_charptr_1_size") = Passed("tp_charptr_1")
  <2>. HIDE DEF Passed
  <2>. QED BY <1>2, <1>3 DEF FieldOK
<1>. QED BY <1>4, <1>5

(* add_ctf_array_char() and add_ctf_sequence_char(): the length written    *)
(* into the declaration of an array is that of the string in its call, and *)
(* the size passed for a sequence is that of the string passed with it.    *)
THEOREM LengthsMatchCorrect == Spec => []LengthsMatch
<1>1. Inv => LengthsMatch
  <2>. SUFFICES ASSUME Inv, NEW n \in DOMAIN tps, NEW f \in DOMAIN tps[n].fields
                PROVE  LET tp == tps[n]
                           Passed(name) ==
                             {tp.c_args[k].length :
                                k \in {l \in DOMAIN tp.c_args : tp.c_args[l].name = name}}
                       IN  /\ tp.fields[f].type = "array" =>
                                Passed("tp_charptr_1") = {tp.fields[f].length}
                           /\ tp.fields[f].type = "sequence" =>
                                Passed("tp_charptr_1_size") = Passed("tp_charptr_1")
    BY Zenon DEF LengthsMatch
  <2>1. tps[n] \in Tracepoint /\ TracepointOK(tps[n], n) /\ n \in Nat
    BY LenProperties DEF Inv, TypeInv, WrittenInv
  <2>. QED BY <2>1, LengthsFit
<1>. QED BY <1>1, InvCorrect, PTL

=============================================================================
