-------------------------------- MODULE FuncTest --------------------------------
(***************************************************************************)
(* functest/src: a program that calls functions of base-port/tool, checks  *)
(* their results (functest/include/trap.h) and ends as ProgramExit says.   *)
(* mersenne.c divides numbers of two words, string.c compares and copies.  *)
(* A call and its check are two steps of one program; what the program     *)
(* expects is what the C language says of the operator or the function.    *)
(***************************************************************************)
EXTENDS ProgramExit, ToolLibrary

CONSTANTS
  Orders,  (* Orders of the halves in memory: "little" on the core,        *)
           (* "declared" where they lie as int64.c declares them.          *)
  Bytes,   (* Values of a byte, with 0.                                    *)
  Size     (* Bytes of a buffer.                                           *)

ASSUME BufferAssumption == Bytes \subseteq Nat /\ 0 \in Bytes /\ Size \in Nat \ {0}

VARIABLES
  order,   (* The order of the halves on this machine.                     *)
  call     (* The call whose result is to be checked, or None.             *)

testVars == <<vars, order, call>>

Buffers == [1..Size -> Bytes]

TestInit == Init /\ order \in Orders /\ call = None

-----------------------------------------------------------------------------
Value(op, x) == IF op # "unsigned" /\ Negative(x) THEN x - DWord ELSE x

(* Undefined in C: division by zero, and the quotient that is no long long. *)
Undefined(op, a, b) == b = 0 \/ (op # "unsigned" /\ a = DWord \div 2 /\ b = DWord - 1)

(* a / b and a % b, or __divmoddi4.                                        *)
Divide(op, a, b) ==
  /\ ~Undefined(op, a, b)
  /\ call' = [ op |-> op, a |-> a, b |-> b,
               got |-> CASE op = "unsigned" -> udivmoddi4(order, a, b)
                         [] op = "signed"   -> << divdi3(order, a, b), moddi3(order, a, b) >>
                         [] op = "both"     -> divmoddi4(order, a, b) ]

Terminated(s) == \E i \in DOMAIN s : s[i] = 0

Compare(op, s, t, n) ==
  /\ op = "strcmp" => Terminated(s) /\ Terminated(t) /\ n = Size
  /\ call' = [ op |-> op, s |-> s, t |-> t, n |-> n,
               got |-> IF op = "strcmp" THEN strcmp(s, t, n) ELSE memcmp(s, t, n) ]

(* Bytes that are moved are told apart by where they come from.            *)
Move(op, dst, src, n) ==
  LET mem == [i \in 1..Size |-> i]
  IN  /\ {dst + n, src + n} \subseteq 1..(Size + 1)
      /\ call' = [ op |-> op, dst |-> dst, src |-> src, n |-> n,
                   got |-> IF op = "memcpy" THEN memcpy(mem, dst, src, n)
                           ELSE memmove(mem, dst, src, n) ]

CallLibrary ==
  /\ pc = "main" /\ call = None
  /\ \/ \E op \in {"unsigned", "signed", "both"}, a, b \in DWords : Divide(op, a, b)
     \/ \E op \in {"strcmp", "strncmp", "memcmp"}, s, t \in Buffers, n \in 0..Size :
          Compare(op, s, t, n)
     \/ \E op \in {"memcpy", "memmove"}, dst, src \in 1..Size, n \in 0..Size :
          Move(op, dst, src, n)
  /\ UNCHANGED <<vars, order>>

-----------------------------------------------------------------------------
(* What the C language promises.                                           *)
Magn(v) == IF v < 0 THEN -v ELSE v

IsQuotient(c) ==
  LET a == Value(c.op, c.a)
      b == Value(c.op, c.b)
      q == Value(c.op, c.got[1])
      r == Value(c.op, c.got[2])
  IN  a = q * b + r /\ Magn(r) < Magn(b) /\ (r = 0 \/ (r < 0 <=> a < 0))

(* Where two buffers differ, up to the end of the strings for strings.     *)
Differ(c) ==
  {i \in 1..c.n : c.s[i] # c.t[i]
                  /\ (c.op # "memcmp" => \A j \in 1..(i - 1) : c.s[j] # 0)}

IsComparison(c) ==
  c.got = IF Differ(c) = {} THEN 0
          ELSE LET i == First(Differ(c)) IN Sign(c.s[i], c.t[i])

IsMoved(c) ==
  \A i \in 1..Size :
    c.got[i] = IF i \in c.dst..(c.dst + c.n - 1) THEN c.src + (i - c.dst) ELSE i

IsRight(c) ==
  CASE c.op \in {"unsigned", "signed", "both"}    -> IsQuotient(c)
    [] c.op \in {"strcmp", "strncmp", "memcmp"}   -> IsComparison(c)
    [] c.op \in {"memcpy", "memmove"}             -> IsMoved(c)

(* check(cond): halt(1) unless the result is the expected one.             *)
Check ==
  /\ call # None
  /\ IF IsRight(call) THEN UNCHANGED <<pc, code>> ELSE Halt(1)
  /\ call' = None
  /\ UNCHANGED <<lut, tohost, seen, inited, order>>

TestNext ==
  \/ CallLibrary
  \/ Check
  \/ call = None /\ Next /\ UNCHANGED <<order, call>>

TestSpec == TestInit /\ [][TestNext]_testVars

-----------------------------------------------------------------------------
Called(ops) == call # None /\ call.op \in ops

OneWord(op, x) == Magn(Value(op, x)) < Word

(* Every division is right where the halves lie as they are declared; on   *)
(* the core, whose halves lie the other way round, those of numbers that   *)
(* fit one word are, and mersenne.c divides no others.                     *)
QuotientsAreRight ==
  Called({"unsigned", "signed", "both"})
    /\ (order = "declared" \/ (OneWord(call.op, call.a) /\ OneWord(call.op, call.b)))
  => IsQuotient(call)

(* Comparisons go wrong only where both buffers have a zero byte before    *)
(* they differ: strncmp where both strings end before n, memcmp at equal   *)
(* zero bytes, strcmp never.  memmove is right for every overlap, memcpy   *)
(* when the destination does not begin inside the source.                  *)
BytesAreRight ==
  /\ Called({"strcmp"}) => IsComparison(call)
  /\ Called({"strncmp", "memcmp"}) =>
       \/ IsComparison(call)
       \/ \E i \in 1..call.n : call.s[i] = 0 /\ call.t[i] = 0
                               /\ \A j \in 1..i : call.s[j] = call.t[j]
  /\ Called({"memmove"}) => IsMoved(call)
  /\ Called({"memcpy"}) /\ call.dst \notin (call.src + 1)..(call.src + call.n - 1)
       => IsMoved(call)

(* int64.c: "Returns: a / b", of each of its functions.                    *)
ReturnsTheQuotient == Called({"unsigned", "signed", "both"}) => IsQuotient(call)
=================================================================================
