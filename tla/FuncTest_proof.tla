------------------------------ MODULE FuncTest_proof ------------------------------
(***************************************************************************)
(* Proofs about ProgramExit for every table of handlers and every width,   *)
(* and about FuncTest, which is such a program: what is proved of all      *)
(* programs holds of it, the functions of string.c that it calls are right *)
(* for every size of a buffer, and those of int64.c for every word width.  *)
(***************************************************************************)
EXTENDS FuncTest, FiniteSetTheorems, WellFoundedInduction, TLAPS

USE HalfAssumption, PortsAssumption, NoneAssumption DEF Words

(* The word is written once, by a program that then spins, and it is the   *)
(* encoding of what halt was called with; ioe_init leaves no entry empty.  *)
Written ==
  /\ pc = "main" => code = None
  /\ pc = "halt" => code \in Words
  /\ pc # "spin" => tohost = 0
  /\ pc = "spin" => code \in Words /\ tohost = Encoded(code)
  /\ seen # None => pc = "spin" /\ seen = tohost

TableFilled == inited => \A p \in Ports : lut[p] # None

IInv == TypeOK /\ Written /\ TableFilled /\ InitMakesPortsSafe

-----------------------------------------------------------------------------
(* A code is encoded as a word; a code that survives the shift is          *)
(* recovered from it, and its word is 1 only for zero.                     *)
LEMMA OnceAround ==
  ASSUME NEW m \in Nat \ {0}, NEW r \in 0..(m - 1)
  PROVE  (m + r) % m = r
  <1>1. (m + r) \div m = 1
    OBVIOUS
  <1> QED BY <1>1

LEMMA EncodedIsAWord ==
  ASSUME NEW c \in Words
  PROVE  Encoded(c) \in Words
  <1>1. c = 0 => Encoded(c) = 1
    BY DEF Encoded
  <1>2. c * 2 \in Nat /\ 2 * Half \in Nat \ {0}
    OBVIOUS
  <1>3. (c * 2) % (2 * Half) \in 0..(2 * Half - 1)
    BY <1>2
  <1>4. \E k \in Nat : (c * 2) % (2 * Half) = 2 * k
    <2>1. CASE c < Half
      <3>1. (c * 2) % (2 * Half) = 2 * c
        BY <2>1
      <3> QED BY <3>1
    <2>2. CASE c >= Half
      <3>1. c * 2 = (2 * Half) + 2 * (c - Half) /\ c - Half \in 0..(Half - 1)
        BY <2>2
      <3>2. (c * 2) % (2 * Half) = 2 * (c - Half)
        <4>1. 2 * Half \in Nat \ {0} /\ 2 * (c - Half) \in 0..(2 * Half - 1)
          BY <3>1
        <4>2. ((2 * Half) + 2 * (c - Half)) % (2 * Half) = 2 * (c - Half)
          BY <4>1, OnceAround
        <4> QED BY <3>1, <4>2
      <3>3. \E k \in Nat : 2 * (c - Half) = 2 * k
        <4>1. c - Half \in Nat
          BY <3>1
        <4> QED BY <4>1
      <3> QED BY <3>2, <3>3
    <2> QED BY <2>1, <2>2
  <1> QED BY <1>1, <1>3, <1>4 DEF Encoded

LEMMA EncodedIsFaithful ==
  ASSUME NEW c \in Words, c < Half
  PROVE  /\ Encoded(c) = 1 <=> c = 0
         /\ c # 0 => Reported(Encoded(c)) = c
  <1>1. (c * 2) % (2 * Half) = c * 2
    OBVIOUS
  <1>2. c # 0 => Encoded(c) = c * 2 + 1
    BY <1>1 DEF Encoded
  <1>3. (c * 2 + 1) \div 2 = c
    OBVIOUS
  <1> QED BY <1>2, <1>3 DEF Encoded, Reported

-----------------------------------------------------------------------------
LEMMA InitIInv == Init => IInv
  <1> SUFFICES ASSUME Init
               PROVE  IInv
    OBVIOUS
  <1>1. lut \in [Ports -> {"device", "fail", None}] /\ inited = FALSE
    BY DEF Init
  <1>2. /\ pc = "main" /\ code = None /\ seen = None
        /\ tohost = 0 /\ tohost \in Words
    BY DEF Init
  <1>3. TypeOK
    BY <1>1, <1>2 DEF TypeOK
  <1>4. Written /\ TableFilled /\ InitMakesPortsSafe
    BY <1>1, <1>2 DEF Written, TableFilled, InitMakesPortsSafe
  <1> QED BY <1>3, <1>4 DEF IInv

LEMMA InitPortsStep == IInv /\ ioe_init => IInv'
  BY DEF ioe_init, Filled, IInv, TypeOK, Written, TableFilled, InitMakesPortsSafe

LEMMA AccessStep ==
  ASSUME IInv, NEW port \in Ports, Access(port)
  PROVE  IInv'
  <1>1. CASE lut[port] = "device"
    BY <1>1 DEF Access, IInv, TypeOK, Written, TableFilled, InitMakesPortsSafe
  <1>2. CASE lut[port] = "fail"
    BY <1>2 DEF Access, Halt, IInv, TypeOK, Written, TableFilled,
                InitMakesPortsSafe
  <1>3. CASE lut[port] = None
    BY <1>3 DEF Access, IInv, TypeOK, Written, TableFilled, InitMakesPortsSafe
  <1> QED BY <1>1, <1>2, <1>3 DEF IInv, TypeOK

LEMMA HaltStep ==
  ASSUME IInv, Panic \/ \E ret \in Words : Return(ret)
  PROVE  IInv'
  BY DEF Panic, Return, Halt, IInv, TypeOK, Written, TableFilled,
         InitMakesPortsSafe

LEMMA ReportStep ==
  ASSUME IInv, Report
  PROVE  IInv'
  <1>1. code \in Words /\ Encoded(code) \in Words
    BY EncodedIsAWord DEF Report, IInv, Written
  <1> QED
    BY <1>1 DEF Report, IInv, TypeOK, Written, TableFilled, InitMakesPortsSafe

LEMMA ObserveStep ==
  ASSUME IInv, Observe
  PROVE  IInv'
  BY DEF Observe, IInv, TypeOK, Written, TableFilled, InitMakesPortsSafe

LEMMA NextIInv == IInv /\ [Next]_vars => IInv'
  <1>1. ASSUME IInv, UNCHANGED vars
        PROVE  IInv'
    BY <1>1 DEF vars, IInv, TypeOK, Written, TableFilled, InitMakesPortsSafe
  <1> QED
    BY <1>1, InitPortsStep, AccessStep, HaltStep, ReportStep, ObserveStep
       DEF Next, Main

-----------------------------------------------------------------------------
(* The program, the table and both words stay in the model's types.        *)
THEOREM TypeCorrect == Spec => []TypeOK
  <1>1. IInv => TypeOK
    BY DEF IInv
  <1> QED BY InitIInv, NextIInv, <1>1, PTL DEF Spec

(* Every non-negative exit code of any width is recovered from what the    *)
(* simulator saw, and only zero is a pass among them.                      *)
THEOREM FaithfulCodes == Spec => []CodesAreFaithful
  <1>1. IInv => CodesAreFaithful
    <2> SUFFICES ASSUME IInv, seen # None, code < Half
                 PROVE  /\ seen = 1 <=> code = 0
                        /\ code # 0 => Reported(seen) = code
      BY DEF CodesAreFaithful
    <2>1. code \in Words /\ seen = Encoded(code)
      BY DEF IInv, Written
    <2> QED BY <2>1, EncodedIsFaithful
  <1> QED BY InitIInv, NextIInv, <1>1, PTL DEF Spec

(* No handler table leads into NULL once ioe_init has run.                 *)
THEOREM SafePorts == Spec => []InitMakesPortsSafe
  <1>1. IInv => InitMakesPortsSafe
    BY DEF IInv
  <1> QED BY InitIInv, NextIInv, <1>1, PTL DEF Spec

(* The word in tohost never changes once it is not zero.                   *)
THEOREM FinalVerdict == Spec => VerdictIsFinal
  <1>1. IInv /\ [Next]_vars => [tohost # 0 => tohost' = tohost]_vars
    BY DEF IInv, Written, Next, Main, ioe_init, Access, Panic, Return, Report,
           Observe
  <1> QED BY InitIInv, NextIInv, <1>1, PTL DEF Spec, VerdictIsFinal

-----------------------------------------------------------------------------
(* A functional test is a program: a check that fails is a Panic, a call   *)
(* and a check that holds are steps inside the program.                    *)
CalledByMain == call # None => pc = "main"

LEMMA TestStep ==
  ASSUME CalledByMain, [TestNext]_testVars
  PROVE  CalledByMain' /\ [Next]_vars
  <1>1. CASE CallLibrary
    BY <1>1 DEF CallLibrary, CalledByMain, vars
  <1>2. CASE Check
    <2>1. call # None /\ pc = "main" /\ call' = None
      BY <1>2 DEF Check, CalledByMain
    <2>2. UNCHANGED vars \/ Panic
      BY <1>2, <2>1 DEF Check, Panic, vars
    <2> QED BY <2>1, <2>2 DEF Next, Main, CalledByMain
  <1>3. CASE call = None /\ Next /\ UNCHANGED <<order, call>>
    BY <1>3 DEF CalledByMain
  <1>4. CASE UNCHANGED testVars
    BY <1>4 DEF testVars, vars, CalledByMain
  <1> QED BY <1>1, <1>2, <1>3, <1>4 DEF TestNext

(* What holds of every program holds of the functional tests.              *)
THEOREM TestIsAProgram == TestSpec => Spec
  <1>1. TestInit => Init /\ CalledByMain
    BY DEF TestInit, CalledByMain
  <1> QED BY <1>1, TestStep, PTL DEF TestSpec, Spec

(* The functional tests' exit codes are recovered from what the simulator  *)
(* saw, their accesses never jump to NULL after ioe_init, and their first  *)
(* verdict stands.                                                         *)
THEOREM TestVerdicts ==
  TestSpec => []CodesAreFaithful /\ []InitMakesPortsSafe /\ VerdictIsFinal
  BY TestIsAProgram, FaithfulCodes, SafePorts, FinalVerdict

-----------------------------------------------------------------------------
(* A set of natural numbers that is not empty has a least element.         *)
LEMMA LeastNat ==
  ASSUME NEW T \in SUBSET Nat, T # {}
  PROVE  \E n \in T : \A m \in T : n <= m
  <1> DEFINE R == OpToRel(<, Nat)
  <1>1. IsWellFoundedOn(R, Nat)
    BY NatLessThanWellFounded
  <1>2. \A n, m \in Nat : ~(<<m, n>> \in R) => n <= m
    BY DEF OpToRel
  <1> HIDE DEF R
  <1>3. PICK n \in T : \A m \in T : ~(<<m, n>> \in R)
    BY <1>1, WFMin
  <1> QED BY <1>2, <1>3

LEMMA FirstIs ==
  ASSUME NEW T \in SUBSET Nat, NEW n \in T, \A m \in T : n <= m
  PROVE  First(T) = n
  <1>1. \A k \in T : (\A m \in T : k <= m) => k = n
    <2> SUFFICES ASSUME NEW k \in T, \A m \in T : k <= m
                 PROVE  k = n
      OBVIOUS
    <2>1. k <= n /\ n <= k /\ k \in Nat /\ n \in Nat
      OBVIOUS
    <2> QED BY <2>1
  <1> QED BY <1>1 DEF First

(* The loops stop at the first byte that decides, if there is one.         *)
LEMMA StopsAtFirst ==
  ASSUME NEW s \in Buffers, NEW t \in Buffers, NEW n \in 0..Size,
         Stops(s, t, n) # {}
  PROVE  LET i == First(Stops(s, t, n))
         IN  /\ i \in Stops(s, t, n)
             /\ \A j \in 1..n : j < i => s[j] # 0 /\ t[j] # 0 /\ s[j] = t[j]
  <1>1. Size \in Nat /\ n \in Nat
    BY BufferAssumption
  <1>2. Stops(s, t, n) \in SUBSET Nat
    BY <1>1 DEF Stops
  <1>3. PICK i \in Stops(s, t, n) : \A j \in Stops(s, t, n) : i <= j
    BY <1>2, LeastNat
  <1>4. First(Stops(s, t, n)) = i
    BY <1>2, <1>3, FirstIs
  <1>5. i \in Nat
    BY <1>2
  <1>6. \A j \in 1..n : j < i => s[j] # 0 /\ t[j] # 0 /\ s[j] = t[j]
    BY <1>1, <1>3, <1>5 DEF Stops
  <1> QED BY <1>4, <1>6

(* What a comparison returns, and whether its result is the expected one:  *)
(* both look at the first byte that differs, unless two zero bytes come    *)
(* before it.                                                              *)
LEMMA ComparesAtFirst ==
  ASSUME NEW c, c.s \in Buffers, c.t \in Buffers, c.n \in 0..Size,
         NEW i \in Stops(c.s, c.t, c.n),
         \A j \in 1..c.n : j < i => c.s[j] # 0 /\ c.t[j] # 0 /\ c.s[j] = c.t[j]
  PROVE  /\ c.s[i] # c.t[i] /\ c.got = Sign(c.s[i], c.t[i]) => IsComparison(c)
         /\ c.s[i] = c.t[i] /\ c.op # "memcmp" /\ c.got = 0 => IsComparison(c)
         /\ c.s[i] = c.t[i] =>
              c.s[i] = 0 /\ c.t[i] = 0 /\ \A j \in 1..i : c.s[j] = c.t[j]
  <1>1. c.n \in Nat /\ i \in 1..c.n
    BY BufferAssumption DEF Stops
  <1>2. Differ(c) \in SUBSET Nat
    BY <1>1 DEF Differ
  <1>3. \A k \in Differ(c) : k \in 1..c.n /\ c.s[k] # c.t[k] /\ i <= k
    BY <1>1 DEF Differ
  <1>4. ASSUME c.s[i] # c.t[i], c.got = Sign(c.s[i], c.t[i])
        PROVE  IsComparison(c)
    <2>1. i \in Differ(c)
      BY <1>1, <1>4 DEF Differ
    <2>2. First(Differ(c)) = i
      BY <1>2, <1>3, <2>1, FirstIs
    <2> QED BY <1>4, <2>1, <2>2 DEF IsComparison
  <1>5. ASSUME c.s[i] = c.t[i], c.op # "memcmp", c.got = 0
        PROVE  IsComparison(c)
    <2>1. c.s[i] = 0
      BY <1>5 DEF Stops
    <2>2. ASSUME NEW k \in Differ(c)
          PROVE  FALSE
      <3>1. k \in 1..c.n /\ c.s[k] # c.t[k] /\ i <= k
        BY <1>3
      <3>2. i \in 1..(k - 1)
        BY <1>1, <1>5, <3>1
      <3> QED BY <1>5, <2>1, <3>2 DEF Differ
    <2> QED BY <1>5, <2>2 DEF IsComparison
  <1>6. c.s[i] = c.t[i] =>
          c.s[i] = 0 /\ c.t[i] = 0 /\ \A j \in 1..i : c.s[j] = c.t[j]
    BY <1>1 DEF Stops
  <1> QED BY <1>4, <1>5, <1>6

LEMMA StrcmpCompares ==
  ASSUME NEW s \in Buffers, NEW t \in Buffers, NEW n \in 0..Size, Compare("strcmp", s, t, n)
  PROVE  IsComparison(call')
  <1> DEFINE i == First(Stops(s, t, n))
  <1>1. /\ call'.op = "strcmp" /\ call'.s = s /\ call'.t = t /\ call'.n = n
        /\ call'.got = Sign(s[i], t[i])
    BY DEF Compare, strcmp
  <1>2. Stops(s, t, n) # {}
    BY DEF Compare, Terminated, Stops, Buffers
  <1>3. /\ i \in Stops(s, t, n)
        /\ \A j \in 1..n : j < i => s[j] # 0 /\ t[j] # 0 /\ s[j] = t[j]
    BY <1>2, StopsAtFirst
  <1> HIDE DEF i
  <1>4. s[i] = t[i] => call'.got = 0
    <2>1. i \in 1..Size
      BY <1>3, BufferAssumption DEF Stops
    <2>2. s[i] \in Nat
      BY <2>1, BufferAssumption DEF Buffers
    <2> QED BY <1>1, <2>2 DEF Sign
  <1> QED BY <1>1, <1>3, <1>4, ComparesAtFirst

LEMMA MemcmpCompares ==
  ASSUME NEW op \in {"strncmp", "memcmp"}, NEW s \in Buffers, NEW t \in Buffers,
         NEW n \in 0..Size, Compare(op, s, t, n)
  PROVE  \/ IsComparison(call')
         \/ \E i \in 1..call'.n : /\ call'.s[i] = 0 /\ call'.t[i] = 0
                                  /\ \A j \in 1..i : call'.s[j] = call'.t[j]
  <1> DEFINE i == First(Stops(s, t, n))
  <1>1. /\ call'.op = op /\ call'.s = s /\ call'.t = t /\ call'.n = n
        /\ call'.got = memcmp(s, t, n)
    BY DEF Compare
  <1>2. CASE Stops(s, t, n) = {}
    <2>1. call'.got = 0
      BY <1>1, <1>2 DEF memcmp
    <2>2. Differ(call') = {}
      BY <1>1, <1>2 DEF Differ, Stops
    <2> QED BY <2>1, <2>2 DEF IsComparison
  <1>3. CASE Stops(s, t, n) # {}
    <2>1. /\ i \in Stops(s, t, n)
          /\ \A j \in 1..n : j < i => s[j] # 0 /\ t[j] # 0 /\ s[j] = t[j]
      BY <1>3, StopsAtFirst
    <2>2. memcmp(s, t, n) = IF s[i] = 0 /\ t[i] = 0 THEN -1 ELSE Sign(s[i], t[i])
      BY <1>3 DEF memcmp
    <2>3. i \in 1..n
      BY <2>1 DEF Stops
    <2> HIDE DEF i
    <2>4. CASE s[i] # t[i]
      BY <1>1, <2>1, <2>2, <2>4, ComparesAtFirst
    <2>5. CASE s[i] = t[i]
      <3>1. s[i] = 0 /\ t[i] = 0 /\ \A j \in 1..i : s[j] = t[j]
        BY <1>1, <2>1, <2>5, ComparesAtFirst
      <3> QED BY <1>1, <2>3, <3>1
    <2> QED BY <2>4, <2>5
  <1> QED BY <1>2, <1>3

-----------------------------------------------------------------------------
(* What copying leaves in the buffer that a byte moved from its own place. *)
IsCopy(got, dst, src, n) ==
  \A i \in 1..Size : got[i] = IF i \in dst..(dst + n - 1) THEN src + (i - dst) ELSE i

(* What a copy leaves after its first k bytes, where no byte is read after *)
(* it was overwritten: by induction over k.                                *)
LEMMA Copies ==
  ASSUME NEW mem, mem = [i \in 1..Size |-> i],
         NEW dst \in 1..Size, NEW src \in 1..Size, NEW n \in 0..Size, NEW up \in BOOLEAN,
         {dst + n, src + n} \subseteq 1..(Size + 1),
         up => dst \notin (src + 1)..(src + n - 1),
         ~up => src <= dst
  PROVE  IsCopy(CopiedInOrder(mem, dst, src, n, up), dst, src, n)
  <1>1. Size \in Nat /\ n \in Nat /\ dst + n <= Size + 1 /\ src + n <= Size + 1
    BY BufferAssumption
  <1> DEFINE At(k) == IF up THEN k - 1 ELSE n - k
             Step(f, k) == IF k = 0 THEN mem
                           ELSE [f[k - 1] EXCEPT ![dst + At(k)] = f[k - 1][src + At(k)]]
             Done(k) == IF up THEN dst..(dst + k - 1) ELSE (dst + n - k)..(dst + n - 1)
             Moved(k) == [i \in 1..Size |-> IF i \in Done(k) THEN src + (i - dst) ELSE i]
             closed == [k \in 0..n |-> Moved(k)]
             copy == CHOOSE f : f = [k \in 0..n |-> Step(f, k)]
  <1>2. CopiedInOrder(mem, dst, src, n, up) = copy[n]
    BY DEF CopiedInOrder
  <1>3. Moved(0) = mem
    <2>1. Done(0) = {}
      BY <1>1
    <2> QED BY <2>1
  <1>4. ASSUME NEW k \in 1..n
        PROVE  [Moved(k - 1) EXCEPT ![dst + At(k)] = Moved(k - 1)[src + At(k)]] = Moved(k)
    <2>1. /\ At(k) \in 0..(n - 1) /\ dst + At(k) \in 1..Size /\ src + At(k) \in 1..Size
      BY <1>1
    <2>2. src + At(k) \notin Done(k - 1)
      BY <1>1
    <2>3. Moved(k - 1)[src + At(k)] = src + At(k)
      BY <2>1, <2>2
    <2>4. Done(k) = Done(k - 1) \cup {dst + At(k)}
      BY <1>1
    <2>5. src + ((dst + At(k)) - dst) = src + At(k)
      BY <2>1
    <2> HIDE DEF Done, At
    <2> QED BY <2>1, <2>3, <2>4, <2>5
  <1>5. closed = [k \in 0..n |-> Step(closed, k)]
    <2>1. ASSUME NEW k \in 0..n
          PROVE  Moved(k) = Step(closed, k)
      <3>1. CASE k = 0
        BY <1>3, <3>1
      <3>2. CASE k # 0
        <4>1. k \in 1..n /\ k - 1 \in 0..n
          BY <1>1, <3>2
        <4>2. closed[k - 1] = Moved(k - 1)
          BY <4>1
        <4> HIDE DEF closed, Moved, At
        <4> QED BY <1>4, <3>2, <4>1, <4>2
      <3> QED BY <3>1, <3>2
    <2> QED BY <2>1
  <1> HIDE DEF Moved, closed
  <1>6. copy = [k \in 0..n |-> Step(copy, k)]
    BY <1>5, Zenon
  <1>7. \A k \in 0..n : copy[k] = Moved(k)
    <2> DEFINE Wrong == {k \in 0..n : copy[k] # Moved(k)}
    <2> SUFFICES ASSUME Wrong # {}
                 PROVE  FALSE
      OBVIOUS
    <2>1. Wrong \in SUBSET Nat
      OBVIOUS
    <2>2. PICK k \in Wrong : \A m \in Wrong : k <= m
      BY <2>1, LeastNat
    <2> HIDE DEF copy
    <2>3. copy[k] = Step(copy, k) /\ k \in 0..n
      BY <1>6
    <2>4. CASE k = 0
      BY <1>3, <2>2, <2>3, <2>4
    <2>5. CASE k # 0
      <3>1. k \in 1..n /\ k - 1 \in 0..n /\ ~(k <= k - 1)
        BY <2>3, <2>5
      <3>2. copy[k - 1] = Moved(k - 1)
        BY <2>2, <3>1
      <3> QED BY <1>4, <2>2, <2>3, <2>5, <3>1, <3>2
    <2> QED BY <2>4, <2>5
  <1>8. Moved(n) = [i \in 1..Size |-> IF i \in dst..(dst + n - 1) THEN src + (i - dst) ELSE i]
    <2>1. Done(n) = dst..(dst + n - 1)
      BY <1>1
    <2> HIDE DEF Done
    <2> QED BY <2>1 DEF Moved
  <1>9. copy[n] = Moved(n)
    BY <1>1, <1>7
  <1> HIDE DEF copy
  <1> QED BY <1>2, <1>8, <1>9 DEF IsCopy

LEMMA MovesRight ==
  ASSUME NEW op \in {"memcpy", "memmove"}, NEW dst \in 1..Size, NEW src \in 1..Size,
         NEW n \in 0..Size, Move(op, dst, src, n),
         op = "memcpy" => dst \notin (src + 1)..(src + n - 1)
  PROVE  IsMoved(call')
  <1> DEFINE mem == [i \in 1..Size |-> i]
             up  == op = "memcpy" \/ dst < src
  <1>1. /\ call'.op = op /\ call'.dst = dst /\ call'.src = src /\ call'.n = n
        /\ {dst + n, src + n} \subseteq 1..(Size + 1)
    BY DEF Move
  <1>2. call'.got = CopiedInOrder(mem, dst, src, n, up)
    <2>1. op = "memcpy" => call'.got = CopiedInOrder(mem, dst, src, n, TRUE)
      BY DEF Move, memcpy
    <2>2. op = "memmove" => call'.got = CopiedInOrder(mem, dst, src, n, dst < src)
      BY DEF Move, memmove
    <2>3. (op = "memcpy" => up = TRUE) /\ (op = "memmove" => up = (dst < src))
      OBVIOUS
    <2> HIDE DEF mem, up
    <2> QED BY <2>1, <2>2, <2>3
  <1>3. dst \in Nat /\ src \in Nat /\ n \in Nat
    BY BufferAssumption
  <1>4. /\ up \in BOOLEAN
        /\ up => dst \notin (src + 1)..(src + n - 1)
        /\ ~up => src <= dst
    BY <1>3
  <1>5. mem = [i \in 1..Size |-> i]
    OBVIOUS
  <1> HIDE DEF mem, up
  <1>6. IsCopy(CopiedInOrder(mem, dst, src, n, up), dst, src, n)
    <2>1. up \in BOOLEAN
      BY <1>4
    <2>2. up => dst \notin (src + 1)..(src + n - 1)
      BY <1>4
    <2>3. ~up => src <= dst
      BY <1>4
    <2>4. {dst + n, src + n} \subseteq 1..(Size + 1)
      BY <1>1
    <2> QED BY <1>5, <2>1, <2>2, <2>3, <2>4, Copies
  <1> QED BY <1>1, <1>2, <1>6 DEF IsMoved, IsCopy

(* strcmp is right for all strings, strncmp and memcmp but for two zero    *)
(* bytes before the difference; memmove is right for every overlap, memcpy *)
(* where the destination does not begin inside the source: whatever the    *)
(* size of the buffers and the values of a byte.                           *)
THEOREM BytesRight == TestSpec => []BytesAreRight
  <1>1. TestInit => BytesAreRight
    BY DEF TestInit, BytesAreRight, Called
  <1>2. ASSUME BytesAreRight, [TestNext]_testVars
        PROVE  BytesAreRight'
    <2>1. CASE CallLibrary
      <3>1. ASSUME NEW op \in {"unsigned", "signed", "both"}, NEW a \in DWords, NEW b \in DWords,
                   Divide(op, a, b)
            PROVE  BytesAreRight'
        <4>1. call'.op = op
          BY <3>1 DEF Divide
        <4> QED BY <4>1 DEF BytesAreRight, Called
      <3>2. ASSUME NEW op \in {"strcmp", "strncmp", "memcmp"}, NEW s \in Buffers,
                   NEW t \in Buffers, NEW n \in 0..Size, Compare(op, s, t, n)
            PROVE  BytesAreRight'
        <4>1. call'.op = op
          BY <3>2 DEF Compare
        <4>2. CASE op = "strcmp"
          BY <3>2, <4>1, <4>2, StrcmpCompares DEF BytesAreRight, Called
        <4>3. CASE op \in {"strncmp", "memcmp"}
          <5>1. \/ IsComparison(call')
                \/ \E i \in 1..call'.n : /\ call'.s[i] = 0 /\ call'.t[i] = 0
                                         /\ \A j \in 1..i : call'.s[j] = call'.t[j]
            BY <3>2, <4>3, MemcmpCompares
          <5> QED BY <4>1, <4>3, <5>1 DEF BytesAreRight, Called
        <4> QED BY <4>2, <4>3
      <3>3. ASSUME NEW op \in {"memcpy", "memmove"}, NEW dst \in 1..Size, NEW src \in 1..Size,
                   NEW n \in 0..Size, Move(op, dst, src, n)
            PROVE  BytesAreRight'
        <4>1. call'.op = op /\ call'.dst = dst /\ call'.src = src /\ call'.n = n
          BY <3>3 DEF Move
        <4>2. op = "memmove" => IsMoved(call')
          BY <3>3, MovesRight
        <4>3. op = "memcpy" /\ dst \notin (src + 1)..(src + n - 1) => IsMoved(call')
          BY <3>3, MovesRight
        <4> QED BY <4>1, <4>2, <4>3 DEF BytesAreRight, Called
      <3> QED BY <2>1, <3>1, <3>2, <3>3 DEF CallLibrary
    <2>2. CASE Check
      BY <2>2 DEF Check, BytesAreRight, Called
    <2>3. CASE UNCHANGED call
      BY <1>2, <2>3 DEF BytesAreRight, Called, IsComparison, IsMoved, Differ
    <2> QED BY <1>2, <2>1, <2>2, <2>3 DEF TestNext, testVars
  <1> QED BY <1>1, <1>2, PTL DEF TestSpec

-----------------------------------------------------------------------------
(* Quotient and remainder, and that no other numbers are.                  *)
LEMMA DivMod ==
  ASSUME NEW a \in Nat, NEW m \in Nat \ {0}
  PROVE  /\ a \div m \in Nat /\ a % m \in 0..(m - 1)
         /\ a = m * (a \div m) + (a % m)
  OBVIOUS

LEMMA Quotient ==
  ASSUME NEW a \in Nat, NEW m \in Nat \ {0}, NEW q \in Int, NEW r \in 0..(m - 1),
         a = m * q + r
  PROVE  q = a \div m /\ r = a % m
  OBVIOUS

(* Numbers that are the same but for multiples of m have one remainder.    *)
LEMMA SameRemainder ==
  ASSUME NEW x \in Int, NEW m \in Nat \ {0}, NEW q \in Int, NEW r \in 0..(m - 1),
         x = m * q + r
  PROVE  x % m = r
  OBVIOUS

LEMMA Times ==
  ASSUME NEW a \in Nat, NEW b \in Nat
  PROVE  a * b \in Nat /\ (a # 0 /\ b # 0 => a * b # 0)
  OBVIOUS

LEMMA TimesMonotone ==
  ASSUME NEW a \in Int, NEW b \in Int, NEW m \in Nat, a <= b
  PROVE  m * a <= m * b
  OBVIOUS

(* A sequence of states can be defined by recursion.                       *)
Recurs(f, S, a, h, n) ==
  /\ f \in [0..n -> S] /\ f[0] = a
  /\ \A k \in 1..n : f[k] = h[f[k - 1]]

LEMMA Recursion ==
  ASSUME NEW S, NEW a \in S, NEW h \in [S -> S], NEW n \in Nat
  PROVE  \E f : Recurs(f, S, a, h, n)
  <1> DEFINE Defined(m) == \E f : Recurs(f, S, a, h, m)
             Missing == {m \in Nat : ~Defined(m)}
  <1> SUFFICES ASSUME Missing # {}
               PROVE  FALSE
    OBVIOUS
  <1>1. Missing \in SUBSET Nat
    OBVIOUS
  <1>2. PICK m \in Missing : \A i \in Missing : m <= i
    BY <1>1, LeastNat
  <1>3. m \in Nat /\ ~Defined(m)
    OBVIOUS
  <1>4. CASE m = 0
    <2> DEFINE f == [k \in 0..0 |-> a]
    <2>1. Recurs(f, S, a, h, m)
      BY <1>4 DEF Recurs
    <2> QED BY <1>3, <2>1
  <1>5. CASE m # 0
    <2>1. m - 1 \in Nat /\ ~(m <= m - 1)
      BY <1>3, <1>5
    <2>2. Defined(m - 1)
      BY <1>2, <2>1
    <2>3. PICK f \in [0..(m - 1) -> S] :
            f[0] = a /\ \A k \in 1..(m - 1) : f[k] = h[f[k - 1]]
      BY <2>2 DEF Recurs
    <2> DEFINE g == [k \in 0..m |-> IF k = m THEN h[f[m - 1]] ELSE f[k]]
    <2>4. g \in [0..m -> S]
      <3>1. h[f[m - 1]] \in S
        BY <2>1, <2>3
      <3>2. \A k \in 0..m : k # m => k \in 0..(m - 1)
        BY <1>3
      <3> QED BY <2>3, <3>1, <3>2
    <2>5. g[0] = a /\ \A k \in 1..m : g[k] = h[g[k - 1]]
      <3>1. g[0] = a
        BY <1>3, <1>5, <2>3
      <3>2. ASSUME NEW k \in 1..m
            PROVE  g[k] = h[g[k - 1]]
        <4>1. k - 1 \in 0..m /\ k - 1 # m /\ k \in 0..m
          BY <1>3
        <4>2. g[k - 1] = f[k - 1]
          BY <4>1
        <4>3. CASE k = m
          BY <4>1, <4>2, <4>3
        <4>4. CASE k # m
          <5>1. k \in 1..(m - 1)
            BY <1>3, <4>4
          <5>2. g[k] = f[k]
            BY <4>1, <4>4
          <5> QED BY <2>3, <4>2, <5>1, <5>2
        <4> QED BY <4>3, <4>4
      <3> QED BY <3>1, <3>2
    <2>6. Recurs(g, S, a, h, m)
      BY <2>4, <2>5 DEF Recurs
    <2> QED BY <1>3, <2>6
  <1> QED BY <1>4, <1>5

-----------------------------------------------------------------------------
Bits == 2 * WordBits

LEMMA BitsFact == WordBits \in Nat \ {0} /\ Bits \in Nat /\ Bits = WordBits + WordBits
  BY WordAssumption DEF Bits

LEMMA Power2Def ==
  Power2 = [k \in 0..Bits |-> IF k = 0 THEN 1 ELSE 2 * Power2[k - 1]]
  <1> DEFINE h == [x \in Nat |-> 2 * x]
  <1>1. PICK f : Recurs(f, Nat, 1, h, Bits)
    <2>1. h \in [Nat -> Nat] /\ 1 \in Nat
      OBVIOUS
    <2> HIDE DEF h
    <2> QED BY <2>1, BitsFact, Recursion
  <1>2. /\ f \in [0..Bits -> Nat] /\ f[0] = 1
        /\ \A k \in 1..Bits : f[k] = h[f[k - 1]]
    BY <1>1 DEF Recurs
  <1>3. \A k \in 1..Bits : f[k] = 2 * f[k - 1]
    <2> SUFFICES ASSUME NEW k \in 1..Bits
                 PROVE  f[k] = 2 * f[k - 1]
      OBVIOUS
    <2>1. k - 1 \in 0..Bits
      BY BitsFact
    <2> QED BY <1>2, <2>1
  <1>4. f = [k \in 0..Bits |-> IF k = 0 THEN 1 ELSE 2 * f[k - 1]]
    <2>1. \A k \in 0..Bits : f[k] = IF k = 0 THEN 1 ELSE 2 * f[k - 1]
      BY <1>2, <1>3, BitsFact
    <2> QED BY <1>2, <2>1
  <1>5. Power2 = CHOOSE g : g = [k \in 0..Bits |-> IF k = 0 THEN 1 ELSE 2 * g[k - 1]]
    BY DEF Power2, Bits
  <1> QED BY <1>4, <1>5

LEMMA Power2Step ==
  /\ Power2[0] = 1
  /\ \A k \in 1..Bits : Power2[k] = 2 * Power2[k - 1]
  BY Power2Def, BitsFact

LEMMA Power2Nat == \A k \in 0..Bits : Power2[k] \in Nat \ {0}
  <1> DEFINE Wrong == {k \in 0..Bits : Power2[k] \notin Nat \ {0}}
  <1> SUFFICES ASSUME Wrong # {} PROVE FALSE
    OBVIOUS
  <1>1. Wrong \in SUBSET Nat
    BY BitsFact
  <1>2. PICK k \in Wrong : \A m \in Wrong : k <= m
    BY <1>1, LeastNat
  <1>3. k \in 0..Bits /\ k # 0
    BY Power2Step
  <1>4. k - 1 \in 0..Bits /\ k \in 1..Bits /\ ~(k <= k - 1)
    BY <1>3, BitsFact
  <1>5. Power2[k - 1] \in Nat \ {0}
    BY <1>2, <1>4
  <1>6. Power2[k] = 2 * Power2[k - 1]
    BY <1>4, Power2Step
  <1> QED BY <1>5, <1>6

(* One shift after the other is one by the sum.                            *)
LEMMA Power2Sum ==
  ASSUME NEW i \in Nat, NEW j \in Nat, i + j <= Bits
  PROVE  Power2[i + j] = Power2[i] * Power2[j]
  <1> DEFINE Right(k) == Power2[i + k] = Power2[i] * Power2[k]
             Wrong == {k \in 0..j : ~Right(k)}
  <1> SUFFICES ASSUME Wrong # {} PROVE FALSE
    <2>1. j \in 0..j
      OBVIOUS
    <2>2. Wrong = {} => Right(j)
      BY <2>1
    <2> QED BY <2>2
  <1>1. Wrong \in SUBSET Nat
    OBVIOUS
  <1>2. PICK k \in Wrong : \A m \in Wrong : k <= m
    BY <1>1, LeastNat
  <1>3. Power2[i] \in Nat
    BY Power2Nat, BitsFact
  <1>4. k # 0
    BY <1>3, Power2Step
  <1>5. k \in 1..j /\ k - 1 \in 0..j /\ ~(k <= k - 1) /\ i + k \in 1..Bits
        /\ k \in 1..Bits /\ (i + k) - 1 = i + (k - 1) /\ k - 1 \in 0..Bits
    BY <1>4, BitsFact
  <1>6. Power2[i + (k - 1)] = Power2[i] * Power2[k - 1]
    BY <1>2, <1>5
  <1>7. Power2[i + k] = 2 * Power2[i + (k - 1)] /\ Power2[k] = 2 * Power2[k - 1]
    BY <1>5, Power2Step
  <1>8. Power2[k - 1] \in Nat
    BY <1>5, Power2Nat
  <1>9. Power2[i + k] = Power2[i] * Power2[k]
    BY <1>3, <1>6, <1>7, <1>8
  <1> QED BY <1>9

LEMMA Power2Monotone ==
  ASSUME NEW i \in Nat, NEW j \in Nat, i <= j, j <= Bits
  PROVE  Power2[i] <= Power2[j]
  <1>1. j - i \in Nat /\ i + (j - i) = j
    OBVIOUS
  <1>2. Power2[j] = Power2[i] * Power2[j - i]
    BY <1>1, Power2Sum
  <1>3. Power2[i] \in Nat /\ Power2[j - i] \in Nat \ {0}
    BY <1>1, Power2Nat, BitsFact
  <1> QED BY <1>2, <1>3

(* The words, and half of the range of two.                                *)
LEMMA WordsFact ==
  /\ Word \in Nat \ {0} /\ Word = Power2[WordBits] /\ Word >= 2
  /\ DWord \in Nat \ {0} /\ DWord = Power2[Bits] /\ DWord = Word * Word
  /\ DWord \div 2 = Power2[Bits - 1] /\ DWord = 2 * Power2[Bits - 1]
  <1>1. WordBits \in 1..Bits /\ Bits \in 1..Bits /\ Bits - 1 \in 0..Bits
        /\ WordBits - 1 \in 0..Bits
    BY BitsFact
  <1>2. Word \in Nat \ {0} /\ Word = Power2[WordBits]
    BY <1>1, Power2Nat, BitsFact DEF Word
  <1>3. Word >= 2
    <2>1. Word = 2 * Power2[WordBits - 1] /\ Power2[WordBits - 1] \in Nat \ {0}
      BY <1>1, <1>2, Power2Step, Power2Nat
    <2> QED BY <2>1
  <1>4. DWord = Power2[Bits] /\ DWord = Word * Word
    BY <1>2, Power2Sum, BitsFact DEF DWord
  <1>5. DWord = 2 * Power2[Bits - 1] /\ Power2[Bits - 1] \in Nat \ {0}
    BY <1>1, <1>4, Power2Step, Power2Nat
  <1> QED BY <1>2, <1>3, <1>4, <1>5

-----------------------------------------------------------------------------
(* Every number of two words but 0 has a highest bit.                      *)
TopBit(x, h) == Power2[h] <= x /\ x < Power2[h + 1]

LEMMA HasTopBit ==
  ASSUME NEW w \in 1..Bits, NEW x \in Nat \ {0}, x < Power2[w]
  PROVE  \E h \in 0..(w - 1) : TopBit(x, h)
  <1> DEFINE Above == {k \in 0..w : x < Power2[k]}
  <1>1. Above \in SUBSET Nat /\ w \in Above
    BY BitsFact
  <1>2. PICK k \in Above : \A m \in Above : k <= m
    BY <1>1, LeastNat
  <1>3. k \in 0..w /\ x < Power2[k]
    OBVIOUS
  <1>4. k # 0
    BY <1>3, Power2Step
  <1>5. k - 1 \in 0..(w - 1) /\ k - 1 \in 0..w /\ ~(k <= k - 1) /\ (k - 1) + 1 = k
        /\ k - 1 \in 0..Bits
    BY <1>3, <1>4, BitsFact
  <1>6. ~(x < Power2[k - 1]) /\ Power2[k - 1] \in Nat
    BY <1>2, <1>5, Power2Nat
  <1>7. TopBit(x, k - 1)
    BY <1>3, <1>5, <1>6 DEF TopBit
  <1> QED BY <1>5, <1>7

LEMMA ClzIs ==
  ASSUME NEW x \in Nat \ {0}, NEW h \in 0..(WordBits - 1), TopBit(x, h)
  PROVE  Clz(x) = WordBits - 1 - h
  <1>1. h + 1 \in Int /\ WordBits - 1 \in Int /\ h \in Nat /\ h + 1 <= Bits
    BY BitsFact
  <1>2. {k \in 0..(WordBits - 1) : x < Power2[k]} = (h + 1)..(WordBits - 1)
    <2>1. ASSUME NEW k \in 0..(WordBits - 1)
          PROVE  x < Power2[k] <=> h + 1 <= k
      <3>1. k \in 0..Bits /\ h \in 0..Bits /\ h + 1 \in 0..Bits
        BY <1>1, BitsFact
      <3>2. Power2[k] \in Nat /\ Power2[h] \in Nat /\ Power2[h + 1] \in Nat
        BY <3>1, Power2Nat
      <3>3. CASE h + 1 <= k
        <4>1. Power2[h + 1] <= Power2[k]
          BY <1>1, <3>1, <3>3, Power2Monotone
        <4> QED BY <3>2, <3>3, <4>1 DEF TopBit
      <3>4. CASE k <= h
        <4>1. Power2[k] <= Power2[h]
          BY <1>1, <3>1, <3>4, Power2Monotone
        <4> QED BY <1>1, <3>2, <3>4, <4>1 DEF TopBit
      <3> QED BY <1>1, <3>3, <3>4
    <2> QED BY <1>1, <2>1
  <1>3. Cardinality((h + 1)..(WordBits - 1)) =
          IF h + 1 > WordBits - 1 THEN 0 ELSE WordBits - 1 - (h + 1) + 1
    BY <1>1, FS_Interval, Zenon
  <1>4. Cardinality((h + 1)..(WordBits - 1)) = WordBits - 1 - h
    <2> DEFINE c == Cardinality((h + 1)..(WordBits - 1))
    <2>1. c = IF h + 1 > WordBits - 1 THEN 0 ELSE WordBits - 1 - (h + 1) + 1
      BY <1>3
    <2> HIDE DEF c
    <2>2. c = WordBits - 1 - h
      BY <1>1, <2>1, BitsFact
    <2> QED BY <2>2 DEF c
  <1> QED BY <1>2, <1>4, Zenon DEF Clz

(* A number and its halves.                                                *)
LEMMA Halves ==
  ASSUME NEW x \in DWords
  PROVE  /\ x \in Nat /\ High(x) \in 0..(Word - 1) /\ Low(x) \in 0..(Word - 1)
         /\ x = Word * High(x) + Low(x)
  <1>1. x \in Nat /\ x < Word * Word /\ Word \in Nat \ {0}
    BY WordsFact DEF DWords
  <1>2. /\ High(x) \in Nat /\ Low(x) \in 0..(Word - 1)
        /\ x = Word * High(x) + Low(x)
    BY <1>1, DivMod DEF High, Low
  <1>3. High(x) < Word
    <2>1. CASE Word <= High(x)
      <3>1. Word * Word <= Word * High(x)
        BY <1>1, <1>2, <2>1, TimesMonotone
      <3>2. Word * Word \in Nat /\ Word * High(x) \in Nat
        BY <1>1, <1>2, Times
      <3> QED BY <1>1, <1>2, <3>1, <3>2
    <2> QED BY <1>1, <1>2, <2>1
  <1> QED BY <1>1, <1>2, <1>3

(* The highest bit of the upper half is the one of the number.             *)
LEMMA HighTopBit ==
  ASSUME NEW x \in DWords, NEW h \in 0..(WordBits - 1), High(x) # 0, TopBit(High(x), h)
  PROVE  TopBit(x, WordBits + h)
  <1>1. /\ x \in Nat /\ High(x) \in Nat /\ Low(x) \in 0..(Word - 1)
        /\ x = Word * High(x) + Low(x)
        /\ Word \in Nat \ {0} /\ Word = Power2[WordBits]
    BY Halves, WordsFact
  <1>2. /\ h \in Nat /\ WordBits \in Nat /\ WordBits + h <= Bits
        /\ h + 1 \in Nat /\ WordBits + (h + 1) <= Bits
        /\ h \in 0..Bits /\ h + 1 \in 0..Bits
    BY BitsFact
  <1>3. /\ Power2[WordBits + h] = Word * Power2[h]
        /\ Power2[WordBits + (h + 1)] = Word * Power2[h + 1]
    BY <1>1, <1>2, Power2Sum
  <1>4. Power2[h] \in Nat /\ Power2[h + 1] \in Nat
    BY <1>2, Power2Nat
  <1>5. Word * Power2[h] <= Word * High(x) /\ Word * (High(x) + 1) <= Word * Power2[h + 1]
    BY <1>1, <1>4, TimesMonotone DEF TopBit
  <1>6. Word * (High(x) + 1) = Word * High(x) + Word
    BY <1>1
  <1>7. Word * High(x) \in Nat /\ Word * Power2[h] \in Nat /\ Word * Power2[h + 1] \in Nat
    BY <1>1, <1>4, Times
  <1> DEFINE p == Word * High(x)
  <1>8. /\ Power2[WordBits + h] <= p /\ p + Word <= Power2[WordBits + (h + 1)]
        /\ p \in Nat /\ x = p + Low(x)
        /\ Power2[WordBits + h] \in Nat /\ Power2[WordBits + (h + 1)] \in Nat
    BY <1>1, <1>3, <1>5, <1>6, <1>7
  <1>9. WordBits + (h + 1) = (WordBits + h) + 1
    BY <1>2
  <1> HIDE DEF p
  <1> QED BY <1>1, <1>8, <1>9 DEF TopBit

(* The shift is the distance of the highest bits, and one.                 *)
LEMMA ShiftIs ==
  ASSUME NEW n \in DWords, NEW d \in DWords, High(n) # 0, d # 0
  PROVE  \E s, t \in 0..(Bits - 1) :
           /\ TopBit(n, s) /\ TopBit(d, t) /\ Shift(n, d) = 1 + s - t
           /\ WordBits <= s /\ (High(d) # 0 <=> WordBits <= t)
           /\ High(d) # 0 => TopBit(High(d), t - WordBits)
  <1>1. WordBits \in 1..Bits /\ Word = Power2[WordBits] /\ Word \in Nat
    BY BitsFact, WordsFact
  <1>2. /\ High(n) \in Nat \ {0} /\ High(n) < Power2[WordBits]
        /\ High(d) \in 0..(Word - 1) /\ Low(d) \in 0..(Word - 1)
        /\ d = Word * High(d) + Low(d)
    BY <1>1, Halves
  <1>3. PICK h \in 0..(WordBits - 1) : TopBit(High(n), h)
    BY <1>1, <1>2, HasTopBit
  <1>4. TopBit(n, WordBits + h) /\ Clz(High(n)) = WordBits - 1 - h
    BY <1>2, <1>3, HighTopBit, ClzIs
  <1>5. WordBits + h \in 0..(Bits - 1) /\ WordBits <= WordBits + h /\ h \in Int
    BY BitsFact
  <1>6. CASE High(d) = 0
    <2>1. d = Low(d) /\ Low(d) \in Nat \ {0} /\ Low(d) < Power2[WordBits]
      BY <1>1, <1>2, <1>6
    <2>2. PICK t \in 0..(WordBits - 1) : TopBit(Low(d), t)
      BY <1>1, <2>1, HasTopBit
    <2>3. Clz(Low(d)) = WordBits - 1 - t
      BY <2>1, <2>2, ClzIs
    <2>4. Shift(n, d) = 1 + (WordBits - 1 - t) - (WordBits - 1 - h) + WordBits
      BY <1>4, <1>6, <2>3 DEF Shift
    <2>5. t \in 0..(Bits - 1) /\ ~(WordBits <= t) /\ Shift(n, d) = 1 + (WordBits + h) - t
      BY <1>1, <1>5, <2>4, BitsFact
    <2>6. TopBit(d, t)
      BY <2>1, <2>2
    <2> QED BY <1>4, <1>5, <1>6, <2>5, <2>6
  <1>7. CASE High(d) # 0
    <2>1. High(d) \in Nat \ {0} /\ High(d) < Power2[WordBits]
      BY <1>1, <1>2, <1>7
    <2>2. PICK t \in 0..(WordBits - 1) : TopBit(High(d), t)
      BY <1>1, <2>1, HasTopBit
    <2>3. TopBit(d, WordBits + t) /\ Clz(High(d)) = WordBits - 1 - t
      BY <1>7, <2>1, <2>2, HighTopBit, ClzIs
    <2>4. Shift(n, d) = 1 + (WordBits - 1 - t) - (WordBits - 1 - h) + 0
      BY <1>4, <1>7, <2>3 DEF Shift
    <2>5. /\ WordBits + t \in 0..(Bits - 1) /\ WordBits <= WordBits + t
          /\ (WordBits + t) - WordBits = t
          /\ Shift(n, d) = 1 + (WordBits + h) - (WordBits + t)
      BY <1>1, <1>5, <2>4, BitsFact
    <2>6. TopBit(High(d), (WordBits + t) - WordBits)
      BY <2>2, <2>5
    <2> QED BY <1>4, <1>5, <1>7, <2>3, <2>5, <2>6
  <1> QED BY <1>6, <1>7

-----------------------------------------------------------------------------
(* The loop after k turns, m of them left: the upper bits of n are divided *)
(* but for the remainder r, the others lie at the top of q, above what     *)
(* there is of the quotient.                                               *)
Divided(n, d, s, k, m) ==
  \E rest, v \in Nat :
    /\ s.q = rest * Power2[Bits - m] + v /\ rest < Power2[m] /\ v < Power2[k]
    /\ s.r \in Nat /\ s.r < d /\ s.carry \in {0, 1}
    /\ n = ((2 * v + s.carry) * d + s.r) * Power2[m] + rest

(* One turn on numbers: H and L are the weights of the next bit of n in n  *)
(* and of the first bit of the quotient's place in q.                      *)
LEMMA NextBit ==
  ASSUME NEW H \in Nat \ {0}, NEW rest \in Nat, rest < 2 * H
  PROVE  \E b \in {0, 1}, low \in Nat : rest = b * H + low /\ low < H
  <1>1. CASE rest < H
    <2>1. rest = 0 * H + rest
      OBVIOUS
    <2> QED BY <1>1, <2>1
  <1>2. CASE rest >= H
    <2>1. rest = 1 * H + (rest - H) /\ rest - H \in Nat /\ rest - H < H
      BY <1>2
    <2> QED BY <2>1
  <1> QED BY <1>1, <1>2

LEMMA BelowProduct ==
  ASSUME NEW H \in Nat, NEW L \in Nat, NEW low \in Nat, NEW v \in Nat, low < H, v < L
  PROVE  low * L + v \in Nat /\ low * L + v < H * L
  <1>1. L * low <= L * (H - 1)
    BY TimesMonotone
  <1>2. L * (H - 1) = H * L - L /\ L * low = low * L /\ low * L \in Nat /\ H * L \in Nat
    BY Times
  <1> QED BY <1>1, <1>2

LEMMA ShiftedOut ==
  ASSUME NEW H \in Nat \ {0}, NEW L \in Nat \ {0}, NEW b \in {0, 1}, NEW low \in Nat,
         NEW v \in Nat, NEW c \in {0, 1}, low < H, v < L
  PROVE  LET q == (b * H + low) * L + v
         IN  /\ q \in Nat /\ H * L \in Nat \ {0} /\ 2 * (H * L) \in Nat \ {0}
             /\ q \div (H * L) = b
             /\ (2 * q + c) % (2 * (H * L)) = low * (2 * L) + (2 * v + c)
  <1> DEFINE q == (b * H + low) * L + v
             M == H * L
             t == low * L + v
  <1>1. M \in Nat \ {0}
    BY Times
  <1>2. t \in Nat /\ t < M
    BY BelowProduct
  <1>3. q = b * M + t
    <2>1. CASE b = 0
      BY <2>1
    <2>2. CASE b = 1
      <3>1. (1 * H + low) * L = H * L + low * L
        OBVIOUS
      <3> QED BY <2>2, <3>1
    <2> QED BY <2>1, <2>2
  <1>4. low * (2 * L) + (2 * v + c) = 2 * t + c
    <2>1. low * (2 * L) = 2 * (low * L) /\ low * L \in Nat
      BY Times
    <2> QED BY <2>1
  <1> HIDE DEF M, t, q
  <1>5. q \in Nat
    BY <1>1, <1>2, <1>3
  <1>6. q = M * b + t /\ t \in 0..(M - 1)
    BY <1>1, <1>2, <1>3
  <1>7. q \div M = b
    BY <1>1, <1>5, <1>6, Quotient
  <1>8. 2 * q + c = (2 * M) * b + (2 * t + c) /\ 2 * t + c \in 0..(2 * M - 1)
    BY <1>1, <1>2, <1>3
  <1>9. (2 * q + c) % (2 * M) = 2 * t + c
    <2>1. 2 * M \in Nat \ {0} /\ 2 * q + c \in Nat /\ b \in Int
      BY <1>1, <1>5
    <2> QED BY <1>8, <2>1, Quotient
  <1>10. 2 * M \in Nat \ {0}
    BY <1>1
  <1> QED BY <1>1, <1>4, <1>5, <1>7, <1>9, <1>10 DEF M, q

(* The sign of the difference is the comparison: the divisor is not above  *)
(* half of the range, or the remainder is not below it.                    *)
LEMMA SignTells ==
  ASSUME NEW h \in Nat \ {0}, NEW x \in Nat, NEW d \in Nat, x < 2 * h, d < 2 * h, x < 2 * d,
         d > h => x >= h
  PROVE  /\ (d - x - 1) % (2 * h) >= h <=> x >= d
         /\ x >= d => (x - d) % (2 * h) = x - d
  <1> DEFINE M == 2 * h
  <1>0. M \in Nat \ {0} /\ M = 2 * h
    OBVIOUS
  <1>1. CASE x < d
    <2>1. d - x - 1 = M * 0 + (d - x - 1) /\ d - x - 1 \in 0..(M - 1) /\ d - x - 1 \in Int
      BY <1>1
    <2>2. d - x - 1 < h
      BY <1>1
    <2> HIDE DEF M
    <2>3. (d - x - 1) % M = d - x - 1
      BY <1>0, <2>1, SameRemainder
    <2> QED BY <1>0, <1>1, <2>2, <2>3
  <1>2. CASE x >= d
    <2>1. /\ d - x - 1 = M * (-1) + (M + d - x - 1) /\ M + d - x - 1 \in 0..(M - 1)
          /\ d - x - 1 \in Int
          /\ M + d - x - 1 >= h
      BY <1>2
    <2>2. x - d = M * 0 + (x - d) /\ x - d \in 0..(M - 1) /\ x - d \in Int
      BY <1>2
    <2> HIDE DEF M
    <2>3. (d - x - 1) % M = M + d - x - 1 /\ (x - d) % M = x - d
      BY <1>0, <2>1, <2>2, SameRemainder
    <2> QED BY <1>0, <1>2, <2>1, <2>3
  <1> QED BY <1>1, <1>2

LEMMA TurnDivides ==
  ASSUME NEW ord, ord # "little", NEW n \in DWords, NEW d \in DWords, d # 0,
         NEW k \in Nat, NEW m \in 1..Bits, k + m <= Bits, NEW s, Divided(n, d, s, k, m),
         d > Power2[Bits - 1] => k = 0 /\ m = 1 /\ n >= Power2[Bits - 1]
  PROVE  Divided(n, d, Turn(ord, d, s), k + 1, m - 1)
  <1> DEFINE H == Power2[m - 1]
             L == Power2[Bits - m]
  <1>1. /\ m - 1 \in 0..Bits /\ Bits - m \in 0..Bits /\ Bits - (m - 1) \in 1..Bits
        /\ (Bits - (m - 1)) - 1 = Bits - m /\ (m - 1) + (Bits - m) = Bits - 1
        /\ k \in 0..Bits /\ k + 1 \in 1..Bits /\ (k + 1) - 1 = k /\ k <= Bits - m
        /\ Bits - 1 \in 0..Bits
    BY BitsFact
  <1>2. H \in Nat \ {0} /\ L \in Nat \ {0} /\ Power2[k] \in Nat /\ Power2[k] <= L
    BY <1>1, Power2Nat, Power2Monotone, BitsFact
  <1>3. /\ Power2[m] = 2 * H /\ Power2[Bits - (m - 1)] = 2 * L
        /\ Power2[k + 1] = 2 * Power2[k] /\ Power2[Bits - 1] = H * L
    <2>1. Power2[m] = 2 * H
      BY Power2Step
    <2>2. Power2[Bits - (m - 1)] = 2 * Power2[(Bits - (m - 1)) - 1]
      BY <1>1, Power2Step
    <2>3. Power2[k + 1] = 2 * Power2[(k + 1) - 1]
      BY <1>1, Power2Step
    <2>4. Power2[(m - 1) + (Bits - m)] = H * L
      <3>1. m - 1 \in Nat /\ Bits - m \in Nat /\ (m - 1) + (Bits - m) <= Bits
        BY BitsFact
      <3> QED BY <3>1, Power2Sum
    <2> QED BY <1>1, <2>1, <2>2, <2>3, <2>4
  <1>4. DWord = 2 * (H * L) /\ DWord \div 2 = H * L /\ H * L \in Nat \ {0}
    BY <1>1, <1>2, <1>3, WordsFact, Times
  <1>5. n \in Nat /\ d \in Nat \ {0} /\ n < DWord /\ d < DWord
    BY WordsFact DEF DWords
  <1>6. PICK rest \in Nat, v \in Nat :
          /\ s.q = rest * L + v /\ rest < 2 * H /\ v < Power2[k]
          /\ s.r \in Nat /\ s.r < d /\ s.carry \in {0, 1}
          /\ n = ((2 * v + s.carry) * d + s.r) * (2 * H) + rest
    BY <1>3 DEF Divided
  <1> HIDE DEF H, L
  <1>7. PICK b \in {0, 1}, low \in Nat : rest = b * H + low /\ low < H
    BY <1>2, <1>6, NextBit
  <1> DEFINE r == s.r
             c == s.carry
             Q == 2 * v + c
             x == 2 * r + b
  <1>8. r \in Nat /\ r < d /\ c \in {0, 1} /\ Q \in Nat /\ x \in Nat /\ x < 2 * d
    BY <1>5, <1>6
  <1>9. n = (2 * (Q * d) + x) * H + low /\ Q * d \in Nat
    <2>1. n = (Q * d + r) * (2 * H) + (b * H + low)
      BY <1>6, <1>7
    <2>2. Q * d \in Nat
      BY <1>5, <1>8, Times
    <2> DEFINE y == Q * d
    <2> HIDE DEF y, Q, r
    <2>3. (y + r) * (2 * H) + b * H = (2 * y + x) * H
      <3>1. y \in Nat /\ r \in Nat /\ H \in Nat
        BY <1>2, <1>8, <2>2 DEF y
      <3>2. CASE b = 0
        BY <3>1, <3>2
      <3>3. CASE b = 1
        BY <3>1, <3>3
      <3> QED BY <3>2, <3>3
    <2>4. (y + r) * (2 * H) \in Nat /\ b * H \in Nat
      BY <1>2, <1>8, <2>2, Times DEF y
    <2> QED BY <2>1, <2>2, <2>3, <2>4 DEF y
  <1>10. x <= n
    <2> DEFINE z == 2 * (Q * d) + x
    <2>1. z \in Nat /\ x <= z
      BY <1>8, <1>9
    <2>2. n = z * H + low
      BY <1>9
    <2> HIDE DEF z
    <2>3. z <= z * H
      BY <1>2, <2>1
    <2> QED BY <1>2, <1>8, <2>1, <2>2, <2>3
  <1>11. s.q \div (DWord \div 2) = b /\ (2 * s.q + c) % DWord = low * (2 * L) + Q
    <2> DEFINE q == (b * H + low) * L + v
    <2>1. v < L
      <3> HIDE DEF x, Q
      <3> QED BY <1>2, <1>6
    <2>2. s.q = q
      BY <1>6, <1>7
    <2>3. c \in {0, 1}
      BY <1>8
    <2> HIDE DEF c
    <2>4. q \div (H * L) = b /\ (2 * q + c) % (2 * (H * L)) = low * (2 * L) + (2 * v + c)
      BY <1>2, <1>7, <2>1, <2>3, ShiftedOut
    <2> HIDE DEF q
    <2>5. s.q \div (DWord \div 2) = b
      BY <1>4, <2>2, <2>4
    <2>6. (2 * s.q + c) % DWord = low * (2 * L) + (2 * v + c)
      BY <1>4, <2>2, <2>4
    <2> QED BY <2>5, <2>6
  <1>12. (2 * s.r + s.q \div (DWord \div 2)) % DWord = x
    <2>1. 2 * s.r + s.q \div (DWord \div 2) = x
      BY <1>11
    <2>2. x \in 0..(DWord - 1) /\ DWord \in Nat \ {0}
      <3> HIDE DEF x
      <3> QED BY <1>5, <1>8, <1>10, WordsFact
    <2> HIDE DEF x
    <2>3. x % DWord = x
      BY <2>2
    <2> QED BY <2>1, <2>3
  <1>13. d > H * L => x >= H * L
    <2> SUFFICES ASSUME d > H * L
                 PROVE  x >= H * L
      OBVIOUS
    <2>1. k = 0 /\ m = 1 /\ n >= H * L
      BY <1>3
    <2>2. H = 1 /\ low = 0 /\ v = 0
      BY <1>6, <1>7, <2>1, Power2Step DEF H
    <2>3. n = 2 * (Q * d) + x
      BY <1>8, <1>9, <2>2
    <2>4. Q = 0
      <3>1. CASE c = 1
        <4>1. Q = 1
          BY <2>2, <3>1
        <4>2. n = 2 * d + x
          BY <1>5, <2>3, <4>1
        <4> QED BY <1>4, <1>5, <1>8, <4>2
      <3> QED BY <1>8, <2>2, <3>1
    <2> QED BY <1>5, <1>8, <2>1, <2>3, <2>4
  <1> DEFINE neg == (d - x - 1) % DWord >= DWord \div 2
             rr == IF x >= d THEN x - d ELSE x
             cc == IF x >= d THEN 1 ELSE 0
  <1>14. (neg <=> x >= d) /\ (x >= d => (x - d) % DWord = x - d)
    <2> HIDE DEF x
    <2>1. x < 2 * (H * L) /\ d < 2 * (H * L)
      BY <1>4, <1>5, <1>8, <1>10
    <2>2. /\ (d - x - 1) % (2 * (H * L)) >= H * L <=> x >= d
          /\ x >= d => (x - d) % (2 * (H * L)) = x - d
      BY <1>4, <1>5, <1>8, <1>13, <2>1, SignTells
    <2> QED BY <1>4, <2>2
  <1>15. Turn(ord, d, s) = [q |-> low * (2 * L) + Q, r |-> rr, carry |-> cc]
    <2> DEFINE r1 == (2 * s.r + s.q \div (DWord \div 2)) % DWord
               less == (d - r1 - 1) % DWord >= DWord \div 2
    <2>1. Turn(ord, d, s) =
            [ q |-> (2 * s.q + s.carry) % DWord,
              r |-> IF less THEN (r1 - d) % DWord ELSE r1,
              carry |-> IF less THEN 1 ELSE 0 ]
      BY Zenon DEF Turn, Fields
    <2> HIDE DEF r1
    <2>2. r1 = x
      BY <1>12 DEF r1
    <2>3. Turn(ord, d, s) =
            [ q |-> (2 * s.q + s.carry) % DWord,
              r |-> IF neg THEN (x - d) % DWord ELSE x,
              carry |-> IF neg THEN 1 ELSE 0 ]
      <3> HIDE DEF x
      <3> QED BY <2>1, <2>2
    <2> HIDE DEF neg, x, Q
    <2> QED BY <1>11, <1>14, <2>3
  <1>16. rr \in Nat /\ rr < d /\ cc \in {0, 1} /\ cc * d + rr = x
    BY <1>5, <1>8
  <1>17. n = ((2 * Q + cc) * d + rr) * H + low
    <2> HIDE DEF Q, x, rr
    <2>1. (2 * Q + cc) * d + rr = 2 * (Q * d) + x
      <3>1. (2 * Q + cc) * d = 2 * (Q * d) + cc * d
        <4>1. CASE x >= d
          BY <1>5, <1>8, <4>1
        <4>2. CASE ~(x >= d)
          BY <1>5, <1>8, <4>2
        <4> QED BY <4>1, <4>2
      <3>2. cc * d \in Int
        BY <1>5, <1>16
      <3> HIDE DEF cc
      <3> QED BY <1>8, <1>9, <1>16, <3>1, <3>2
    <2> QED BY <1>9, <2>1
  <1>18. Q < Power2[k + 1]
    BY <1>2, <1>3, <1>6, <1>8
  <1> DEFINE t == Turn(ord, d, s)
  <1>19. t.q = low * (2 * L) + Q /\ t.r = rr /\ t.carry = cc
    BY <1>15
  <1>20. H = Power2[m - 1]
    BY DEF H
  <1> HIDE DEF t, Q, rr, cc
  <1>21. /\ t.q = low * Power2[Bits - (m - 1)] + Q /\ low < Power2[m - 1] /\ Q < Power2[k + 1]
         /\ t.r \in Nat /\ t.r < d /\ t.carry \in {0, 1}
         /\ n = ((2 * Q + t.carry) * d + t.r) * Power2[m - 1] + low
    BY <1>3, <1>7, <1>16, <1>17, <1>18, <1>19, <1>20
  <1> QED BY <1>7, <1>8, <1>21 DEF Divided, t

-----------------------------------------------------------------------------
(* The loop before its first turn, after the shifts by sr.                 *)
Loaded(n, sr) == [ q |-> (n * Power2[2 * WordBits - sr]) % DWord,
                   r |-> n \div Power2[sr], carry |-> 0 ]

LEMMA LoadedDivided ==
  ASSUME NEW n \in DWords, NEW d \in DWords, NEW s \in 0..(Bits - 1), NEW t \in 0..(Bits - 1),
         TopBit(n, s), TopBit(d, t), NEW sr \in 1..Bits, sr = 1 + s - t
  PROVE  Divided(n, d, Loaded(n, sr), 0, sr)
  <1> DEFINE H == Power2[sr]
             L == Power2[Bits - sr]
             T == Power2[t]
  <1>1. /\ sr \in 0..Bits /\ Bits - sr \in 0..Bits /\ t \in 0..Bits /\ s + 1 = sr + t
        /\ sr \in Nat /\ t \in Nat /\ Bits - sr \in Nat /\ sr + t <= Bits /\ sr + (Bits - sr) = Bits
        /\ 2 * WordBits - sr = Bits - sr /\ sr + (Bits - sr) <= Bits
    BY BitsFact DEF Bits
  <1>2. H \in Nat \ {0} /\ L \in Nat \ {0} /\ T \in Nat \ {0}
    BY <1>1, Power2Nat
  <1>3. DWord = H * L
    <2>1. Power2[sr + (Bits - sr)] = H * L
      BY <1>1, Power2Sum
    <2> QED BY <1>1, <2>1, WordsFact
  <1>4. n < H * T /\ T <= d
    <2>1. Power2[sr + t] = H * T
      BY <1>1, Power2Sum
    <2> QED BY <1>1, <2>1 DEF TopBit
  <1>5. n \in Nat /\ d \in Nat
    BY WordsFact DEF DWords
  <1> DEFINE r == n \div H
             rest == n % H
             l == Loaded(n, sr)
  <1>6. l.q = (n * L) % DWord /\ l.r = r /\ l.carry = 0
    BY <1>1 DEF Loaded
  <1>7. Power2[0] = 1 /\ H = Power2[sr] /\ L = Power2[Bits - sr]
    BY Power2Step
  <1> HIDE DEF l, H, L, T
  <1>8. r \in Nat /\ rest \in 0..(H - 1) /\ n = H * r + rest
    BY <1>2, <1>5, DivMod
  <1> HIDE DEF r, rest
  <1>9. r < d
    <2>1. CASE T <= r
      <3>1. H * T <= H * r
        BY <1>2, <1>8, <2>1, TimesMonotone
      <3>2. H * T \in Nat /\ H * r \in Nat
        BY <1>2, <1>8, Times
      <3> QED BY <1>4, <1>5, <1>8, <3>1, <3>2
    <2> QED BY <1>2, <1>4, <1>5, <1>8, <2>1
  <1>10. l.q = rest * L + 0
    <2>1. rest \in Nat /\ rest < H /\ 0 \in Nat /\ 0 < L /\ H \in Nat /\ L \in Nat
      BY <1>2, <1>8
    <2>2. rest * L + 0 \in Nat /\ rest * L + 0 < H * L
      BY <2>1, BelowProduct
    <2>3. n * L = (H * L) * r + rest * L
      <3>1. (H * r + rest) * L = (H * L) * r + rest * L
        BY <1>8, <2>1
      <3> QED BY <1>8, <3>1
    <2>4. n * L = DWord * r + rest * L /\ rest * L \in 0..(DWord - 1) /\ n * L \in Nat
          /\ DWord \in Nat \ {0} /\ rest * L \in Nat
      <3>1. H * L \in Nat /\ n * L \in Nat /\ rest * L \in Nat
        BY <1>5, <2>1, Times
      <3> DEFINE M == H * L
                 y == rest * L
      <3>2. M \in Nat /\ y \in Nat /\ y < M
        BY <2>2, <3>1
      <3> HIDE DEF M, y
      <3>3. y \in 0..(M - 1)
        BY <3>2
      <3> QED BY <1>3, <2>3, <3>1, <3>3, WordsFact DEF M, y
    <2> DEFINE N == n * L
               y == rest * L
    <2>5. N \in Int /\ N = DWord * r + y /\ y \in 0..(DWord - 1) /\ r \in Int
          /\ DWord \in Nat \ {0} /\ l.q = N % DWord
      BY <1>6, <1>8, <2>4
    <2> HIDE DEF N, y
    <2>6. N % DWord = y
      BY <2>5, SameRemainder
    <2>7. l.q = y /\ y \in Nat
      BY <2>5, <2>6
    <2> QED BY <2>7 DEF y
  <1>11. n = ((2 * 0 + l.carry) * d + l.r) * H + rest
    BY <1>2, <1>5, <1>6, <1>8
  <1>12. rest \in Nat /\ rest < H /\ 0 < Power2[0] /\ l.r \in Nat /\ l.r < d /\ l.carry \in {0, 1}
    BY <1>2, <1>6, <1>7, <1>8, <1>9
  <1>13. /\ l.q = rest * Power2[Bits - sr] + 0 /\ rest < Power2[sr] /\ 0 < Power2[0]
         /\ l.r \in Nat /\ l.r < d /\ l.carry \in {0, 1}
         /\ n = ((2 * 0 + l.carry) * d + l.r) * Power2[sr] + rest
    BY <1>7, <1>10, <1>11, <1>12
  <1> QED BY <1>12, <1>13 DEF Divided, l

AreTurns(f, ord, n, d, sr) ==
  f = [k \in 0..sr |->
         IF k = 0 THEN [ q |-> (n * Power2[2 * WordBits - sr]) % DWord,
                         r |-> n \div Power2[sr], carry |-> 0 ]
         ELSE Turn(ord, d, f[k - 1])]

LEMMA TurnsAre ==
  ASSUME NEW ord, ord # "little", NEW n \in DWords, NEW d \in DWords, NEW sr \in 1..Bits
  PROVE  \E f : /\ AreTurns(f, ord, n, d, sr)
                /\ LongDivision(ord, n, d, sr) =
                     << (2 * Fields(ord, f[sr].q) + f[sr].carry) % DWord,
                        Fields(ord, f[sr].r) >>
  <1> DEFINE S == [q : Nat, r : Nat, carry : {0, 1}]
             h == [s \in S |-> Turn(ord, d, s)]
  <1>1. ASSUME NEW s \in S
        PROVE  Turn(ord, d, s) \in S
    <2> DEFINE r1 == (2 * s.r + s.q \div (DWord \div 2)) % DWord
               less == (d - r1 - 1) % DWord >= DWord \div 2
    <2>1. Turn(ord, d, s) =
            [ q |-> (2 * s.q + s.carry) % DWord,
              r |-> IF less THEN (r1 - d) % DWord ELSE r1,
              carry |-> IF less THEN 1 ELSE 0 ]
      BY Zenon DEF Turn, Fields
    <2>2. s.q \in Nat /\ s.r \in Nat /\ s.carry \in Nat /\ d \in Nat
          /\ DWord \in Nat \ {0} /\ DWord \div 2 \in Nat \ {0}
      <3>1. Bits - 1 \in 0..Bits
        BY BitsFact
      <3> QED BY <3>1, WordsFact, Power2Nat DEF DWords
    <2>3. r1 \in Nat
      <3> DEFINE y == s.q \div (DWord \div 2)
      <3>1. y \in Nat
        BY <2>2, DivMod
      <3> HIDE DEF y
      <3>2. 2 * s.r + y \in Nat
        BY <2>2, <3>1
      <3> DEFINE z == 2 * s.r + y
      <3>3. z \in Nat
        BY <3>2
      <3> HIDE DEF z
      <3>4. z % DWord \in Nat
        BY <2>2, <3>3, DivMod
      <3> QED BY <3>4 DEF y, z
    <2> HIDE DEF r1
    <2>4. (r1 - d) % DWord \in Nat /\ (2 * s.q + s.carry) % DWord \in Nat
      BY <2>2, <2>3
    <2> HIDE DEF less
    <2> QED BY <2>1, <2>3, <2>4
  <1>2. h \in [S -> S]
    BY <1>1
  <1>3. Loaded(n, sr) \in S
    <2>1. sr \in 0..Bits /\ Bits - sr \in 0..Bits /\ 2 * WordBits - sr = Bits - sr
      BY BitsFact DEF Bits
    <2>2. n \in Nat /\ Power2[sr] \in Nat \ {0} /\ Power2[2 * WordBits - sr] \in Nat
          /\ DWord \in Nat \ {0}
      BY <2>1, Power2Nat, WordsFact DEF DWords
    <2> DEFINE N == n * Power2[2 * WordBits - sr]
    <2>3. N \in Nat
      BY <2>2, Times
    <2> HIDE DEF N
    <2>4. N % DWord \in Nat
      BY <2>2, <2>3, DivMod
    <2>5. n \div Power2[sr] \in Nat
      BY <2>2, DivMod
    <2> QED BY <2>4, <2>5 DEF Loaded, N
  <1>4. PICK f : Recurs(f, S, Loaded(n, sr), h, sr)
    <2> HIDE DEF S, h
    <2>1. sr \in Nat
      BY BitsFact
    <2> QED BY <1>2, <1>3, <2>1, Recursion
  <1>5. f \in [0..sr -> S] /\ f[0] = Loaded(n, sr) /\ \A k \in 1..sr : f[k] = h[f[k - 1]]
    BY <1>4 DEF Recurs
  <1>6. \A k \in 1..sr : f[k] = Turn(ord, d, f[k - 1])
    <2> SUFFICES ASSUME NEW k \in 1..sr
                 PROVE  f[k] = Turn(ord, d, f[k - 1])
      OBVIOUS
    <2>1. k - 1 \in 0..sr
      BY BitsFact
    <2>2. f[k - 1] \in S
      <3> HIDE DEF S
      <3> QED BY <1>5, <2>1
    <2>3. h[f[k - 1]] = Turn(ord, d, f[k - 1])
      <3> HIDE DEF S
      <3> QED BY <2>2
    <2> QED BY <1>5, <2>3
  <1> HIDE DEF S, h
  <1>7. AreTurns(f, ord, n, d, sr)
    <2>1. \A k \in 0..sr :
            f[k] = IF k = 0 THEN Loaded(n, sr) ELSE Turn(ord, d, f[k - 1])
      BY <1>5, <1>6, BitsFact
    <2>2. f = [k \in 0..sr |-> IF k = 0 THEN Loaded(n, sr) ELSE Turn(ord, d, f[k - 1])]
      BY <1>5, <2>1
    <2> QED BY <2>2, Zenon DEF AreTurns, Loaded
  <1> DEFINE g == CHOOSE e : AreTurns(e, ord, n, d, sr)
  <1>8. AreTurns(g, ord, n, d, sr)
    BY <1>7
  <1>9. LongDivision(ord, n, d, sr) =
          << (2 * Fields(ord, g[sr].q) + g[sr].carry) % DWord, Fields(ord, g[sr].r) >>
    BY Zenon DEF LongDivision, AreTurns
  <1> QED BY <1>8, <1>9

(* The quotient and the remainder of two numbers.                          *)
Divides(res, n, d) == res[1] \in Nat /\ res[2] \in 0..(d - 1) /\ n = res[1] * d + res[2]

LEMMA LongDivides ==
  ASSUME NEW ord, ord # "little", NEW n \in DWords, NEW d \in DWords,
         NEW s \in 0..(Bits - 1), NEW t \in 0..(Bits - 1), TopBit(n, s), TopBit(d, t),
         NEW sr \in 1..Bits, sr = 1 + s - t
  PROVE  Divides(LongDivision(ord, n, d, sr), n, d)
  <1>1. PICK f : /\ AreTurns(f, ord, n, d, sr)
                 /\ LongDivision(ord, n, d, sr) =
                      << (2 * Fields(ord, f[sr].q) + f[sr].carry) % DWord,
                         Fields(ord, f[sr].r) >>
    BY TurnsAre
  <1>2. sr \in Nat \ {0} /\ sr \in 0..Bits
    BY BitsFact
  <1>3. n \in Nat /\ d \in Nat /\ n < DWord
    BY WordsFact DEF DWords
  <1>4. d \in Nat \ {0}
    <2>1. t \in 0..Bits
      BY BitsFact
    <2>2. Power2[t] \in Nat \ {0}
      BY <2>1, Power2Nat
    <2> QED BY <1>3, <2>2 DEF TopBit
  <1>5. \A k \in 0..sr :
          f[k] = IF k = 0 THEN [ q |-> (n * Power2[2 * WordBits - sr]) % DWord,
                                 r |-> n \div Power2[sr], carry |-> 0 ]
                 ELSE Turn(ord, d, f[k - 1])
    BY <1>1, Zenon DEF AreTurns
  <1>6. f[0] = Loaded(n, sr) /\ 0 \in 0..sr
    <2>1. 0 \in 0..sr
      BY <1>2
    <2> QED BY <1>5, <2>1, Zenon DEF Loaded
  <1>7. d > Power2[Bits - 1] => sr = 1 /\ n >= Power2[Bits - 1]
    <2> SUFFICES ASSUME d > Power2[Bits - 1]
                 PROVE  sr = 1 /\ n >= Power2[Bits - 1]
      OBVIOUS
    <2>1. t = Bits - 1
      <3>1. CASE t + 1 <= Bits - 1
        <4>1. t + 1 \in Nat /\ Bits - 1 \in Nat /\ Bits - 1 <= Bits
              /\ t + 1 \in 0..Bits /\ Bits - 1 \in 0..Bits
          BY BitsFact
        <4>2. Power2[t + 1] <= Power2[Bits - 1]
          BY <3>1, <4>1, Power2Monotone
        <4>3. Power2[t + 1] \in Nat /\ Power2[Bits - 1] \in Nat
          BY <4>1, Power2Nat
        <4> QED BY <1>3, <4>2, <4>3 DEF TopBit
      <3> QED BY <3>1, BitsFact
    <2>2. s = Bits - 1 /\ sr = 1
      BY <1>2, <2>1, BitsFact
    <2>3. Bits - 1 \in 0..Bits
      BY BitsFact
    <2>4. Power2[Bits - 1] \in Nat
      BY <2>3, Power2Nat
    <2> QED BY <1>3, <2>2, <2>4 DEF TopBit
  <1> DEFINE Wrong == {k \in 0..sr : ~Divided(n, d, f[k], k, sr - k)}
  <1>8. Wrong = {}
    <2> SUFFICES ASSUME Wrong # {} PROVE FALSE
      OBVIOUS
    <2>1. Wrong \in SUBSET Nat
      OBVIOUS
    <2>2. PICK k \in Wrong : \A i \in Wrong : k <= i
      BY <2>1, LeastNat
    <2>3. k \in 0..sr /\ ~Divided(n, d, f[k], k, sr - k)
      OBVIOUS
    <2>4. k # 0
      <3>1. Divided(n, d, f[0], 0, sr)
        BY <1>6, LoadedDivided
      <3>2. sr - 0 = sr
        BY <1>2
      <3> QED BY <2>3, <3>1, <3>2
    <2> DEFINE j == k - 1
               m == sr - j
    <2>5. /\ j \in 0..sr /\ j \in Nat /\ ~(k <= j) /\ m \in 1..Bits /\ j + m <= Bits
          /\ j + 1 = k /\ m - 1 = sr - k /\ m = sr - j
      BY <1>2, <2>3, <2>4, BitsFact
    <2>6. f[k] = Turn(ord, d, f[j])
      BY <1>5, <2>3, <2>4, Zenon
    <2>7. d > Power2[Bits - 1] => j = 0 /\ m = 1 /\ n >= Power2[Bits - 1]
      BY <1>7, <2>3, <2>4
    <2> HIDE DEF j, m
    <2>8. j \notin Wrong
      BY <2>2, <2>5
    <2>9. Divided(n, d, f[j], j, m)
      BY <2>5, <2>8
    <2> HIDE DEF Wrong
    <2>10. d # 0
      BY <1>4
    <2>11. Divided(n, d, Turn(ord, d, f[j]), j + 1, m - 1)
      BY <2>5, <2>7, <2>9, <2>10, TurnDivides
    <2>12. Divided(n, d, f[k], k, sr - k)
      BY <2>5, <2>6, <2>11
    <2> QED BY <2>3, <2>12
  <1>9. Divided(n, d, f[sr], sr, 0)
    <2>1. sr \in 0..sr /\ sr - sr = 0
      BY <1>2
    <2>2. Divided(n, d, f[sr], sr, sr - sr)
      BY <1>8, <2>1
    <2> QED BY <2>1, <2>2
  <1> HIDE DEF Wrong
  <1> DEFINE l == f[sr]
  <1>10. PICK rest \in Nat, v \in Nat :
          /\ l.q = rest * Power2[Bits - 0] + v /\ rest < Power2[0] /\ v < Power2[sr]
          /\ l.r \in Nat /\ l.r < d /\ l.carry \in {0, 1}
          /\ n = ((2 * v + l.carry) * d + l.r) * Power2[0] + rest
    BY <1>9 DEF Divided
  <1> DEFINE Q == 2 * v + l.carry
  <1>11. LongDivision(ord, n, d, sr) = << (2 * l.q + l.carry) % DWord, l.r >>
    BY <1>1 DEF Fields
  <1> HIDE DEF l
  <1>12. rest = 0 /\ l.q = v /\ Q \in Nat
    <2>1. rest = 0
      BY <1>10, Power2Step
    <2>2. Bits - 0 = Bits /\ Bits \in 0..Bits
      BY BitsFact
    <2>3. Power2[Bits] \in Nat
      BY <2>2, Power2Nat
    <2>4. 0 * Power2[Bits] + v = v
      BY <2>3
    <2> QED BY <1>10, <2>1, <2>2, <2>4
  <1>13. n = Q * d + l.r
    <2>1. n = (Q * d + l.r) * 1 + 0
      BY <1>10, <1>12, Power2Step
    <2>2. Q * d \in Nat
      BY <1>3, <1>12, Times
    <2> HIDE DEF Q
    <2> QED BY <1>10, <2>1, <2>2
  <1>14. Q <= n
    <2> HIDE DEF Q
    <2>1. Q * 1 <= Q * d
      BY <1>4, <1>12, TimesMonotone
    <2>2. Q * d \in Nat /\ Q * 1 = Q
      BY <1>3, <1>12, Times
    <2> QED BY <1>10, <1>12, <1>13, <2>1, <2>2
  <1>15. (2 * l.q + l.carry) % DWord = Q
    <2>1. 2 * l.q + l.carry = Q
      BY <1>12
    <2> HIDE DEF Q
    <2>2. Q % DWord = Q
      BY <1>3, <1>12, <1>14, WordsFact
    <2> QED BY <2>1, <2>2
  <1>16. l.r \in 0..(d - 1)
    BY <1>4, <1>10
  <1> HIDE DEF Q
  <1> QED BY <1>11, <1>12, <1>13, <1>15, <1>16 DEF Divides

-----------------------------------------------------------------------------
(* __udivmoddi4 divides, where the halves lie as they are declared.        *)
Limit(d) == IF High(d) = 0 THEN 2 * WordBits
            ELSE IF Low(d) = 0 THEN WordBits - 1 ELSE WordBits

HalvesDivide(n, d) ==
  High(n) # 0 /\ Low(d) = 0 /\ (Low(n) = 0 \/ PowerOf2(High(d)))

Masks(n, d) == High(n) # 0 /\ High(d) = 0 /\ PowerOf2(Low(d))

LEMMA UdivmodCases ==
  ASSUME NEW ord, ord # "little", NEW n, NEW d, High(d) = 0 => Low(d) # 0
  PROVE  LET res == udivmoddi4(ord, n, d)
         IN  /\ High(n) = 0 /\ High(d) = 0 => res = << Low(n) \div Low(d), Low(n) % Low(d) >>
             /\ High(n) = 0 /\ High(d) # 0 => res = << 0, Low(n) >>
             /\ HalvesDivide(n, d) =>
                  res = << High(n) \div High(d), (High(n) % High(d)) * Word + Low(n) >>
             /\ Masks(n, d) => res = << n \div Low(d), Low(n) % Low(d) >>
             /\ High(n) # 0 /\ ~HalvesDivide(n, d) /\ ~Masks(n, d) =>
                  res = IF Shift(n, d) \in 1..Limit(d)
                        THEN LongDivision(ord, n, d, Shift(n, d)) ELSE << 0, n >>
  <1> DEFINE res == udivmoddi4(ord, n, d)
  <1>1. res = CASE High(n) = 0 /\ High(d) = 0 -> << Low(n) \div Low(d), Low(n) % Low(d) >>
                [] High(n) = 0 /\ High(d) # 0 -> << 0, Low(n) >>
                [] HalvesDivide(n, d) ->
                     << High(n) \div High(d), (High(n) % High(d)) * Word + Low(n) >>
                [] Masks(n, d) -> << n \div Low(d), Low(n) % Low(d) >>
                [] OTHER -> IF Shift(n, d) \in 1..Limit(d)
                            THEN LongDivision(ord, n, d, Shift(n, d)) ELSE << 0, n >>
    BY DEF udivmoddi4, HalvesDivide, Masks, Limit, Fields
  <1> HIDE DEF res
  <1>2. CASE High(n) = 0 /\ High(d) = 0
    BY <1>1, <1>2 DEF HalvesDivide, Masks, res
  <1>3. CASE High(n) = 0 /\ High(d) # 0
    BY <1>1, <1>3 DEF HalvesDivide, Masks, res
  <1>4. CASE HalvesDivide(n, d)
    BY <1>1, <1>4 DEF HalvesDivide, Masks, res
  <1>5. CASE Masks(n, d)
    BY <1>1, <1>5 DEF HalvesDivide, Masks, res
  <1>6. CASE High(n) # 0 /\ ~HalvesDivide(n, d) /\ ~Masks(n, d)
    BY <1>1, <1>6 DEF res
  <1> QED BY <1>2, <1>3, <1>4, <1>5, <1>6

(* The divisor is a number of high halves.                                 *)
LEMMA HalvesAreRight ==
  ASSUME NEW n \in DWords, NEW d \in DWords, d # 0, Low(d) = 0
  PROVE  Divides(<< High(n) \div High(d), (High(n) % High(d)) * Word + Low(n) >>, n, d)
  <1> DEFINE hn == High(n)
             hd == High(d)
             ln == Low(n)
             q == hn \div hd
             r == hn % hd
  <1>1. /\ hn \in Nat /\ ln \in 0..(Word - 1) /\ n = Word * hn + ln /\ n \in Nat
        /\ hd \in Nat /\ d = Word * hd + 0 /\ Word \in Nat \ {0}
    BY Halves, WordsFact
  <1> HIDE DEF hn, hd, ln
  <1>2. hd \in Nat \ {0} /\ d = hd * Word
    BY <1>1
  <1>3. q \in Nat /\ r \in 0..(hd - 1) /\ hn = hd * q + r
    BY <1>1, <1>2, DivMod
  <1> HIDE DEF q, r
  <1>4. r \in Nat /\ r < hd /\ ln \in Nat /\ ln < Word
    BY <1>1, <1>2, <1>3
  <1>5. r * Word + ln \in Nat /\ r * Word + ln < hd * Word
    BY <1>1, <1>2, <1>4, BelowProduct
  <1>6. n = q * d + (r * Word + ln)
    <2>1. Word * (hd * q + r) = q * (hd * Word) + r * Word
      BY <1>1, <1>2, <1>3, <1>4
    <2>2. q * (hd * Word) \in Nat /\ r * Word \in Nat
      <3>1. hd * Word \in Nat
        BY <1>1, <1>2, Times
      <3> QED BY <1>1, <1>3, <1>4, <3>1, Times
    <2>3. n = (q * (hd * Word) + r * Word) + ln
      BY <1>1, <1>3, <2>1
    <2>4. q * d = q * (hd * Word)
      BY <1>2
    <2> QED BY <1>4, <2>2, <2>3, <2>4
  <1>7. d \in Nat
    BY WordsFact DEF DWords
  <1>8. r * Word + ln \in 0..(d - 1)
    BY <1>2, <1>5, <1>7
  <1>9. q \in Nat /\ r * Word + ln \in 0..(d - 1) /\ n = q * d + (r * Word + ln)
    BY <1>3, <1>6, <1>8
  <1> QED BY <1>9 DEF Divides, q, r, hn, hd, ln

(* The low bits are the remainder by a power of two.                       *)
LEMMA MaskIsRight ==
  ASSUME NEW n \in DWords, NEW d \in DWords, d # 0, High(d) = 0, PowerOf2(Low(d))
  PROVE  Divides(<< n \div Low(d), Low(n) % Low(d) >>, n, d)
  <1> DEFINE hn == High(n)
             ln == Low(n)
  <1>1. /\ hn \in Nat /\ ln \in Nat /\ n = Word * hn + ln /\ n \in Nat
        /\ d \in Nat \ {0} /\ d = Low(d) /\ Word \in Nat \ {0} /\ Word = Power2[WordBits]
    BY Halves, WordsFact
  <1>2. PICK k \in 0..WordBits : d = Power2[k]
    BY <1>1 DEF PowerOf2
  <1> DEFINE p == Power2[WordBits - k]
  <1>3. Word = d * p /\ p \in Nat
    <2>1. /\ k \in Nat /\ WordBits - k \in Nat /\ k + (WordBits - k) <= Bits
          /\ k + (WordBits - k) = WordBits /\ WordBits - k \in 0..Bits
      BY BitsFact
    <2>2. Power2[k + (WordBits - k)] = Power2[k] * Power2[WordBits - k]
      BY <2>1, Power2Sum
    <2> QED BY <1>1, <1>2, <2>1, <2>2, Power2Nat
  <1> HIDE DEF hn, ln, p
  <1> DEFINE q == n \div d
             r == n % d
             q1 == ln \div d
             r1 == ln % d
  <1>4. q \in Nat /\ r \in 0..(d - 1) /\ n = d * q + r
    BY <1>1, DivMod
  <1>5. q1 \in Nat /\ r1 \in 0..(d - 1) /\ ln = d * q1 + r1
    BY <1>1, DivMod
  <1>6. n = d * (p * hn + q1) + r1
    <2> HIDE DEF q1, r1
    <2>1. (d * p) * hn + (d * q1 + r1) = d * (p * hn + q1) + r1
      <3>1. d \in Nat /\ r1 \in Nat
        BY <1>1, <1>5
      <3> QED BY <1>1, <1>3, <1>5, <3>1
    <2>2. n = (d * p) * hn + (d * q1 + r1)
      BY <1>1, <1>3, <1>5
    <2> QED BY <2>1, <2>2
  <1>7. r = r1
    <2> DEFINE e == p * hn + q1
    <2>1. e \in Int
      <3> HIDE DEF q1
      <3>1. p * hn \in Nat
        BY <1>1, <1>3, Times
      <3> QED BY <1>5, <3>1
    <2> HIDE DEF e, r1, q1
    <2>2. n \in Int /\ n = d * e + r1
      BY <1>1, <1>6 DEF e
    <2>3. d \in Nat \ {0} /\ r1 \in 0..(d - 1)
      BY <1>1, <1>5
    <2>4. n % d = r1
      BY <2>1, <2>2, <2>3, SameRemainder
    <2> QED BY <2>4
  <1> HIDE DEF q, r, r1, q1
  <1>8. d * q = q * d
    BY <1>1, <1>4
  <1>9. q \in Nat /\ r1 \in 0..(d - 1) /\ n = q * d + r1
    BY <1>4, <1>7, <1>8
  <1>10. << n \div Low(d), Low(n) % Low(d) >> = << q, r1 >>
    BY <1>1, Zenon DEF q, r1, ln
  <1> QED BY <1>9, <1>10 DEF Divides

(* Without a shift within its limit the divisor is the greater number.     *)
LEMMA ShiftsAreRight ==
  ASSUME NEW ord, ord # "little", NEW n \in DWords, NEW d \in DWords, d # 0,
         High(n) # 0, ~HalvesDivide(n, d)
  PROVE  Divides(IF Shift(n, d) \in 1..Limit(d) THEN LongDivision(ord, n, d, Shift(n, d))
                 ELSE << 0, n >>, n, d)
  <1>1. PICK s \in 0..(Bits - 1), t \in 0..(Bits - 1) :
          /\ TopBit(n, s) /\ TopBit(d, t) /\ Shift(n, d) = 1 + s - t
          /\ WordBits <= s /\ (High(d) # 0 <=> WordBits <= t)
          /\ High(d) # 0 => TopBit(High(d), t - WordBits)
    BY ShiftIs
  <1>2. s \in Nat /\ t \in Nat /\ s <= Bits - 1 /\ t <= Bits - 1 /\ WordBits \in Nat \ {0}
        /\ Bits = WordBits + WordBits /\ 2 * WordBits = Bits /\ s \in Int /\ t \in Int
    BY BitsFact
  <1>3. CASE Shift(n, d) \in 1..Limit(d)
    <2> DEFINE sr == Shift(n, d)
    <2>1. sr \in 1..Bits /\ sr = 1 + s - t
      BY <1>1, <1>2, <1>3 DEF Limit
    <2> HIDE DEF sr
    <2>2. Divides(LongDivision(ord, n, d, sr), n, d)
      BY <1>1, <2>1, LongDivides
    <2> QED BY <1>3, <2>2 DEF sr
  <1>4. CASE Shift(n, d) \notin 1..Limit(d)
    <2>1. s < t
      <3>1. High(d) # 0 /\ WordBits <= t
        BY <1>1, <1>2, <1>4 DEF Limit
      <3>2. CASE Low(d) # 0
        BY <1>1, <1>2, <1>4, <3>1, <3>2 DEF Limit
      <3>3. CASE Low(d) = 0
        <4>1. Limit(d) = WordBits - 1
          BY <3>1, <3>3 DEF Limit
        <4>2. CASE t = WordBits
          <5>1. t - WordBits = 0
            BY <1>2, <4>2
          <5>2. TopBit(High(d), 0)
            BY <1>1, <3>1, <5>1
          <5>3. 1 \in 1..Bits /\ 1 - 1 = 0 /\ 0 + 1 = 1 /\ 0 \in 0..WordBits
            BY <1>2
          <5>4. Power2[0] = 1 /\ Power2[1] = 2
            BY <5>3, Power2Step
          <5>5. High(d) \in Nat
            BY Halves, WordsFact
          <5>6. High(d) = Power2[0]
            BY <5>2, <5>3, <5>4, <5>5 DEF TopBit
          <5> QED BY <3>3, <5>3, <5>6 DEF HalvesDivide, PowerOf2
        <4>3. CASE t # WordBits
          BY <1>1, <1>2, <1>4, <3>1, <4>1, <4>3
        <4> QED BY <4>2, <4>3
      <3> QED BY <3>2, <3>3
    <2>2. s + 1 \in Nat /\ s + 1 <= t /\ t <= Bits /\ s + 1 \in 0..Bits /\ t \in 0..Bits
      BY <1>2, <2>1
    <2>3. Power2[s + 1] <= Power2[t]
      BY <1>2, <2>2, Power2Monotone
    <2>4. n \in Nat /\ d \in Nat /\ Power2[s + 1] \in Nat /\ Power2[t] \in Nat
      BY <2>2, Power2Nat, WordsFact DEF DWords
    <2>5. n < d
      BY <1>1, <2>3, <2>4 DEF TopBit
    <2>6. n \in 0..(d - 1) /\ n = 0 * d + n
      BY <2>4, <2>5
    <2> QED BY <1>4, <2>6 DEF Divides
  <1> QED BY <1>3, <1>4

LEMMA UdivmodDivides ==
  ASSUME NEW ord, ord # "little", NEW n \in DWords, NEW d \in DWords, d # 0
  PROVE  Divides(udivmoddi4(ord, n, d), n, d)
  <1> DEFINE res == udivmoddi4(ord, n, d)
  <1>1. /\ High(n) \in Nat /\ Low(n) \in Nat /\ n = Word * High(n) + Low(n) /\ n \in Nat
        /\ High(d) \in Nat /\ Low(d) \in Nat /\ d = Word * High(d) + Low(d) /\ d \in Nat \ {0}
        /\ Word \in Nat \ {0} /\ Low(n) < Word
    BY Halves, WordsFact
  <1>2. High(d) = 0 => Low(d) # 0
    BY <1>1
  <1>3. /\ High(n) = 0 /\ High(d) = 0 => res = << Low(n) \div Low(d), Low(n) % Low(d) >>
        /\ High(n) = 0 /\ High(d) # 0 => res = << 0, Low(n) >>
        /\ HalvesDivide(n, d) =>
             res = << High(n) \div High(d), (High(n) % High(d)) * Word + Low(n) >>
        /\ Masks(n, d) => res = << n \div Low(d), Low(n) % Low(d) >>
        /\ High(n) # 0 /\ ~HalvesDivide(n, d) /\ ~Masks(n, d) =>
             res = IF Shift(n, d) \in 1..Limit(d)
                   THEN LongDivision(ord, n, d, Shift(n, d)) ELSE << 0, n >>
    BY <1>2, UdivmodCases
  <1> HIDE DEF res
  <1>4. CASE High(n) = 0 /\ High(d) = 0
    <2>1. n = Low(n) /\ d = Low(d)
      BY <1>1, <1>4
    <2>2. res = << n \div d, n % d >>
      BY <1>3, <1>4, <2>1
    <2>3. n \div d \in Nat /\ n % d \in 0..(d - 1) /\ n = d * (n \div d) + (n % d)
      BY <1>1, DivMod
    <2> DEFINE q == n \div d
               r == n % d
    <2> HIDE DEF q, r
    <2>4. q \in Nat /\ r \in 0..(d - 1) /\ n = d * q + r /\ res = <<q, r>>
      BY <2>2, <2>3 DEF q, r
    <2>5. d * q = q * d
      BY <1>1, <2>4
    <2> QED BY <2>4, <2>5 DEF Divides, res
  <1>5. CASE High(n) = 0 /\ High(d) # 0
    <2>1. n = Low(n)
      BY <1>1, <1>5
    <2>2. Word <= Word * High(d)
      BY <1>1, <1>5
    <2>3. n < d
      <3> DEFINE p == Word * High(d)
      <3>1. p \in Nat /\ Word <= p /\ d = p + Low(d)
        BY <1>1, <2>2, Times
      <3> HIDE DEF p
      <3> QED BY <1>1, <2>1, <3>1
    <2>4. n \in 0..(d - 1) /\ n = 0 * d + n /\ res = <<0, n>>
      BY <1>1, <1>3, <1>5, <2>1, <2>3
    <2> QED BY <2>4 DEF Divides, res
  <1>6. CASE HalvesDivide(n, d)
    BY <1>3, <1>6, HalvesAreRight DEF HalvesDivide, res
  <1>7. CASE Masks(n, d)
    BY <1>3, <1>7, MaskIsRight DEF Masks, res
  <1>8. CASE High(n) # 0 /\ ~HalvesDivide(n, d) /\ ~Masks(n, d)
    BY <1>3, <1>8, ShiftsAreRight DEF res
  <1> QED BY <1>4, <1>5, <1>6, <1>7, <1>8

(* On the core numbers of one word are divided by their high fields.       *)
LEMMA OneWordDivides ==
  ASSUME NEW ord, ord = "little", NEW a \in 0..(Word - 1), NEW b \in 1..(Word - 1)
  PROVE  Divides(udivmoddi4(ord, a, b), a, b)
  <1>1. Word \in Nat \ {0} /\ a \in Nat /\ a < Word /\ b \in Nat \ {0} /\ b < Word
    BY WordsFact
  <1>2. ASSUME NEW x \in 0..(Word - 1)
        PROVE  /\ Fields(ord, x) = x * Word /\ High(x * Word) = x /\ Low(x * Word) = 0
               /\ Fields(ord, x * Word) = x
    <2>1. x \in Nat /\ x < Word /\ x = Word * 0 + x /\ x \in 0..(Word - 1) /\ 0 \in Int /\ x \in Int
      BY <1>1
    <2>2. x \div Word = 0 /\ x % Word = x
      BY <1>1, <2>1, Quotient
    <2> DEFINE y == x * Word
    <2>3. y \in Nat /\ y = Word * x + 0 /\ 0 \in 0..(Word - 1)
      BY <1>1, <2>1
    <2> HIDE DEF y
    <2>4. y \div Word = x /\ y % Word = 0
      BY <1>1, <2>1, <2>3, Quotient
    <2>5. High(x) = 0 /\ Low(x) = x /\ High(y) = x /\ Low(y) = 0
      BY <2>2, <2>4 DEF High, Low
    <2>6. Fields(ord, x) = x * Word + 0 /\ Fields(ord, y) = 0 * Word + x
      BY <2>5 DEF Fields
    <2>7. x * Word + 0 = y /\ 0 * Word + x = x
      BY <1>1, <2>1 DEF y
    <2> QED BY <2>5, <2>6, <2>7 DEF y
  <1> DEFINE n == Fields(ord, a)
             d == Fields(ord, b)
             res == udivmoddi4(ord, a, b)
  <1>3. n = a * Word /\ d = b * Word /\ b \in 0..(Word - 1)
    BY <1>1, <1>2
  <1>4. High(n) = a /\ Low(n) = 0 /\ High(d) = b /\ Low(d) = 0
    BY <1>2, <1>3
  <1>5. CASE a = 0
    <2>1. res = << 0, Low(n) >>
      BY <1>1, <1>4, <1>5 DEF udivmoddi4
    <2> HIDE DEF res
    <2>2. res = << 0, 0 >> /\ 0 \in 0..(b - 1) /\ a = 0 * b + 0
      BY <1>1, <1>4, <1>5, <2>1
    <2> QED BY <2>2 DEF Divides, res
  <1>6. CASE a # 0
    <2> DEFINE q == a \div b
               r == a % b
    <2>1. q \in Nat /\ r \in 0..(b - 1) /\ a = b * q + r
      BY <1>1, DivMod
    <2>2. res = << High(n) \div High(d), Fields(ord, (High(n) % High(d)) * Word + Low(n)) >>
      BY <1>1, <1>4, <1>6 DEF udivmoddi4
    <2>3. res = << q, Fields(ord, r * Word + 0) >>
      BY <1>4, <2>2
    <2> HIDE DEF q, r, res
    <2>4. r * Word + 0 = r * Word /\ r \in 0..(Word - 1) /\ b * q = q * b
      BY <1>1, <2>1
    <2>5. Fields(ord, r * Word + 0) = r
      BY <1>2, <2>4
    <2>6. res = <<q, r>> /\ a = q * b + r
      BY <2>1, <2>3, <2>4, <2>5
    <2> QED BY <2>1, <2>6 DEF Divides, res
  <1> QED BY <1>5, <1>6

-----------------------------------------------------------------------------
(* Signed numbers and their magnitudes.                                    *)
HalfRange == DWord \div 2

LEMMA HalfRangeFact == HalfRange \in Nat \ {0} /\ DWord = 2 * HalfRange /\ DWord \in Nat \ {0}
  <1>1. Bits - 1 \in 0..Bits
    BY BitsFact
  <1> QED BY <1>1, WordsFact, Power2Nat DEF HalfRange

LEMMA NegatedIs ==
  ASSUME NEW x \in DWords
  PROVE  Negated(x) = IF x = 0 THEN 0 ELSE DWord - x
  <1>1. x \in Nat /\ x < DWord /\ DWord \in Nat \ {0}
    BY HalfRangeFact DEF DWords
  <1>2. CASE x = 0
    <2>1. -x \in Int /\ 0 \in Int /\ 0 \in 0..(DWord - 1) /\ -x = DWord * 0 + 0
      BY <1>1, <1>2
    <2>2. (-x) % DWord = 0
      BY <1>1, <2>1, SameRemainder
    <2> QED BY <1>2, <2>2 DEF Negated
  <1>3. CASE x # 0
    <2>1. -x \in Int /\ -1 \in Int /\ DWord - x \in 0..(DWord - 1)
          /\ -x = DWord * (-1) + (DWord - x)
      BY <1>1, <1>3
    <2>2. (-x) % DWord = DWord - x
      BY <1>1, <2>1, SameRemainder
    <2> QED BY <1>3, <2>2 DEF Negated
  <1> QED BY <1>2, <1>3

LEMMA MagnitudeIs ==
  ASSUME NEW op, op # "unsigned", NEW x \in DWords
  PROVE  /\ Magnitude(x) \in 0..HalfRange
         /\ Value(op, x) = IF Negative(x) THEN -Magnitude(x) ELSE Magnitude(x)
         /\ Negative(x) <=> Value(op, x) < 0
         /\ Magnitude(x) = 0 <=> x = 0
         /\ ~Negative(x) => Magnitude(x) < HalfRange
         /\ Value(op, x) = x \/ Value(op, x) = x - DWord
         /\ Magn(Value(op, x)) = Magnitude(x)
         /\ Negative(x) /\ Magnitude(x) = HalfRange => x = HalfRange
         /\ Negative(x) /\ Magnitude(x) = 1 => x = DWord - 1
  <1>1. x \in Nat /\ x < DWord /\ HalfRange \in Nat \ {0} /\ DWord = 2 * HalfRange
    BY HalfRangeFact DEF DWords
  <1>2. Negative(x) <=> x >= HalfRange
    BY DEF Negative, HalfRange
  <1>3. CASE x >= HalfRange
    <2>1. Magnitude(x) = DWord - x /\ Value(op, x) = x - DWord
      BY <1>1, <1>2, <1>3, NegatedIs DEF Magnitude, Value
    <2> QED BY <1>1, <1>2, <1>3, <2>1 DEF Magn
  <1>4. CASE x < HalfRange
    <2>1. Magnitude(x) = x /\ Value(op, x) = x
      BY <1>1, <1>2, <1>4 DEF Magnitude, Value
    <2> QED BY <1>1, <1>2, <1>4, <2>1 DEF Magn
  <1> QED BY <1>1, <1>3, <1>4

(* What a small number and its negation are read as.                       *)
LEMMA SignedValue ==
  ASSUME NEW op, op # "unsigned", NEW x \in 0..HalfRange
  PROVE  /\ Negated(x) \in DWords /\ x \in DWords
         /\ Value(op, Negated(x)) = -x /\ (x < HalfRange => Value(op, x) = x)
  <1>1. x \in Nat /\ x <= HalfRange /\ HalfRange \in Nat \ {0} /\ DWord = 2 * HalfRange
    BY HalfRangeFact
  <1>2. x \in DWords
    BY <1>1 DEF DWords
  <1>3. Negated(x) = IF x = 0 THEN 0 ELSE DWord - x
    BY <1>2, NegatedIs
  <1>4. \A y : Negative(y) <=> y >= HalfRange
    BY DEF Negative, HalfRange
  <1>5. CASE x = 0
    <2>1. Negated(x) = 0
      BY <1>3, <1>5
    <2>2. ~Negative(Negated(x)) /\ ~Negative(x)
      BY <1>1, <1>4, <1>5, <2>1
    <2>3. Value(op, Negated(x)) = 0 /\ Value(op, x) = x
      BY <2>1, <2>2 DEF Value
    <2>4. -x = 0 - x
      BY <1>1
    <2>5. -x = 0
      BY <1>5, <2>4
    <2> QED BY <1>2, <1>5, <2>1, <2>3, <2>5
  <1>6. CASE x # 0
    <2>1. Negated(x) = DWord - x
      BY <1>3, <1>6
    <2>2. Negative(Negated(x)) /\ (x < HalfRange => ~Negative(x))
      BY <1>1, <1>4, <1>6, <2>1
    <2>3. Value(op, Negated(x)) = (DWord - x) - DWord /\ (x < HalfRange => Value(op, x) = x)
      BY <2>1, <2>2 DEF Value
    <2>4. DWord - x \in DWords /\ (DWord - x) - DWord = -x
      BY <1>1, <1>6 DEF DWords
    <2> QED BY <1>2, <2>1, <2>3, <2>4
  <1> QED BY <1>5, <1>6

(* With the signs put back the quotient and the remainder are those of C.  *)
IsDivided(A, B, Q, R) ==
  A = Q * B + R /\ Magn(R) < Magn(B) /\ (R = 0 \/ (R < 0 <=> A < 0))

LEMMA SignsPutBack ==
  ASSUME NEW p \in Nat, NEW m \in Nat \ {0}, NEW q \in Nat, NEW r \in 0..(m - 1), p = q * m + r,
         NEW sa \in BOOLEAN, NEW sb \in BOOLEAN
  PROVE  IsDivided(IF sa THEN -p ELSE p, IF sb THEN -m ELSE m,
                   IF sa # sb THEN -q ELSE q, IF sa THEN -r ELSE r)
  <1> DEFINE e == q * m
  <1>1. e \in Nat /\ p = e + r /\ r \in Nat /\ r < m /\ q * m = e
    BY Times
  <1>2. (-q) * m = -e /\ q * (-m) = -e /\ (-q) * (-m) = e
    OBVIOUS
  <1> HIDE DEF e
  <1>3. r # 0 => p > 0
    BY <1>1
  <1>4. CASE sa /\ sb
    <2>1. -p = q * (-m) + (-r)
      BY <1>1, <1>2
    <2>2. IsDivided(-p, -m, q, -r)
      BY <1>1, <1>3, <2>1 DEF IsDivided, Magn
    <2> QED BY <1>4, <2>2
  <1>5. CASE sa /\ ~sb
    <2>1. -p = (-q) * m + (-r)
      BY <1>1, <1>2
    <2>2. IsDivided(-p, m, -q, -r)
      BY <1>1, <1>3, <2>1 DEF IsDivided, Magn
    <2> QED BY <1>5, <2>2
  <1>6. CASE ~sa /\ sb
    <2>1. p = (-q) * (-m) + r
      BY <1>1, <1>2
    <2>2. IsDivided(p, -m, -q, r)
      BY <1>1, <2>1 DEF IsDivided, Magn
    <2> QED BY <1>6, <2>2
  <1>7. CASE ~sa /\ ~sb
    <2>1. p = q * m + r
      BY <1>1
    <2>2. IsDivided(p, m, q, r)
      BY <1>1, <2>1 DEF IsDivided, Magn
    <2> QED BY <1>7, <2>2
  <1> QED BY <1>4, <1>5, <1>6, <1>7

(* The quotient is no number of two words only where C leaves it undefined. *)
LEMMA SignedDivides ==
  ASSUME NEW ord, NEW op, op # "unsigned", NEW a \in DWords, NEW b \in DWords,
         ~Undefined(op, a, b),
         Divides(udivmoddi4(ord, Magnitude(a), Magnitude(b)), Magnitude(a), Magnitude(b))
  PROVE  /\ divdi3(ord, a, b) \in DWords /\ moddi3(ord, a, b) \in DWords
         /\ IsDivided(Value(op, a), Value(op, b),
                      Value(op, divdi3(ord, a, b)), Value(op, moddi3(ord, a, b)))
  <1> DEFINE p == Magnitude(a)
             m == Magnitude(b)
             res == udivmoddi4(ord, p, m)
             q == res[1]
             r == res[2]
             sa == Negative(a)
             sb == Negative(b)
  <1>1. /\ p \in 0..HalfRange /\ Value(op, a) = (IF sa THEN -p ELSE p) /\ (~sa => p < HalfRange)
        /\ (sa /\ p = HalfRange => a = HalfRange)
    <2>1. Magnitude(a) \in 0..HalfRange
      BY MagnitudeIs
    <2>2. Value(op, a) = IF Negative(a) THEN -Magnitude(a) ELSE Magnitude(a)
      BY MagnitudeIs
    <2>3. ~Negative(a) => Magnitude(a) < HalfRange
      BY MagnitudeIs
    <2>4. Negative(a) /\ Magnitude(a) = HalfRange => a = HalfRange
      BY MagnitudeIs
    <2> QED BY <2>1, <2>2, <2>3, <2>4
  <1>2. /\ m \in 0..HalfRange /\ Value(op, b) = (IF sb THEN -m ELSE m)
        /\ (m = 0 <=> b = 0) /\ (sb /\ m = 1 => b = DWord - 1)
    BY MagnitudeIs
  <1>3. b # 0 /\ ~(a = HalfRange /\ b = DWord - 1)
    BY DEF Undefined, HalfRange
  <1>4. q \in Nat /\ r \in 0..(m - 1) /\ p = q * m + r
    BY DEF Divides
  <1>5. sa \in BOOLEAN /\ sb \in BOOLEAN
    BY DEF Negative
  <1>6. divdi3(ord, a, b) = IF sa # sb THEN Negated(q) ELSE q
    BY DEF divdi3
  <1>7. moddi3(ord, a, b) = IF sa THEN Negated(r) ELSE r
    BY DEF moddi3
  <1> HIDE DEF p, m, res, q, r, sa, sb
  <1>8. p \in Nat /\ p <= HalfRange /\ m \in Nat \ {0} /\ m <= HalfRange /\ HalfRange \in Nat \ {0}
    BY <1>1, <1>2, <1>3, HalfRangeFact
  <1>9. r \in 0..HalfRange /\ r < HalfRange
    BY <1>4, <1>8
  <1>10. q * m \in Nat /\ q * 1 <= q * m /\ q * 1 = q /\ r \in Nat
    BY <1>4, <1>8, Times, TimesMonotone
  <1>11. q <= HalfRange
    <2> DEFINE e == q * m
    <2>1. e \in Nat /\ q <= e /\ p = e + r
      BY <1>4, <1>10
    <2> HIDE DEF e
    <2> QED BY <1>4, <1>8, <1>10, <2>1
  <1>12. sa = sb => q < HalfRange
    <2> SUFFICES ASSUME sa = sb, q = HalfRange
                 PROVE  FALSE
      BY <1>4, <1>8, <1>11
    <2>1. m = 1
      <3>1. CASE 2 <= m
        <4>1. q * 2 <= q * m
          BY <1>4, <1>8, <3>1, TimesMonotone
        <4> DEFINE e == q * m
        <4>2. e \in Nat /\ q * 2 <= e /\ p = e + r
          BY <1>4, <1>10, <4>1
        <4> HIDE DEF e
        <4> QED BY <1>8, <1>10, <4>2
      <3> QED BY <1>8, <3>1
    <2>2. p = HalfRange
      BY <1>4, <1>8, <1>10, <2>1
    <2>3. sa
      BY <1>1, <1>8, <2>2
    <2>4. sb
      BY <2>3
    <2>5. a = HalfRange /\ b = DWord - 1
      BY <1>1, <1>2, <2>1, <2>2, <2>3, <2>4
    <2> QED BY <1>3, <2>5
  <1>13. /\ divdi3(ord, a, b) \in DWords
         /\ Value(op, divdi3(ord, a, b)) = IF sa # sb THEN -q ELSE q
    <2>1. q \in 0..HalfRange
      BY <1>4, <1>8, <1>11
    <2>2. /\ Negated(q) \in DWords /\ q \in DWords
          /\ Value(op, Negated(q)) = -q /\ (q < HalfRange => Value(op, q) = q)
      BY <2>1, SignedValue
    <2>3. CASE sa = sb
      BY <1>6, <1>12, <2>2, <2>3
    <2>4. CASE sa # sb
      BY <1>6, <2>2, <2>4
    <2> QED BY <2>3, <2>4
  <1>14. /\ moddi3(ord, a, b) \in DWords
         /\ Value(op, moddi3(ord, a, b)) = IF sa THEN -r ELSE r
    <2>1. /\ Negated(r) \in DWords /\ r \in DWords
          /\ Value(op, Negated(r)) = -r /\ Value(op, r) = r
      BY <1>9, SignedValue
    <2>2. CASE sa
      BY <1>7, <2>1, <2>2
    <2>3. CASE ~sa
      BY <1>7, <2>1, <2>3
    <2> QED BY <2>2, <2>3
  <1>15. IsDivided(IF sa THEN -p ELSE p, IF sb THEN -m ELSE m,
                   IF sa # sb THEN -q ELSE q, IF sa THEN -r ELSE r)
    BY <1>4, <1>5, <1>8, SignsPutBack
  <1>16. IsDivided(Value(op, a), Value(op, b),
                   Value(op, divdi3(ord, a, b)), Value(op, moddi3(ord, a, b)))
    BY <1>1, <1>2, <1>13, <1>14, <1>15
  <1> QED BY <1>13, <1>14, <1>16

(* The remainder that __divmoddi4 takes from the quotient is __moddi3's.   *)
LEMMA RemainderOfQuotient ==
  ASSUME NEW op, op # "unsigned", NEW a \in DWords, NEW b \in DWords,
         NEW q \in DWords, NEW r \in DWords,
         Value(op, a) = Value(op, q) * Value(op, b) + Value(op, r)
  PROVE  (a - q * b) % DWord = r
  <1>1. \A x \in DWords : \E e \in {0, 1} : x = Value(op, x) + DWord * e
    <2> SUFFICES ASSUME NEW x \in DWords
                 PROVE  \E e \in {0, 1} : x = Value(op, x) + DWord * e
      OBVIOUS
    <2>1. x \in Nat /\ DWord \in Nat
      BY HalfRangeFact DEF DWords
    <2>2. Value(op, x) = x \/ Value(op, x) = x - DWord
      BY MagnitudeIs
    <2>3. CASE Value(op, x) = x
      <3>1. x = Value(op, x) + DWord * 0
        BY <2>1, <2>3
      <3> QED BY <3>1
    <2>4. CASE Value(op, x) = x - DWord
      <3>1. x = Value(op, x) + DWord * 1
        BY <2>1, <2>4
      <3> QED BY <3>1
    <2> QED BY <2>2, <2>3, <2>4
  <1>2. PICK i \in {0, 1} : a = Value(op, a) + DWord * i
    BY <1>1
  <1>3. PICK j \in {0, 1} : b = Value(op, b) + DWord * j
    BY <1>1
  <1>4. PICK k \in {0, 1} : q = Value(op, q) + DWord * k
    BY <1>1
  <1>5. PICK l \in {0, 1} : r = Value(op, r) + DWord * l
    BY <1>1
  <1> DEFINE A == Value(op, a)
             B == Value(op, b)
             Q == Value(op, q)
             R == Value(op, r)
             M == DWord
  <1>6. /\ a \in Nat /\ b \in Nat /\ q \in Nat /\ r \in 0..(M - 1) /\ r \in Nat /\ M \in Nat \ {0}
        /\ A \in Int /\ B \in Int /\ Q \in Int /\ R \in Int
    <2>1. a \in Nat /\ b \in Nat /\ q \in Nat /\ r \in 0..(M - 1) /\ M \in Nat \ {0}
      BY HalfRangeFact DEF DWords
    <2> QED BY <2>1 DEF Value
  <1>7. a = A + M * i /\ b = B + M * j /\ q = Q + M * k /\ r = R + M * l /\ A = Q * B + R
    BY <1>2, <1>3, <1>4, <1>5
  <1> HIDE DEF A, B, Q, R, M
  <1> DEFINE u == i - l - Q * j - k * B - M * (k * j)
  <1>8. q * b = Q * B + M * (Q * j) + M * (k * B) + M * (M * (k * j))
    <2>1. q * b = (Q + M * k) * (B + M * j)
      BY <1>7
    <2>2. (Q + M * k) * (B + M * j) = Q * B + M * (Q * j) + M * (k * B) + M * (M * (k * j))
      BY <1>6
    <2> QED BY <2>1, <2>2
  <1>9. a - q * b = M * u + r
    BY <1>6, <1>7, <1>8
  <1>10. u \in Int /\ a - q * b \in Int
    BY <1>6
  <1> HIDE DEF u
  <1> DEFINE x == a - q * b
  <1>11. x \in Int /\ x = M * u + r
    BY <1>9, <1>10
  <1> HIDE DEF x
  <1>12. x % M = r
    BY <1>6, <1>10, <1>11, SameRemainder
  <1> QED BY <1>12 DEF x, M

(* The numbers that the property is about are divided whatever the order.  *)
LEMMA UdivmodIsRight ==
  ASSUME NEW a \in DWords, NEW b \in DWords, b # 0, order # "little" \/ (a < Word /\ b < Word)
  PROVE  Divides(udivmoddi4(order, a, b), a, b)
  <1>1. CASE order # "little"
    BY <1>1, UdivmodDivides
  <1>2. CASE order = "little"
    <2>1. a \in 0..(Word - 1) /\ b \in 1..(Word - 1)
      BY <1>2, WordsFact DEF DWords
    <2> QED BY <1>2, <2>1, OneWordDivides
  <1> QED BY <1>1, <1>2

LEMMA DivisionIsRight ==
  ASSUME NEW op \in {"unsigned", "signed", "both"}, NEW a \in DWords, NEW b \in DWords,
         Divide(op, a, b), order = "declared" \/ (OneWord(op, a) /\ OneWord(op, b))
  PROVE  IsQuotient(call')
  <1> DEFINE res == udivmoddi4(order, a, b)
             q == divdi3(order, a, b)
             r == moddi3(order, a, b)
  <1>1. /\ call'.op = op /\ call'.a = a /\ call'.b = b
        /\ op = "unsigned" => call'.got = res
        /\ op = "signed" => call'.got = << q, r >>
        /\ op = "both" => call'.got = << q, (a - q * b) % DWord >>
    BY DEF Divide, divmoddi4
  <1>2. ~Undefined(op, a, b) /\ b # 0 /\ a \in Nat /\ b \in Nat
    BY HalfRangeFact DEF Divide, Undefined, DWords
  <1>3. IsDivided(Value(op, a), Value(op, b), Value(op, call'.got[1]), Value(op, call'.got[2]))
          => IsQuotient(call')
    BY <1>1 DEF IsQuotient, IsDivided
  <1>4. CASE op = "unsigned"
    <2>1. \A x : Value(op, x) = x
      BY <1>4 DEF Value
    <2>2. order # "little" \/ (a < Word /\ b < Word)
      BY <1>2, <2>1 DEF OneWord, Magn
    <2>3. Divides(res, a, b)
      BY <1>2, <2>2, UdivmodIsRight
    <2> HIDE DEF res
    <2>4. res[1] \in Nat /\ res[2] \in 0..(b - 1) /\ a = res[1] * b + res[2]
      BY <2>3 DEF Divides
    <2>5. IsDivided(a, b, res[1], res[2])
      BY <1>2, <2>4 DEF IsDivided, Magn
    <2> QED BY <1>1, <1>3, <1>4, <2>1, <2>5
  <1>5. CASE op \in {"signed", "both"}
    <2> DEFINE p == Magnitude(a)
               m == Magnitude(b)
    <2>1. op # "unsigned"
      BY <1>5
    <2>2. p \in DWords /\ m \in DWords /\ m # 0
      <3>1. p \in 0..HalfRange
        BY <2>1, MagnitudeIs
      <3>2. m \in 0..HalfRange
        BY <2>1, MagnitudeIs
      <3>3. m = 0 <=> b = 0
        BY <2>1, MagnitudeIs
      <3> HIDE DEF p, m
      <3> QED BY <1>2, <3>1, <3>2, <3>3, HalfRangeFact DEF DWords
    <2>3. order # "little" \/ (p < Word /\ m < Word)
      <3>1. Magn(Value(op, a)) = p
        BY <2>1, MagnitudeIs
      <3>2. Magn(Value(op, b)) = m
        BY <2>1, MagnitudeIs
      <3> QED BY <3>1, <3>2 DEF OneWord
    <2>4. Divides(udivmoddi4(order, p, m), p, m)
      <3> HIDE DEF p, m
      <3> QED BY <2>2, <2>3, UdivmodIsRight
    <2>5. q \in DWords /\ r \in DWords
          /\ IsDivided(Value(op, a), Value(op, b), Value(op, q), Value(op, r))
      BY <1>2, <2>1, <2>4, SignedDivides
    <2> HIDE DEF q, r
    <2>6. (a - q * b) % DWord = r
      <3>1. Value(op, a) = Value(op, q) * Value(op, b) + Value(op, r)
        BY <2>5 DEF IsDivided
      <3> QED BY <2>1, <2>5, <3>1, RemainderOfQuotient
    <2>7. call'.got = << q, r >>
      BY <1>1, <1>5, <2>6
    <2> QED BY <1>3, <2>5, <2>7
  <1> QED BY <1>4, <1>5

(* Every division of int64.c is right where the halves lie as they are     *)
(* declared, and on the core that of numbers of one word.                  *)
THEOREM QuotientsRight == TestSpec => []QuotientsAreRight
  <1>1. TestInit => QuotientsAreRight
    BY DEF TestInit, QuotientsAreRight, Called
  <1>2. ASSUME QuotientsAreRight, [TestNext]_testVars
        PROVE  QuotientsAreRight'
    <2>1. CASE CallLibrary
      <3>1. ASSUME NEW op \in {"unsigned", "signed", "both"}, NEW a \in DWords, NEW b \in DWords,
                   Divide(op, a, b)
            PROVE  QuotientsAreRight'
        <4>1. call'.op = op /\ call'.a = a /\ call'.b = b /\ order' = order
          BY <2>1, <3>1 DEF CallLibrary, Divide
        <4>2. order = "declared" \/ (OneWord(op, a) /\ OneWord(op, b)) => IsQuotient(call')
          BY <3>1, DivisionIsRight
        <4> QED BY <4>1, <4>2 DEF QuotientsAreRight
      <3>2. ASSUME NEW op \in {"strcmp", "strncmp", "memcmp"}, NEW s \in Buffers,
                   NEW t \in Buffers, NEW n \in 0..Size, Compare(op, s, t, n)
            PROVE  QuotientsAreRight'
        <4>1. call'.op = op
          BY <3>2 DEF Compare
        <4> QED BY <4>1 DEF QuotientsAreRight, Called
      <3>3. ASSUME NEW op \in {"memcpy", "memmove"}, NEW dst \in 1..Size, NEW src \in 1..Size,
                   NEW n \in 0..Size, Move(op, dst, src, n)
            PROVE  QuotientsAreRight'
        <4>1. call'.op = op
          BY <3>3 DEF Move
        <4> QED BY <4>1 DEF QuotientsAreRight, Called
      <3> QED BY <2>1, <3>1, <3>2, <3>3 DEF CallLibrary
    <2>2. CASE Check
      BY <2>2 DEF Check, QuotientsAreRight, Called
    <2>3. CASE UNCHANGED <<order, call>>
      BY <1>2, <2>3 DEF QuotientsAreRight, Called, OneWord, IsQuotient
    <2> QED BY <1>2, <2>1, <2>2, <2>3 DEF TestNext, testVars
  <1> QED BY <1>1, <1>2, PTL DEF TestSpec
=================================================================================
