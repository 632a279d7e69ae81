------------------------------- MODULE ToolLibrary -------------------------------
(***************************************************************************)
(* base-port/tool/src: the functions that bare-metal programs get instead  *)
(* of a C library and of the compiler's run-time (the link names no other). *)
(*                                                                         *)
(* int64.c divides numbers of two words as pairs of halves.  The union     *)
(* udwords declares the high half first: that is its order in memory on a  *)
(* big-endian machine only.  On the core, which is little-endian, `high`   *)
(* is the low half of `all`.  The code of int64.c works on the fields but  *)
(* for the subtraction, the comparison and the last shift, which take      *)
(* `all`; "read" below is the number high * Word + low.                    *)
(***************************************************************************)
EXTENDS Integers, FiniteSets

CONSTANTS
  WordBits   (* Bits of a word (su_int): 32.                               *)

ASSUME WordAssumption == WordBits \in Nat \ {0}

(* Powers of two, by which the shifts multiply and divide.                 *)
Power2[k \in 0..(2 * WordBits)] == IF k = 0 THEN 1 ELSE 2 * Power2[k - 1]

Word   == Power2[WordBits]
DWord  == Word * Word
DWords == 0..(DWord - 1)

High(x) == x \div Word
Low(x)  == x % Word

(* The number read from the fields of `all`, and back.                     *)
Fields(order, x) ==
  IF order = "little" THEN Low(x) * Word + High(x) ELSE x

PowerOf2(x) == \E k \in 0..WordBits : x = Power2[k]

(* __builtin_clz, of a word that is not 0.                                 *)
Clz(x) == Cardinality({k \in 0..(WordBits - 1) : x < Power2[k]})

(* A mutant: one shift too few.                                            *)
ShiftOneLess(n, d) ==
  Clz(IF High(d) = 0 THEN Low(d) ELSE High(d)) - Clz(High(n))
    + (IF High(d) = 0 THEN WordBits ELSE 0)

(* sr, with the increment that follows its check (one more in each case).  *)
Shift(n, d) ==
  1 + Clz(IF High(d) = 0 THEN Low(d) ELSE High(d)) - Clz(High(n))
    + (IF High(d) = 0 THEN WordBits ELSE 0)

(* One turn of the loop at the end of __udivmoddi4, on q, r and carry.     *)
Turn(order, d, s) ==
  LET all(x) == Fields(order, x)
      r1  == (2 * s.r + s.q \div (DWord \div 2)) % DWord
      neg == (all(d) - all(r1) - 1) % DWord >= DWord \div 2
  IN  [ q |-> (2 * s.q + s.carry) % DWord,
        r |-> IF neg THEN all((all(r1) - all(d)) % DWord) ELSE r1,
        carry |-> IF neg THEN 1 ELSE 0 ]

LongDivision(order, n, d, sr) ==
  LET turn[k \in 0..sr] ==
        IF k = 0 THEN [ q |-> (n * Power2[2 * WordBits - sr]) % DWord,
                        r |-> n \div Power2[sr], carry |-> 0 ]
        ELSE Turn(order, d, turn[k - 1])
      last == turn[sr]
  IN  << (2 * Fields(order, last.q) + last.carry) % DWord, Fields(order, last.r) >>

(* __udivmoddi4 for b # 0: the quotient and *rem.                          *)
udivmoddi4(order, a, b) ==
  LET n == Fields(order, a)
      d == Fields(order, b)
      all(x) == Fields(order, x)
      limit == IF High(d) = 0 THEN 2 * WordBits
               ELSE IF Low(d) = 0 THEN WordBits - 1 ELSE WordBits
  IN  CASE High(n) = 0 /\ High(d) = 0 -> << Low(n) \div Low(d), Low(n) % Low(d) >>
        [] High(n) = 0 /\ High(d) # 0 -> << 0, Low(n) >>
        [] High(n) # 0 /\ Low(d) = 0 /\ (Low(n) = 0 \/ PowerOf2(High(d))) ->
             << High(n) \div High(d), all((High(n) % High(d)) * Word + Low(n)) >>
        [] High(n) # 0 /\ High(d) = 0 /\ PowerOf2(Low(d)) ->
             << all(n \div Low(d)), Low(n) % Low(d) >>
        [] OTHER -> IF Shift(n, d) \in 1..limit
                    THEN LongDivision(order, n, d, Shift(n, d)) ELSE << 0, a >>

-----------------------------------------------------------------------------
(* Signed numbers are the numbers of two words with their bits.            *)
Negative(x) == x >= DWord \div 2
Negated(x)  == (-x) % DWord
Magnitude(x) == IF Negative(x) THEN Negated(x) ELSE x

divdi3(order, a, b) ==
  LET q == udivmoddi4(order, Magnitude(a), Magnitude(b))[1]
  IN  IF Negative(a) # Negative(b) THEN Negated(q) ELSE q

moddi3(order, a, b) ==
  LET r == udivmoddi4(order, Magnitude(a), Magnitude(b))[2]
  IN  IF Negative(a) THEN Negated(r) ELSE r

divmoddi4(order, a, b) ==
  LET q == divdi3(order, a, b) IN << q, (a - q * b) % DWord >>

-----------------------------------------------------------------------------
(* string.c.  A buffer is a function on 1..N; its bytes are numbers.       *)
Sign(x, y) == IF x > y THEN 1 ELSE IF x < y THEN -1 ELSE 0

(* Where the loops of all three comparisons stop before the n-th byte.     *)
Stops(s, t, n) == {i \in 1..n : s[i] = 0 \/ t[i] = 0 \/ s[i] # t[i]}

First(S) == CHOOSE i \in S : \A j \in S : i <= j

(* Both strings are terminated within n bytes.                             *)
strcmp(s, t, n) == LET i == First(Stops(s, t, n)) IN Sign(s[i], t[i])

(* memcmp, and strncmp, whose body is the same.                            *)
memcmp(s, t, n) ==
  IF Stops(s, t, n) = {} THEN 0
  ELSE LET i == First(Stops(s, t, n))
       IN  IF s[i] = 0 /\ t[i] = 0 THEN -1 ELSE Sign(s[i], t[i])

(* Bytes copied one after the other, upwards or downwards.                 *)
CopiedInOrder(mem, dst, src, n, up) ==
  LET copy[k \in 0..n] ==
        IF k = 0 THEN mem
        ELSE LET i == IF up THEN k - 1 ELSE n - k
             IN  [copy[k - 1] EXCEPT ![dst + i] = copy[k - 1][src + i]]
  IN  copy[n]

memcpy(mem, dst, src, n) == CopiedInOrder(mem, dst, src, n, TRUE)

(* A mutant: bytes are copied upwards whatever overlaps.                   *)
memmove_upwards(mem, dst, src, n) == CopiedInOrder(mem, dst, src, n, TRUE)

memmove(mem, dst, src, n) == CopiedInOrder(mem, dst, src, n, dst < src)
=================================================================================
