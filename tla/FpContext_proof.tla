---------------------------- MODULE FpContext_proof ----------------------------
(***************************************************************************)
(* Proofs about FpContext for every number of iterations, every distance   *)
(* of the yields, and any number of preemptions.                           *)
(***************************************************************************)
EXTENDS FpContext, TLAPS

USE LoopAssumption

(* The registers of a process, on the hart or kept by the kernel.          *)
Reg(p) == IF cur = p THEN regs ELSE saved[p]

-----------------------------------------------------------------------------
(* What the kernel does with registers.                                    *)
LEMMA StateType ==
  ASSUME NEW v \in Values, NEW m \in 0..3
  PROVE  /\ State(v, m) \in States
         /\ State(v, m).fs0 = v /\ State(v, m).rm = m
  BY DEF State, States

LEMMA OwnType ==
  ASSUME NEW c \in Children
  PROVE  Own(c) \in States
  BY DEF Own, State, States, Values, Children

LEMMA CopiedType ==
  ASSUME NEW new \in States, NEW old \in States, NEW kind, NEW hit
  PROVE  Copied(kind, hit, new, old) \in States
  <1> DEFINE r == Copied(kind, hit, new, old)
  <1>1. r = [fs0 |-> r["fs0"], rm |-> r["rm"]]
    BY DEF Copied, Regs
  <1>2. r["fs0"] \in {new["fs0"], old["fs0"]} /\ r["rm"] \in {new["rm"], old["rm"]}
    BY DEF Copied, Regs
  <1>3. /\ new["fs0"] \in Values /\ old["fs0"] \in Values
        /\ new["rm"] \in 0..3 /\ old["rm"] \in 0..3
    BY DEF States
  <1> HIDE DEF r
  <1>4. r["fs0"] \in Values /\ r["rm"] \in 0..3
    BY <1>2, <1>3
  <1>5. r \in States
    BY <1>1, <1>4 DEF States
  <1> QED BY <1>5 DEF r

LEMMA CopiedSound ==
  ASSUME defect = Sound, NEW new \in States, NEW old, NEW hit,
         NEW kind \in {"save", "restore", "frame", "set"}
  PROVE  Copied(kind, hit, new, old) = new
  <1>1. Copied(kind, hit, new, old) = [r \in Regs |-> new[r]]
    BY DEF Copied, Sound
  <1>2. new = [r \in {"fs0", "rm"} |-> new[r]]
    BY DEF States
  <1> QED BY <1>1, <1>2 DEF Regs

-----------------------------------------------------------------------------
(* Types: one lemma per group of actions.                                  *)
LEMMA TypeInit == Init => TypeOK
  <1> SUFFICES ASSUME Init
               PROVE  TypeOK
    OBVIOUS
  <1>1. State("0.0", 0) \in States
    BY StateType DEF Values
  <1>2. regs \in States /\ saved \in [Procs -> States]
    BY <1>1 DEF Init
  <1>3. pc \in [Procs -> MainSteps \cup ChildSteps]
    BY DEF Init, MainSteps, ChildSteps
  <1>4. iter \in [Children -> 0..(Iterations - 1)]
    BY DEF Init
  <1>5. status \in [Procs -> {0, 10, 22}]
    BY DEF Init
  <1>6. preempts \in 0..MaxPreempts /\ lost \subseteq Children /\ cur \in Procs
    BY DEF Init, Procs
  <1>7. seen \in BOOLEAN /\ steady \in BOOLEAN /\ defect \in Defects \cup {Sound, Refusal}
    BY Zenon DEF Init
  <1> QED BY <1>2, <1>3, <1>4, <1>5, <1>6, <1>7, Zenon DEF TypeOK

LEMMA TypeSwitch ==
  ASSUME TypeOK, NEW p \in Procs, SwitchTo(p)
  PROVE  /\ cur' \in Procs /\ regs' \in States /\ saved' \in [Procs -> States]
         /\ lost' \subseteq Children
  <1>1. PICK hit \in Hits(defect) :
          /\ saved' = [saved EXCEPT ![cur] = Copied("save", hit, regs, saved[cur])]
          /\ regs' = Copied("restore", hit, saved[p], regs)
    BY DEF SwitchTo
  <1>2. saved[cur] \in States /\ saved[p] \in States /\ regs \in States
    BY DEF TypeOK
  <1>3. regs' \in States /\ saved' \in [Procs -> States]
    BY <1>1, <1>2, CopiedType DEF TypeOK
  <1>4. cur' \in Procs /\ lost' \subseteq Children
    BY DEF SwitchTo, TypeOK
  <1> QED BY <1>3, <1>4

LEMMA TypeKernel ==
  ASSUME TypeOK, Preempt \/ Block
  PROVE  TypeOK'
  <1>1. PICK p \in Procs : SwitchTo(p)
    BY DEF Preempt, Block
  <1>2. UNCHANGED <<defect, steady, status, seen, pc, iter>>
    BY <1>1 DEF Preempt, Block, SwitchTo, kernel
  <1>3. preempts' \in 0..MaxPreempts
    BY DEF Preempt, Block, TypeOK
  <1> QED BY <1>1, <1>2, <1>3, TypeSwitch DEF TypeOK

LEMMA TypeGoto ==
  ASSUME TypeOK, NEW p \in Procs, NEW step \in MainSteps \cup ChildSteps, Goto(p, step)
  PROVE  pc' \in [Procs -> MainSteps \cup ChildSteps]
  BY DEF TypeOK, Goto

LEMMA TypeWorker ==
  ASSUME TypeOK, NEW c \in Children, Worker(c)
  PROVE  TypeOK'
  <1> c \in Procs
    BY DEF Procs
  <1>1. CASE WriteFs0(c)
    <2>1. regs' \in States
      BY <1>1, OwnType DEF WriteFs0, TypeOK, States
    <2>2. pc' \in [Procs -> MainSteps \cup ChildSteps]
      BY <1>1, TypeGoto DEF WriteFs0, ChildSteps
    <2> QED BY <1>1, <2>1, <2>2 DEF WriteFs0, TypeOK, kernel
  <1>2. CASE WriteFcsr(c)
    <2>1. regs' \in States
      BY <1>2, OwnType DEF WriteFcsr, TypeOK, States
    <2>2. pc' \in [Procs -> MainSteps \cup ChildSteps]
      BY <1>2, TypeGoto DEF WriteFcsr, ChildSteps
    <2> QED BY <1>2, <2>1, <2>2 DEF WriteFcsr, TypeOK, kernel
  <1>3. CASE ReadFs0(c)
    <2>1. pc' \in [Procs -> MainSteps \cup ChildSteps]
      BY <1>3, TypeGoto DEF ReadFs0, Exit, ChildSteps
    <2>2. status' \in [Procs -> {0, 10, 22}]
      BY <1>3 DEF ReadFs0, Exit, TypeOK
    <2> QED BY <1>3, <2>1, <2>2 DEF ReadFs0, TypeOK, kernel, hart
  <1>4. ASSUME Iterate(c)
        PROVE  /\ pc' \in [Procs -> MainSteps \cup ChildSteps]
               /\ iter' \in [Children -> 0..(Iterations - 1)]
    <2>1. pc' \in [Procs -> MainSteps \cup ChildSteps]
      BY <1>4, TypeGoto DEF Iterate, ChildSteps
    <2>2. iter[c] < Iterations - 1 => iter[c] + 1 \in 0..(Iterations - 1)
      BY DEF TypeOK
    <2>3. iter' \in [Children -> 0..(Iterations - 1)]
      BY <1>4, <2>2 DEF Iterate, TypeOK
    <2> QED BY <2>1, <2>3
  <1>5. CASE ReadFcsr(c)
    <2>1. pc' \in [Procs -> MainSteps \cup ChildSteps]
      BY <1>4, <1>5, TypeGoto DEF ReadFcsr, Exit, ChildSteps
    <2>2. iter' \in [Children -> 0..(Iterations - 1)]
      BY <1>4, <1>5 DEF ReadFcsr, TypeOK
    <2>3. status' \in [Procs -> {0, 10, 22}]
      BY <1>5 DEF ReadFcsr, Exit, TypeOK
    <2> QED BY <1>5, <2>1, <2>2, <2>3 DEF ReadFcsr, TypeOK, kernel, hart
  <1>6. CASE Yield(c)
    <2>1. \/ \E p \in Procs : SwitchTo(p) /\ UNCHANGED preempts
          \/ UNCHANGED <<kernel, hart, status, seen>>
      BY <1>6 DEF Yield
    <2>2. UNCHANGED <<kernel, preempts, status, seen>>
      BY <2>1 DEF SwitchTo, hart
    <2>3. /\ cur' \in Procs /\ regs' \in States /\ saved' \in [Procs -> States]
          /\ lost' \subseteq Children
      BY <2>1, TypeSwitch DEF hart, TypeOK
    <2> QED BY <1>4, <1>6, <2>2, <2>3 DEF Yield, TypeOK, kernel
  <1> QED BY <1>1, <1>2, <1>3, <1>5, <1>6 DEF Worker

LEMMA TypeTraced ==
  ASSUME TypeOK, TracedWrite \/ TracedStop \/ TracedCheck
  PROVE  TypeOK'
  <1> "traced" \in Procs
    BY DEF Procs
  <1>1. pc' \in [Procs -> MainSteps \cup ChildSteps]
    BY TypeGoto DEF TracedWrite, TracedStop, TracedCheck, Exit, ChildSteps
  <1>2. CASE TracedWrite
    <2>1. regs' \in States
      BY <1>2, StateType DEF TracedWrite, Values
    <2> QED BY <1>1, <1>2, <2>1 DEF TracedWrite, TypeOK, kernel
  <1>3. CASE TracedStop
    BY <1>1, <1>3 DEF TracedStop, TypeOK, kernel, hart
  <1>4. CASE TracedCheck
    <2>1. status' \in [Procs -> {0, 10, 22}]
      BY <1>4 DEF TracedCheck, Exit, TypeOK
    <2> QED BY <1>1, <1>4, <2>1 DEF TracedCheck, TypeOK, kernel, hart
  <1> QED BY <1>2, <1>3, <1>4

LEMMA TypeMain ==
  ASSUME TypeOK, Main
  PROVE  TypeOK'
  <1> "main" \in Procs /\ "traced" \in Procs /\ Children \subseteq Procs
      /\ "child0" \in Procs /\ "child1" \in Procs
    BY DEF Procs, Children
  <1>1. ASSUME NEW step, NEW child \in Procs, NEW first \in ChildSteps,
               NEW next \in MainSteps, Fork(step, child, first, next)
        PROVE  TypeOK'
    <2>1. saved' \in [Procs -> States]
      BY <1>1 DEF Fork, TypeOK
    <2>2. pc' \in [Procs -> MainSteps \cup ChildSteps]
      BY <1>1 DEF Fork, TypeOK
    <2> QED BY <1>1, <2>1, <2>2 DEF Fork, TypeOK, kernel
  <1>2. ASSUME NEW step, NEW child \in Procs, NEW next \in MainSteps,
               Wait(step, child, next)
        PROVE  TypeOK'
    <2>1. pc' \in [Procs -> MainSteps \cup ChildSteps]
      BY <1>2, TypeGoto DEF Wait, MainSteps
    <2> QED BY <1>2, <2>1 DEF Wait, TypeOK, kernel, hart
  <1>3. CASE SignalWrite
    <2>1. regs' \in States
      BY <1>3, StateType DEF SignalWrite, Values
    <2>2. pc' \in [Procs -> MainSteps \cup ChildSteps]
      BY <1>3, TypeGoto DEF SignalWrite, MainSteps
    <2> QED BY <1>3, <2>1, <2>2 DEF SignalWrite, TypeOK, kernel
  <1>4. CASE Raise
    <2>1. PICK hit \in Hits(defect) :
            /\ regs' = Copied("frame", hit, regs, State("3.0", 3))
            /\ seen' = ~(hit /\ defect = <<"signal", "lost">>)
      BY <1>4 DEF Raise
    <2>2. State("3.0", 3) \in States /\ regs \in States
      BY StateType DEF Values, TypeOK
    <2>3. regs' \in States /\ seen' \in BOOLEAN
      BY <2>1, <2>2, CopiedType
    <2>4. pc' \in [Procs -> MainSteps \cup ChildSteps]
      BY <1>4, TypeGoto DEF Raise, MainSteps
    <2> QED BY <1>4, <2>3, <2>4 DEF Raise, TypeOK, kernel
  <1>5. CASE SetRegs
    <2>1. PICK hit \in Hits(defect) :
            saved' = [saved EXCEPT !["traced"] =
                        Copied("set", hit, State("2.0", 3), saved["traced"])]
      BY <1>5 DEF SetRegs
    <2>2. State("2.0", 3) \in States /\ saved["traced"] \in States
      BY StateType DEF Values, TypeOK
    <2>3. saved' \in [Procs -> States]
      BY <2>1, <2>2, CopiedType DEF TypeOK
    <2>4. pc' \in [Procs -> MainSteps \cup ChildSteps]
      BY <1>5, TypeGoto DEF SetRegs, MainSteps
    <2> QED BY <1>5, <2>3, <2>4 DEF SetRegs, TypeOK, kernel
  <1>6. CASE Cont
    <2>1. pc' \in [Procs -> MainSteps \cup ChildSteps]
      BY <1>6 DEF Cont, TypeOK, MainSteps, ChildSteps
    <2> QED BY <1>6, <2>1 DEF Cont, TypeOK, kernel, hart
  <1>7. CASE Look \/ WaitStop \/ GetRegs \/ Refuse
    <2>1. pc' \in [Procs -> MainSteps \cup ChildSteps]
      BY <1>7, TypeGoto DEF Look, WaitStop, GetRegs, Refuse, MainSteps
    <2> QED BY <1>7, <2>1 DEF Look, WaitStop, GetRegs, Refuse, TypeOK, kernel, hart
  <1>8. CASE \/ Fork("fork0", "child0", "write fs0", "fork1")
             \/ Fork("fork1", "child1", "write fs0", "wait0")
             \/ Fork("fork", "traced", "write", "wait stop")
    BY <1>1, <1>8 DEF ChildSteps, MainSteps
  <1>9. CASE \/ Wait("wait0", "child0", "wait1")
             \/ Wait("wait1", "child1", "signal")
             \/ Wait("wait end", "traced", "done")
    BY <1>2, <1>9 DEF MainSteps
  <1> QED BY <1>3, <1>4, <1>5, <1>6, <1>7, <1>8, <1>9 DEF Main

LEMMA TypeNext == TypeOK /\ [Next]_vars => TypeOK'
  <1> SUFFICES ASSUME TypeOK, [Next]_vars
               PROVE  TypeOK'
    OBVIOUS
  <1>1. CASE UNCHANGED vars
    BY <1>1 DEF TypeOK, vars, kernel, hart
  <1> QED BY <1>1, TypeKernel, TypeWorker, TypeTraced, TypeMain DEF Next

(* Every register, step and status of every process keeps its range.       *)
THEOREM TypeCorrect == Spec => []TypeOK
  BY TypeInit, TypeNext, PTL DEF Spec

-----------------------------------------------------------------------------
(* What a sound kernel keeps: a worker finds what it has written, the      *)
(* traced process what it or its tracer has written last, and main what it *)
(* wrote before the signal; so no check has failed yet.                    *)
WorkersKeep ==
  \A c \in Children :
    /\ pc[c] = "write fcsr" => Reg(c).fs0 = Own(c).fs0
    /\ pc[c] \in {"read fs0", "read fcsr", "yield"} => Reg(c) = Own(c)

TracedKeeps ==
  /\ pc["main"] = "wait stop" => pc["traced"] \in {"write", "stop", "stopped"}
  /\ pc["main"] \in {"get", "set", "cont"} => pc["traced"] = "stopped"
  /\ pc["traced"] = "stop" => Reg("traced") = State("1.0", 1)
  /\ pc["traced"] = "stopped" /\ pc["main"] # "cont" => Reg("traced") = State("1.0", 1)
  /\ pc["traced"] = "stopped" /\ pc["main"] = "cont" => Reg("traced") = State("2.0", 3)
  /\ pc["traced"] = "check" => Reg("traced") = State("2.0", 3)

MainKeeps ==
  /\ pc["main"] \in {"raise", "look"} => Reg("main") = State("1.0", 2)
  /\ pc["main"] = "look" => seen = TRUE

SoundInv ==
  /\ WorkersKeep /\ TracedKeeps /\ MainKeeps
  /\ \A p \in Procs : status[p] = 0
  /\ pc["main"] # "failed"

SInv == TypeOK /\ (defect = Sound => SoundInv)

LEMMA ProcNames ==
  /\ "main" \in Procs /\ "traced" \in Procs /\ Children \subseteq Procs
  /\ "child0" \in Children /\ "child1" \in Children
  /\ "main" \notin Children /\ "traced" \notin Children
  BY DEF Procs, Children

(* A sound kernel passes the hart on without changing any registers.       *)
LEMMA SwitchKeeps ==
  ASSUME TypeOK, defect = Sound, NEW p \in Procs, SwitchTo(p)
  PROVE  /\ \A q \in Procs : Reg(q)' = Reg(q)
         /\ UNCHANGED <<defect, status, seen>>
  <1>1. PICK hit \in Hits(defect) :
          /\ saved' = [saved EXCEPT ![cur] = Copied("save", hit, regs, saved[cur])]
          /\ regs' = Copied("restore", hit, saved[p], regs)
    BY DEF SwitchTo
  <1>2. saved[p] \in States /\ regs \in States /\ saved \in [Procs -> States]
        /\ cur \in Procs
    BY DEF TypeOK
  <1>3. saved' = [saved EXCEPT ![cur] = regs] /\ regs' = saved[p]
    BY <1>1, <1>2, CopiedSound
  <1>4. cur' = p /\ p # cur /\ UNCHANGED <<defect, status, seen>>
    BY DEF SwitchTo, kernel
  <1>5. \A q \in Procs : Reg(q)' = Reg(q)
    BY <1>2, <1>3, <1>4 DEF Reg
  <1> QED BY <1>4, <1>5

LEMMA KeepsAll ==
  ASSUME SoundInv, UNCHANGED <<pc, status, seen>>, \A q \in Procs : Reg(q)' = Reg(q)
  PROVE  SoundInv'
  <1>1. WorkersKeep'
    BY ProcNames DEF SoundInv, WorkersKeep, Own, State
  <1>2. TracedKeeps' /\ MainKeeps'
    BY ProcNames DEF SoundInv, TracedKeeps, MainKeeps, State
  <1> QED BY <1>1, <1>2 DEF SoundInv

LEMMA SoundInit == Init => SoundInv
  <1> SUFFICES ASSUME Init
               PROVE  SoundInv
    OBVIOUS
  <1>1. \A p \in Procs : pc[p] \in {"fork0", "none"} /\ status[p] = 0
    BY DEF Init
  <1> QED BY <1>1, ProcNames
          DEF SoundInv, WorkersKeep, TracedKeeps, MainKeeps

(* The steps of a worker touch only its own registers.                     *)
LEMMA SoundWorker ==
  ASSUME TypeOK, defect = Sound, SoundInv, NEW c \in Children, Worker(c)
  PROVE  SoundInv'
  <1> USE ProcNames
  <1>1. cur \in Procs /\ regs \in States
    BY DEF TypeOK
  <1>2. ASSUME NEW step, pc' = [pc EXCEPT ![c] = step], UNCHANGED <<status, seen>>,
               \A q \in Procs \ {c} : Reg(q)' = Reg(q),
               step = "write fcsr" => Reg(c)'.fs0 = Own(c).fs0,
               step \in {"read fs0", "read fcsr", "yield"} => Reg(c)' = Own(c)
        PROVE  SoundInv'
    <2>1. \A q \in Procs \ {c} : pc'[q] = pc[q]
      BY <1>2 DEF TypeOK
    <2>2. pc'[c] = step
      BY <1>2 DEF TypeOK
    <2>3. WorkersKeep'
      <3> SUFFICES ASSUME NEW d \in Children
                   PROVE  /\ pc'[d] = "write fcsr" => Reg(d)'.fs0 = Own(d).fs0
                          /\ pc'[d] \in {"read fs0", "read fcsr", "yield"}
                               => Reg(d)' = Own(d)
        BY DEF WorkersKeep, Own, State
      <3>1. CASE d = c
        BY <1>2, <2>2, <3>1
      <3>2. CASE d # c
        <4>1. Reg(d)' = Reg(d) /\ pc'[d] = pc[d]
          BY <1>2, <2>1, <3>2
        <4> QED BY <4>1 DEF SoundInv, WorkersKeep
      <3> QED BY <3>1, <3>2
    <2>4. TracedKeeps' /\ MainKeeps'
      BY <1>2, <2>1 DEF SoundInv, TracedKeeps, MainKeeps, State
    <2> QED BY <1>2, <2>1, <2>3, <2>4 DEF SoundInv
  <1>3. CASE WriteFs0(c)
    <2>1. pc' = [pc EXCEPT ![c] = "write fcsr"] /\ UNCHANGED <<status, seen>>
      BY <1>3 DEF WriteFs0, Goto
    <2>2. cur = c /\ cur' = c /\ saved' = saved
      BY <1>3 DEF WriteFs0, At
    <2>3. regs'.fs0 = Own(c).fs0
      BY <1>1, <1>3 DEF WriteFs0, States
    <2>4. \A q \in Procs \ {c} : Reg(q)' = Reg(q)
      BY <2>2 DEF Reg
    <2> QED BY <1>2, <2>1, <2>2, <2>3, <2>4 DEF Reg
  <1>4. CASE WriteFcsr(c)
    <2>1. pc' = [pc EXCEPT ![c] = "read fs0"] /\ UNCHANGED <<status, seen>>
      BY <1>4 DEF WriteFcsr, Goto
    <2>2. cur = c /\ cur' = c /\ saved' = saved /\ pc[c] = "write fcsr"
      BY <1>4 DEF WriteFcsr, At
    <2>3. regs.fs0 = Own(c).fs0
      BY <2>2 DEF SoundInv, WorkersKeep, Reg
    <2>4. regs' = [fs0 |-> regs.fs0, rm |-> Own(c).rm]
      BY <1>1, <1>4 DEF WriteFcsr, States
    <2>5. regs' = Own(c)
      BY <2>3, <2>4 DEF Own, State
    <2>6. \A q \in Procs \ {c} : Reg(q)' = Reg(q)
      BY <2>2 DEF Reg
    <2> QED BY <1>2, <2>1, <2>2, <2>5, <2>6 DEF Reg
  <1>5. ASSUME At(c, "read fs0") \/ At(c, "read fcsr") \/ At(c, "yield")
        PROVE  regs = Own(c) /\ Reg(c) = Own(c)
    BY <1>5 DEF SoundInv, WorkersKeep, Reg, At
  <1>6. CASE ReadFs0(c)
    <2>1. regs = Own(c) /\ Reg(c) = Own(c)
      BY <1>5, <1>6 DEF ReadFs0
    <2>2. pc' = [pc EXCEPT ![c] = "read fcsr"] /\ UNCHANGED <<status, seen>>
      BY <1>6, <2>1 DEF ReadFs0, Goto
    <2>3. \A q \in Procs : Reg(q)' = Reg(q)
      BY <1>6 DEF ReadFs0, Reg, hart
    <2> QED BY <1>2, <2>1, <2>2, <2>3
  <1>7. ASSUME Iterate(c)
        PROVE  \E step \in {"read fs0", "exited"} : pc' = [pc EXCEPT ![c] = step]
    BY <1>7 DEF Iterate, Goto
  <1>8. CASE ReadFcsr(c)
    <2>1. regs = Own(c) /\ Reg(c) = Own(c)
      BY <1>5, <1>8 DEF ReadFcsr
    <2>2. /\ \/ Goto(c, "yield")
             \/ Iterate(c)
          /\ UNCHANGED <<status, seen>>
      BY <1>8, <2>1 DEF ReadFcsr
    <2>3. PICK step \in {"read fs0", "exited", "yield"} : pc' = [pc EXCEPT ![c] = step]
      BY <1>7, <2>2 DEF Goto
    <2>4. \A q \in Procs : Reg(q)' = Reg(q)
      BY <1>8 DEF ReadFcsr, Reg, hart
    <2> QED BY <1>2, <2>1, <2>2, <2>3, <2>4
  <1>9. CASE Yield(c)
    <2>1. Reg(c) = Own(c)
      BY <1>5, <1>9 DEF Yield
    <2>2. PICK step \in {"read fs0", "exited"} : pc' = [pc EXCEPT ![c] = step]
      BY <1>7, <1>9 DEF Yield
    <2>3. CASE \E p \in Procs : SwitchTo(p)
      BY <1>2, <2>1, <2>2, <2>3, SwitchKeeps
    <2>4. CASE UNCHANGED <<hart, status, seen>>
      <3>1. \A q \in Procs : Reg(q)' = Reg(q)
        BY <2>4 DEF Reg, hart
      <3> QED BY <1>2, <2>1, <2>2, <2>4, <3>1
    <2> QED BY <1>9, <2>3, <2>4 DEF Yield
  <1> QED BY <1>3, <1>4, <1>6, <1>8, <1>9 DEF Worker

(* So do those of the traced process, which end as the tracer expects.     *)
LEMMA SoundTraced ==
  ASSUME TypeOK, defect = Sound, SoundInv, TracedWrite \/ TracedStop \/ TracedCheck
  PROVE  SoundInv'
  <1> USE ProcNames
  <1>1. /\ cur = "traced" /\ cur' = "traced" /\ saved' = saved /\ seen' = seen
        /\ Reg("traced") = regs /\ Reg("traced")' = regs'
        /\ \A q \in Procs \ {"traced"} : Reg(q)' = Reg(q)
    BY DEF TracedWrite, TracedStop, TracedCheck, At, Reg, hart
  <1>2. \E step : pc' = [pc EXCEPT !["traced"] = step]
    BY DEF TracedWrite, TracedStop, TracedCheck, Goto, Exit
  <1>3. \A q \in Procs \ {"traced"} : pc'[q] = pc[q]
    BY <1>2 DEF TypeOK
  <1>4. WorkersKeep'
    <2> SUFFICES ASSUME NEW d \in Children
                 PROVE  /\ pc'[d] = "write fcsr" => Reg(d)'.fs0 = Own(d).fs0
                        /\ pc'[d] \in {"read fs0", "read fcsr", "yield"}
                             => Reg(d)' = Own(d)
      BY DEF WorkersKeep, Own, State
    <2>1. Reg(d)' = Reg(d) /\ pc'[d] = pc[d]
      BY <1>1, <1>3
    <2> QED BY <2>1 DEF SoundInv, WorkersKeep
  <1>5. MainKeeps'
    BY <1>1, <1>3 DEF SoundInv, MainKeeps, State
  <1>6. pc'["main"] # "failed"
    BY <1>3 DEF SoundInv
  <1>7. CASE TracedWrite
    <2>1. pc["traced"] = "write" /\ pc'["traced"] = "stop" /\ regs' = State("1.0", 1)
          /\ status' = status
      BY <1>7 DEF TracedWrite, At, Goto, TypeOK
    <2>2. TracedKeeps'
      BY <1>1, <1>3, <2>1 DEF SoundInv, TracedKeeps, State
    <2> QED BY <1>4, <1>5, <1>6, <2>1, <2>2 DEF SoundInv
  <1>8. CASE TracedStop
    <2>1. pc["traced"] = "stop" /\ pc'["traced"] = "stopped" /\ regs' = regs
          /\ status' = status
      BY <1>8 DEF TracedStop, At, Goto, TypeOK, hart
    <2>2. TracedKeeps'
      BY <1>1, <1>3, <2>1 DEF SoundInv, TracedKeeps, State
    <2> QED BY <1>4, <1>5, <1>6, <2>1, <2>2 DEF SoundInv
  <1>9. CASE TracedCheck
    <2>1. pc["traced"] = "check" /\ pc'["traced"] = "exited"
      BY <1>9 DEF TracedCheck, At, Goto, Exit, TypeOK
    <2>2. regs = State("2.0", 3)
      BY <1>1, <2>1 DEF SoundInv, TracedKeeps
    <2>3. status' = [status EXCEPT !["traced"] = 0]
      BY <1>9, <2>2 DEF TracedCheck, Exit
    <2>4. \A p \in Procs : status'[p] = 0
      BY <2>3 DEF SoundInv, TypeOK
    <2>5. TracedKeeps'
      BY <1>1, <1>3, <2>1 DEF SoundInv, TracedKeeps, State
    <2> QED BY <1>4, <1>5, <1>6, <2>4, <2>5 DEF SoundInv
  <1> QED BY <1>7, <1>8, <1>9

(* Steps of main that leave the registers of all others alone.             *)
LEMMA MainStep ==
  ASSUME TypeOK, SoundInv, NEW step,
         pc' = [pc EXCEPT !["main"] = step], step # "failed", status' = status,
         \A q \in Children : Reg(q)' = Reg(q), TracedKeeps', MainKeeps'
  PROVE  SoundInv'
  <1> USE ProcNames
  <1>1. \A q \in Procs \ {"main"} : pc'[q] = pc[q]
    OBVIOUS
  <1>2. WorkersKeep'
    <2> SUFFICES ASSUME NEW d \in Children
                 PROVE  /\ pc'[d] = "write fcsr" => Reg(d)'.fs0 = Own(d).fs0
                        /\ pc'[d] \in {"read fs0", "read fcsr", "yield"}
                             => Reg(d)' = Own(d)
      BY DEF WorkersKeep, Own, State
    <2>1. Reg(d)' = Reg(d) /\ pc'[d] = pc[d]
      BY <1>1
    <2> QED BY <2>1 DEF SoundInv, WorkersKeep
  <1>3. pc'["main"] # "failed"
    BY DEF TypeOK
  <1> QED BY <1>2, <1>3 DEF SoundInv

(* main: forks, waits, and exchanges the registers of the traced process.  *)
LEMMA SoundFork ==
  ASSUME TypeOK, defect = Sound, SoundInv,
         \/ Fork("fork0", "child0", "write fs0", "fork1")
         \/ Fork("fork1", "child1", "write fs0", "wait0")
         \/ Fork("fork", "traced", "write", "wait stop")
  PROVE  SoundInv'
  <1> USE ProcNames
  <1>1. PICK child \in Procs \ {"main"}, next \in {"fork1", "wait0", "wait stop"} :
          \E first \in {"write fs0", "write"} :
            /\ pc' = [pc EXCEPT !["main"] = next, ![child] = first]
            /\ saved' = [saved EXCEPT ![child] = regs]
            /\ UNCHANGED <<cur, regs, status, seen>>
            /\ cur = "main"
            /\ next = "wait stop" <=> child = "traced"
            /\ next = "wait stop" => first = "write"
    BY DEF Fork, At
  <1>2. /\ pc'["main"] = next /\ pc'[child] \in {"write fs0", "write"}
        /\ \A q \in Procs \ {"main", child} : pc'[q] = pc[q] /\ Reg(q)' = Reg(q)
        /\ next = "wait stop" => pc'["traced"] = "write"
    BY <1>1 DEF TypeOK, Reg
  <1>3. WorkersKeep'
    <2> SUFFICES ASSUME NEW d \in Children
                 PROVE  /\ pc'[d] = "write fcsr" => Reg(d)'.fs0 = Own(d).fs0
                        /\ pc'[d] \in {"read fs0", "read fcsr", "yield"}
                             => Reg(d)' = Own(d)
      BY DEF WorkersKeep, Own, State
    <2>1. CASE d = child
      BY <1>2, <2>1
    <2>2. CASE d # child
      <3>1. Reg(d)' = Reg(d) /\ pc'[d] = pc[d]
        BY <1>2, <2>2
      <3> QED BY <3>1 DEF SoundInv, WorkersKeep
    <2> QED BY <2>1, <2>2
  <1>4. TracedKeeps'
    <2>1. CASE child = "traced"
      BY <1>1, <1>2, <2>1 DEF TracedKeeps
    <2>2. CASE child # "traced"
      <3>1. pc'["traced"] = pc["traced"] /\ Reg("traced")' = Reg("traced")
            /\ next \in {"fork1", "wait0"} /\ pc["main"] # "cont"
        BY <1>1, <1>2, <2>2 DEF Fork, At
      <3> QED BY <1>2, <3>1 DEF SoundInv, TracedKeeps, State
    <2> QED BY <2>1, <2>2
  <1>5. MainKeeps' /\ pc'["main"] # "failed"
    BY <1>1, <1>2 DEF MainKeeps
  <1> QED BY <1>1, <1>3, <1>4, <1>5 DEF SoundInv

LEMMA SoundMain ==
  ASSUME TypeOK, defect = Sound, SoundInv, Main
  PROVE  SoundInv'
  <1> USE ProcNames
  <1>1. CASE \/ Fork("fork0", "child0", "write fs0", "fork1")
             \/ Fork("fork1", "child1", "write fs0", "wait0")
             \/ Fork("fork", "traced", "write", "wait stop")
    BY <1>1, SoundFork
  <1>2. ASSUME NEW step, NEW child \in Procs \ {"main"}, NEW next,
               Wait(step, child, next),
               step \in {"wait0", "wait1", "wait end"},
               next \in {"wait1", "signal", "done"}
        PROVE  SoundInv'
    <2>1. /\ pc["main"] = step /\ pc' = [pc EXCEPT !["main"] = next]
          /\ UNCHANGED <<hart, status, seen>>
      BY <1>2 DEF Wait, At, Goto, SoundInv
    <2>2. \A q \in Procs : Reg(q)' = Reg(q)
      BY <2>1 DEF Reg, hart
    <2>3. pc'["main"] = next /\ pc'["traced"] = pc["traced"]
      BY <2>1 DEF TypeOK
    <2>4. TracedKeeps' /\ MainKeeps'
      BY <1>2, <2>1, <2>2, <2>3 DEF SoundInv, TracedKeeps, MainKeeps, State
    <2> QED BY <1>2, <2>1, <2>2, <2>4, MainStep
  <1>3. CASE SignalWrite
    <2>1. /\ pc["main"] = "signal" /\ pc' = [pc EXCEPT !["main"] = "raise"]
          /\ cur = "main" /\ UNCHANGED <<cur, saved, status, seen>>
          /\ regs' = State("1.0", 2)
      BY <1>3 DEF SignalWrite, At, Goto
    <2>2. Reg("main")' = State("1.0", 2)
          /\ \A q \in Procs \ {"main"} : Reg(q)' = Reg(q)
      BY <2>1 DEF Reg
    <2>3. pc'["main"] = "raise" /\ pc'["traced"] = pc["traced"]
      BY <2>1 DEF TypeOK
    <2>4. TracedKeeps' /\ MainKeeps'
      BY <2>1, <2>2, <2>3 DEF SoundInv, TracedKeeps, MainKeeps, State
    <2> QED BY <2>1, <2>2, <2>4, MainStep
  <1>4. CASE Raise
    <2>1. PICK hit \in Hits(defect) :
            /\ regs' = Copied("frame", hit, regs, State("3.0", 3))
            /\ seen' = ~(hit /\ defect = <<"signal", "lost">>)
      BY <1>4 DEF Raise
    <2>2. regs' = regs
      BY <2>1, CopiedSound DEF TypeOK
    <2>3. defect # <<"signal", "lost">>
      BY DEF Sound
    <2>4. seen' = TRUE
      BY <2>1, <2>3, Zenon
    <2>5. /\ pc["main"] = "raise" /\ pc' = [pc EXCEPT !["main"] = "look"]
          /\ UNCHANGED <<cur, saved, status>>
      BY <1>4 DEF Raise, At, Goto
    <2>6. \A q \in Procs : Reg(q)' = Reg(q)
      BY <2>2, <2>5 DEF Reg
    <2>7. pc'["main"] = "look" /\ pc'["traced"] = pc["traced"]
      BY <2>5 DEF TypeOK
    <2>8. TracedKeeps' /\ MainKeeps'
      BY <2>4, <2>5, <2>6, <2>7 DEF SoundInv, TracedKeeps, MainKeeps, State
    <2> QED BY <2>5, <2>6, <2>8, MainStep
  <1>5. CASE Look
    <2>1. pc["main"] = "look" /\ cur = "main"
      BY <1>5 DEF Look, At
    <2>2. seen = TRUE /\ regs = State("1.0", 2)
      BY <2>1 DEF SoundInv, MainKeeps, Reg
    <2>3. pc' = [pc EXCEPT !["main"] = "fork"] /\ UNCHANGED <<hart, status, seen>>
      BY <1>5, <2>2 DEF Look, Goto
    <2>4. \A q \in Procs : Reg(q)' = Reg(q)
      BY <2>3 DEF Reg, hart
    <2>5. pc'["main"] = "fork" /\ pc'["traced"] = pc["traced"]
      BY <2>3 DEF TypeOK
    <2>6. TracedKeeps' /\ MainKeeps'
      BY <2>1, <2>4, <2>5 DEF SoundInv, TracedKeeps, MainKeeps, State
    <2> QED BY <2>3, <2>4, <2>6, MainStep
  <1>6. CASE WaitStop
    <2>1. pc["main"] = "wait stop" /\ Ready("main")
      BY <1>6 DEF WaitStop, At
    <2>2. pc["traced"] \in {"stopped", "exited"}
      BY <2>1 DEF Ready
    <2>3. pc["traced"] = "stopped"
      BY <2>1, <2>2 DEF SoundInv, TracedKeeps
    <2>4. pc' = [pc EXCEPT !["main"] = "get"] /\ UNCHANGED <<hart, status, seen>>
      BY <1>6, <2>3 DEF WaitStop, Goto, Exited
    <2>5. \A q \in Procs : Reg(q)' = Reg(q)
      BY <2>4 DEF Reg, hart
    <2>6. pc'["main"] = "get" /\ pc'["traced"] = pc["traced"]
      BY <2>4 DEF TypeOK
    <2>7. TracedKeeps' /\ MainKeeps'
      BY <2>1, <2>3, <2>5, <2>6 DEF SoundInv, TracedKeeps, MainKeeps, State
    <2> QED BY <2>4, <2>5, <2>7, MainStep
  <1>7. CASE GetRegs
    <2>1. pc["main"] = "get" /\ cur = "main"
      BY <1>7 DEF GetRegs, At
    <2>2. pc["traced"] = "stopped" /\ saved["traced"] = State("1.0", 1)
      BY <2>1 DEF SoundInv, TracedKeeps, Reg
    <2>3. saved["traced"].fs0 = "1.0"
      BY <2>2 DEF State
    <2>4. Hits(<<"get", "fs0">>) = {FALSE}
      BY DEF Hits, Sound
    <2>5. pc' = [pc EXCEPT !["main"] = "set"] /\ UNCHANGED <<hart, status, seen>>
      BY <1>7, <2>3, <2>4 DEF GetRegs, Goto
    <2>6. \A q \in Procs : Reg(q)' = Reg(q)
      BY <2>5 DEF Reg, hart
    <2>7. pc'["main"] = "set" /\ pc'["traced"] = pc["traced"]
      BY <2>5 DEF TypeOK
    <2>8. TracedKeeps' /\ MainKeeps'
      BY <2>1, <2>2, <2>6, <2>7 DEF SoundInv, TracedKeeps, MainKeeps, State
    <2> QED BY <2>5, <2>6, <2>8, MainStep
  <1>8. CASE SetRegs
    <2>1. PICK hit \in Hits(defect) :
            saved' = [saved EXCEPT !["traced"] =
                        Copied("set", hit, State("2.0", 3), saved["traced"])]
      BY <1>8 DEF SetRegs
    <2>2. State("2.0", 3) \in States
      BY StateType DEF Values
    <2>3. saved' = [saved EXCEPT !["traced"] = State("2.0", 3)]
      BY <2>1, <2>2, CopiedSound
    <2>4. /\ pc["main"] = "set" /\ cur = "main" /\ pc' = [pc EXCEPT !["main"] = "cont"]
          /\ UNCHANGED <<cur, regs, status, seen>>
      BY <1>8 DEF SetRegs, At, Goto
    <2>5. /\ Reg("traced")' = State("2.0", 3)
          /\ \A q \in Procs \ {"traced"} : Reg(q)' = Reg(q)
      BY <2>3, <2>4 DEF Reg, TypeOK
    <2>6. pc'["main"] = "cont" /\ pc'["traced"] = pc["traced"] /\ pc["traced"] = "stopped"
      BY <2>4 DEF TypeOK, SoundInv, TracedKeeps
    <2>7. TracedKeeps' /\ MainKeeps'
      BY <2>5, <2>6 DEF TracedKeeps, MainKeeps, State
    <2> QED BY <2>4, <2>5, <2>7, MainStep
  <1>9. CASE Cont
    <2>1. /\ pc["main"] = "cont" /\ UNCHANGED <<hart, status, seen>>
          /\ pc' = [pc EXCEPT !["main"] = "wait end", !["traced"] = "check"]
      BY <1>9 DEF Cont, At
    <2>2. \A q \in Procs : Reg(q)' = Reg(q)
      BY <2>1 DEF Reg, hart
    <2>3. /\ pc'["main"] = "wait end" /\ pc'["traced"] = "check"
          /\ \A q \in Children : pc'[q] = pc[q]
      BY <2>1 DEF TypeOK
    <2>4. WorkersKeep'
      <3> SUFFICES ASSUME NEW d \in Children
                   PROVE  /\ pc'[d] = "write fcsr" => Reg(d)'.fs0 = Own(d).fs0
                          /\ pc'[d] \in {"read fs0", "read fcsr", "yield"}
                               => Reg(d)' = Own(d)
        BY DEF WorkersKeep, Own, State
      <3>1. Reg(d)' = Reg(d) /\ pc'[d] = pc[d]
        BY <2>2, <2>3
      <3> QED BY <3>1 DEF SoundInv, WorkersKeep
    <2>5. TracedKeeps' /\ MainKeeps'
      BY <2>1, <2>2, <2>3 DEF SoundInv, TracedKeeps, MainKeeps, State
    <2> QED BY <2>1, <2>3, <2>4, <2>5 DEF SoundInv
  <1>10. ~Refuse
    BY DEF Refuse, Refusal, Sound
  <1>11. CASE \/ Wait("wait0", "child0", "wait1")
              \/ Wait("wait1", "child1", "signal")
              \/ Wait("wait end", "traced", "done")
    BY <1>2, <1>11
  <1> QED BY <1>1, <1>3, <1>4, <1>5, <1>6, <1>7, <1>8, <1>9, <1>10, <1>11 DEF Main

LEMMA SoundNext == SInv /\ [Next]_vars => SInv'
  <1> SUFFICES ASSUME TypeOK, defect = Sound => SoundInv, [Next]_vars
               PROVE  TypeOK' /\ (defect' = Sound => SoundInv')
    BY DEF SInv, Sound
  <1>1. TypeOK'
    BY TypeNext
  <1>2. defect' = defect
    BY DEF Next, vars, kernel, hart, Worker, WriteFs0, WriteFcsr, ReadFs0, ReadFcsr,
           Yield, TracedWrite, TracedStop, TracedCheck, Main, Fork, Wait, WaitStop,
           SignalWrite, Raise, Look, GetRegs, SetRegs, Cont, Refuse, Preempt, Block,
           SwitchTo
  <1>3. ASSUME defect = Sound
        PROVE  SoundInv'
    <2>1. CASE Preempt \/ Block
      <3>1. PICK p \in Procs : SwitchTo(p)
        BY <2>1 DEF Preempt, Block
      <3>2. UNCHANGED pc
        BY <2>1 DEF Preempt, Block
      <3> QED BY <1>3, <3>1, <3>2, SwitchKeeps, KeepsAll
    <2>2. CASE UNCHANGED vars
      <3>1. UNCHANGED <<pc, status, seen>> /\ \A q \in Procs : Reg(q)' = Reg(q)
        BY <2>2 DEF vars, hart, Reg
      <3> QED BY <1>3, <3>1, KeepsAll
    <2> QED BY <1>3, <2>1, <2>2, SoundWorker, SoundTraced, SoundMain DEF Next
  <1> QED BY <1>1, <1>2, <1>3

(* A kernel that keeps the registers and refuses nothing passes the test,  *)
(* however often and wherever it takes the hart away.                      *)
THEOREM SoundPasses == Spec => []SoundKernelPasses
  <1>1. Init => SInv
    BY TypeInit, SoundInit DEF SInv
  <1>2. SInv => SoundKernelPasses
    BY DEF SInv, SoundInv, SoundKernelPasses
  <1> QED BY <1>1, <1>2, SoundNext, PTL DEF Spec

-----------------------------------------------------------------------------
(* LossIsReported.  The registers that a worker has written, of which it   *)
(* has not looked at all for the last time.                                *)
Written(c) ==
  CASE pc[c] \in {"none", "write fs0", "exited"} -> {}
    [] pc[c] = "write fcsr" -> {"fs0"}
    [] OTHER -> Regs

(* No defect of the kernel concerns r when the hart is passed on.          *)
Spared(r) == defect \notin {<<"save", r>>, <<"restore", r>>}

(* The processes from which the worker c can still take over the hart, and *)
(* with it a register that is not restored.  main waits for child0.        *)
Returning(c) ==
  {p \in Procs :
     \/ p = cur
     \/ /\ pc[p] \notin {"none", "exited"}
        /\ ~(c = "child0" /\ p = "main" /\ pc["main"] = "wait0")}

(* A value that c has lost in r does not come back: the kernel's copy is   *)
(* wrong as well, or no process from which c could take it holds it.       *)
Gone(c, r) ==
  \/ defect = <<"save", r>> /\ Reg(c)[r] # Own(c)[r] /\ saved[c][r] # Own(c)[r]
  \/ defect = <<"restore", r>> /\ \A p \in Returning(c) : Reg(p)[r] # Own(c)[r]

LostStaysLost ==
  \A c \in lost : \/ pc[c] = "exited" /\ status[c] = 10
                  \/ \E r \in Watches(c) : Gone(c, r)

SparedKept ==
  \A c \in Children : \A r \in Written(c) : Spared(r) => Reg(c)[r] = Own(c)[r]

OthersKept ==
  \A c \in Children \ lost : \A r \in Watches(c) :
    defect = <<"restore", r>> => Reg(c)[r] = Own(c)[r]

(* Nobody has a value of child1 before it wrote it; main does not get one  *)
(* while child0, which could pass it on, is there.                         *)
NoneBefore ==
  \A r \in Regs : defect = <<"restore", r>> =>
    /\ pc["child1"] # "exited" /\ r \notin Written("child1") =>
         \A p \in Procs : Reg(p)[r] # Own("child1")[r]
    /\ pc["main"] = "wait0" /\ Reg("main")[r] = Own("child1")[r] =>
         pc["child0"] = "exited" /\ cur # "child0"

(* How far the children are when main is at a step.                        *)
Early == {"fork0", "fork1"}

Phases ==
  /\ pc["main"] = "fork0" <=> pc["child0"] = "none"
  /\ pc["main"] \in Early <=> pc["child1"] = "none"
  /\ pc["main"] \in Early \cup {"wait0", "wait1"} => pc["traced"] = "none"
  /\ pc["main"] \notin Early \cup {"wait0"} =>
       pc["child0"] = "exited" /\ status["child0"] = 0 /\ cur # "child0"
  /\ pc["main"] \notin Early \cup {"wait0", "wait1"} =>
       pc["child1"] = "exited" /\ status["child1"] = 0
  /\ cur = "main" /\ pc["main"] = "wait0" /\ pc["child0"] # "exited" =>
       pc["child1"] = "write fs0" /\ saved["child1"] = regs
  /\ pc[cur] # "none"

LossInv == LostStaysLost /\ SparedKept /\ OthersKept /\ NoneBefore /\ Phases

LInv == TypeOK /\ (pc["main"] # "failed" => LossInv)

(* The values of the workers differ from each other and from main's first. *)
LEMMA Owned ==
  ASSUME NEW r \in Regs
  PROVE  /\ Own("child0")[r] # Own("child1")[r]
         /\ \A c \in Children : State("0.0", 0)[r] # Own(c)[r]
  BY DEF Regs, Own, State, Children

LEMMA WatchesWritten ==
  ASSUME NEW c \in Children
  PROVE  /\ Watches(c) \subseteq Written(c) /\ Written(c) \subseteq Regs
         /\ pc[c] \in {"none", "write fs0", "exited"} => Watches(c) = {}
  BY DEF Watches, Written, Regs

LEMMA ReadyNow ==
  ASSUME NEW p \in Procs, Ready(p)
  PROVE  /\ pc[p] \notin {"none", "exited"}
         /\ p = "main" /\ pc["main"] = "wait0" => pc["child0"] = "exited"
  BY DEF Ready, Exited

(* What passing the hart on does to a register of each process.            *)
LEMMA SwitchEffect ==
  ASSUME TypeOK, NEW p \in Procs, SwitchTo(p), NEW r \in Regs
  PROVE  /\ ~(defect = <<"save", r>> /\ defect = <<"restore", r>>)
         /\ \A q \in Procs \ {cur, p} : saved'[q] = saved[q] /\ Reg(q)' = Reg(q)
         /\ \A q \in Procs : q = cur =>
              /\ saved'[q][r] \in {Reg(q)[r], saved[q][r]} /\ Reg(q)' = saved'[q]
              /\ Reg(q) = regs
              /\ defect # <<"save", r>> => Reg(q)'[r] = Reg(q)[r]
         /\ saved'[p] = saved[p] /\ Reg(p) = saved[p]
         /\ Reg(p)'[r] \in {Reg(p)[r], regs[r]}
         /\ defect # <<"restore", r>> => Reg(p)'[r] = Reg(p)[r]
  <1>1. PICK hit \in Hits(defect) :
          /\ saved' = [saved EXCEPT ![cur] = Copied("save", hit, regs, saved[cur])]
          /\ regs' = Copied("restore", hit, saved[p], regs)
    BY DEF SwitchTo
  <1>2. p # cur /\ cur' = p /\ cur \in Procs /\ saved \in [Procs -> States]
    BY DEF SwitchTo, TypeOK
  <1>3. /\ Copied("save", hit, regs, saved[cur])[r] \in {regs[r], saved[cur][r]}
        /\ defect # <<"save", r>> => Copied("save", hit, regs, saved[cur])[r] = regs[r]
        /\ Copied("restore", hit, saved[p], regs)[r] \in {saved[p][r], regs[r]}
        /\ defect # <<"restore", r>> =>
             Copied("restore", hit, saved[p], regs)[r] = saved[p][r]
    BY DEF Copied
  <1>4. saved'[cur] = Copied("save", hit, regs, saved[cur])
    BY <1>1, <1>2
  <1>5. saved'[p] = saved[p] /\ \A q \in Procs \ {cur, p} : saved'[q] = saved[q]
    BY <1>1, <1>2
  <1>6. /\ Reg(p) = saved[p] /\ Reg(p)' = regs'
        /\ \A q \in Procs : q = cur => Reg(q) = regs /\ Reg(q)' = saved'[q]
        /\ \A q \in Procs \ {cur, p} : Reg(q)' = Reg(q)
    BY <1>2, <1>5 DEF Reg
  <1>7. <<"save", r>> # <<"restore", r>>
    OBVIOUS
  <1> QED BY <1>1, <1>3, <1>4, <1>5, <1>6, <1>7

LEMMA SwitchSpared ==
  ASSUME TypeOK, NEW p \in Procs, SwitchTo(p), NEW r \in Regs, Spared(r)
  PROVE  \A q \in Procs : Reg(q)'[r] = Reg(q)[r]
  <1>1. defect # <<"save", r>> /\ defect # <<"restore", r>>
    BY DEF Spared
  <1>2. \A q \in Procs \ {cur, p} : Reg(q)' = Reg(q)
    BY SwitchEffect
  <1>3. \A q \in Procs : q = cur => Reg(q)'[r] = Reg(q)[r]
    BY <1>1, SwitchEffect
  <1>4. Reg(p)'[r] = Reg(p)[r]
    BY <1>1, SwitchEffect
  <1> QED BY <1>2, <1>3, <1>4

LEMMA SwitchRestore ==
  ASSUME TypeOK, NEW p \in Procs, SwitchTo(p), NEW r \in Regs, defect = <<"restore", r>>
  PROVE  /\ \A q \in Procs : q # p => Reg(q)'[r] = Reg(q)[r]
         /\ Reg(p)'[r] \in {Reg(p)[r], regs[r]}
         /\ \A q \in Procs : q = cur => Reg(q) = regs
  <1>1. defect # <<"save", r>>
    OBVIOUS
  <1>2. \A q \in Procs \ {cur, p} : Reg(q)' = Reg(q)
    BY SwitchEffect
  <1>3. \A q \in Procs : q = cur => Reg(q)'[r] = Reg(q)[r]
    BY <1>1, SwitchEffect
  <1>4. Reg(p)'[r] \in {Reg(p)[r], regs[r]}
    BY SwitchEffect
  <1>5. \A q \in Procs : q = cur => Reg(q) = regs
    BY DEF Reg
  <1> QED BY <1>2, <1>3, <1>4, <1>5

LEMMA SwitchSave ==
  ASSUME TypeOK, NEW p \in Procs, SwitchTo(p), NEW r \in Regs, defect = <<"save", r>>
  PROVE  /\ Reg(p)'[r] = saved[p][r] /\ saved'[p] = saved[p]
         /\ \A q \in Procs : q # p => /\ saved'[q][r] \in {Reg(q)[r], saved[q][r]}
                                      /\ Reg(q)'[r] = saved'[q][r]
  <1>1. defect # <<"restore", r>>
    OBVIOUS
  <1>2. cur' = p /\ p # cur
    BY DEF SwitchTo
  <1>3. \A q \in Procs \ {cur, p} : saved'[q] = saved[q]
    BY SwitchEffect
  <1>4. \A q \in Procs : q = cur => saved'[q][r] \in {Reg(q)[r], saved[q][r]}
    BY SwitchEffect
  <1>5. Reg(p)'[r] = Reg(p)[r] /\ Reg(p) = saved[p] /\ saved'[p] = saved[p]
    BY <1>1, SwitchEffect
  <1>6. \A q \in Procs \ {p} : Reg(q)' = saved'[q]
    BY <1>2 DEF Reg
  <1> QED BY <1>3, <1>4, <1>5, <1>6

(* The part of LossInv that is about one worker survives a switch, also    *)
(* one in the middle of a worker's sched_yield.                            *)
LEMMA SwitchLoss ==
  ASSUME TypeOK, LossInv, NEW p \in Procs, SwitchTo(p),
         \A q \in Procs :
           pc'[q] = pc[q] \/ /\ q = cur /\ q \in Children /\ pc[q] = "yield"
                             /\ pc'[q] \in {"read fs0", "exited"},
         \A c \in Children : Watches(c)' = Watches(c)
  PROVE  LossInv'
  <1> USE ProcNames
  <1>1. /\ p # cur /\ cur' = p /\ UNCHANGED <<defect, status>>
        /\ lost' = IF p \in Children /\ \E r \in Watches(p) : regs'[r] # Own(p)[r]
                   THEN lost \cup {p} ELSE lost
        /\ pc[p] \notin {"none", "exited"} /\ pc'[p] = pc[p]
        /\ p = "main" /\ pc["main"] = "wait0" => pc["child0"] = "exited"
        /\ cur \in Procs /\ lost \subseteq Children
    BY ReadyNow DEF SwitchTo, kernel, TypeOK
  <1>2. Reg(p)' = regs'
    BY <1>1 DEF Reg
  <1>3. /\ \A c \in Children : Own(c)' = Own(c) /\ Watches(c)' = Watches(c)
        /\ Own("child1")' = Own("child1")
    BY DEF Own, State
  <1>4. \A c \in Children : pc[c] # "exited" => Returning(c)' \subseteq Returning(c)
    BY <1>1 DEF Returning
  <1>5. \A c \in Children : /\ Written(c)' \subseteq Written(c)
                            /\ pc'[c] # "exited" => Written(c)' = Written(c)
    BY DEF Written
  <1>6. \A c \in Children : pc[c] = "exited" => pc'[c] = "exited"
    OBVIOUS
  <1>7. pc'["main"] = pc["main"] /\ pc'["traced"] = pc["traced"]
    OBVIOUS
  <1>8. LostStaysLost'
    <2> SUFFICES ASSUME NEW c \in lost'
                 PROVE  \/ pc'[c] = "exited" /\ status'[c] = 10
                        \/ \E r \in Watches(c)' : Gone(c, r)'
      BY DEF LostStaysLost
    <2>0. c \in Children
      BY <1>1
    <2>1. CASE c \in lost /\ pc[c] = "exited"
      <3>1. Watches(c) = {}
        BY <2>0, <2>1, WatchesWritten
      <3> QED BY <1>1, <1>6, <2>0, <2>1, <3>1 DEF LossInv, LostStaysLost
    <2>2. CASE c \in lost /\ pc[c] # "exited"
      <3>1. PICK r \in Watches(c) : Gone(c, r)
        BY <2>2 DEF LossInv, LostStaysLost
      <3>2. r \in Regs
        BY <2>0, WatchesWritten
      <3>3. CASE defect = <<"save", r>>
        <4>1. Reg(c)[r] # Own(c)[r] /\ saved[c][r] # Own(c)[r]
          BY <3>1, <3>3 DEF Gone
        <4>2. saved'[c][r] # Own(c)[r] /\ Reg(c)'[r] # Own(c)[r]
          <5>1. CASE c = p
            BY <3>2, <3>3, <4>1, <5>1, SwitchSave
          <5>2. CASE c # p
            <6>1. /\ saved'[c][r] \in {Reg(c)[r], saved[c][r]}
                  /\ Reg(c)'[r] = saved'[c][r]
              BY <2>0, <3>2, <3>3, <5>2, SwitchSave
            <6> QED BY <4>1, <6>1
          <5> QED BY <5>1, <5>2
        <4> QED BY <1>1, <1>3, <2>0, <3>1, <3>3, <4>2 DEF Gone
      <3>4. CASE defect = <<"restore", r>>
        <4>1. \A q \in Returning(c) : Reg(q)[r] # Own(c)[r]
          BY <3>1, <3>4 DEF Gone
        <4>2. regs[r] # Own(c)[r]
          BY <1>1, <4>1 DEF Returning, Reg
        <4>3. \A q \in Procs : Reg(q)'[r] \in {Reg(q)[r], regs[r]}
          BY <3>2, <3>4, SwitchRestore
        <4>4. \A q \in Returning(c)' : Reg(q)'[r] # Own(c)[r]
          BY <1>4, <2>0, <2>2, <4>1, <4>2, <4>3 DEF Returning
        <4> QED BY <1>1, <1>3, <2>0, <3>1, <3>4, <4>4 DEF Gone
      <3> QED BY <3>1, <3>3, <3>4 DEF Gone
    <2>3. CASE c \notin lost
      <3>1. c = p
        BY <1>1, <2>3
      <3>2. PICK r \in Watches(p) : regs'[r] # Own(p)[r]
        BY <1>1, <2>3
      <3>3. r \in Regs /\ r \in Written(p)
        BY <2>0, <3>1, WatchesWritten
      <3>4. CASE defect = <<"save", r>>
        <4>1. Reg(p)'[r] = saved[p][r] /\ saved'[p] = saved[p]
          BY <3>3, <3>4, SwitchSave
        <4> QED BY <1>1, <1>2, <1>3, <2>0, <3>1, <3>2, <3>4, <4>1 DEF Gone
      <3>5. CASE defect = <<"restore", r>>
        <4>1. Reg(p)[r] = Own(p)[r]
          BY <2>0, <2>3, <3>1, <3>5 DEF LossInv, OthersKept
        <4>2. Reg(p)'[r] = regs[r] /\ regs[r] # Own(p)[r]
          BY <1>2, <3>2, <3>3, <3>5, <4>1, SwitchRestore
        <4>3. \A q \in Procs : q = cur => Reg(q)'[r] = regs[r]
          <5>1. \A q \in Procs : q = cur => Reg(q)'[r] = Reg(q)[r]
            BY <1>1, <3>3, <3>5, SwitchRestore
          <5>2. \A q \in Procs : q = cur => Reg(q) = regs
            BY DEF Reg
          <5> QED BY <5>1, <5>2
        <4>4. pc[p] \notin {"none", "write fs0", "exited"}
          BY <2>0, <3>1, <3>2, WatchesWritten
        <4>5. ASSUME NEW q \in Returning(p)', q # cur, q # p
              PROVE  Reg(q)'[r] # Own(p)[r]
          <5>1. q \in Procs /\ pc[q] \notin {"none", "exited"} /\ Reg(q)' = Reg(q)
                /\ ~(p = "child0" /\ q = "main" /\ pc["main"] = "wait0")
            BY <1>1, <1>7, <3>3, <4>5, SwitchEffect DEF Returning
          <5>2. pc["main"] \in Early \cup {"wait0", "wait1"}
            BY <2>0, <3>1, <4>4 DEF LossInv, Phases, Children
          <5>3. /\ q \in {"main", "child0", "child1"} /\ q # p
                /\ cur \in {"main", "child0", "child1"} /\ cur # p /\ cur # q
            BY <1>1, <4>5, <5>1, <5>2 DEF LossInv, Phases, Procs, Children
          <5>4. CASE p = "child0"
            <6>1. pc["main"] \in Early \cup {"wait0"}
              BY <4>4, <5>4 DEF LossInv, Phases
            <6>2. CASE q = "child1"
              <7>1. cur = "main"
                BY <5>3, <5>4, <6>2
              <7>2. pc["main"] = "wait0"
                BY <5>1, <6>1, <6>2 DEF LossInv, Phases
              <7>3. Reg(q) = regs
                BY <4>4, <5>4, <6>2, <7>1, <7>2 DEF LossInv, Phases, Reg
              <7> QED BY <4>2, <5>1, <7>3
            <6>3. CASE q = "main"
              <7>1. cur = "child1" /\ pc["main"] \in Early
                BY <5>1, <5>3, <5>4, <6>1, <6>3
              <7> QED BY <7>1 DEF LossInv, Phases
            <6> QED BY <5>3, <5>4, <6>2, <6>3
          <5>5. CASE p = "child1"
            <6>1. pc["main"] \notin Early
              BY <4>4, <5>5 DEF LossInv, Phases
            <6>2. CASE q = "child0"
              <7>1. cur = "main" /\ pc["main"] = "wait0"
                BY <5>1, <5>3, <5>5, <6>1, <6>2 DEF LossInv, Phases
              <7> QED BY <4>4, <5>1, <5>5, <6>2, <7>1 DEF LossInv, Phases
            <6>3. CASE q = "main"
              <7>1. cur = "child0" /\ pc["main"] = "wait0"
                BY <5>3, <5>5, <6>1, <6>3 DEF LossInv, Phases
              <7> QED BY <3>3, <3>5, <5>1, <5>5, <6>3, <7>1 DEF LossInv, NoneBefore
            <6> QED BY <5>3, <5>5, <6>2, <6>3
          <5> QED BY <2>0, <3>1, <5>4, <5>5 DEF Children
        <4>6. \A q \in Returning(p)' : Reg(q)'[r] # Own(p)[r]
          BY <1>2, <3>2, <4>2, <4>3, <4>5 DEF Returning
        <4> QED BY <1>1, <1>3, <2>0, <3>1, <3>2, <3>5, <4>6 DEF Gone
      <3>6. ASSUME Spared(r)
            PROVE  FALSE
        <4>1. Reg(p)[r] = Own(p)[r]
          BY <2>0, <3>1, <3>3, <3>6 DEF LossInv, SparedKept
        <4> QED BY <1>2, <3>2, <3>3, <3>6, <4>1, SwitchSpared
      <3> QED BY <3>4, <3>5, <3>6 DEF Spared
    <2> QED BY <2>1, <2>2, <2>3
  <1>9. SparedKept'
    <2> SUFFICES ASSUME NEW c \in Children, NEW r \in Written(c)', Spared(r)'
                 PROVE  Reg(c)'[r] = Own(c)[r]
      BY <1>3 DEF SparedKept
    <2>1. r \in Written(c) /\ r \in Regs /\ Spared(r)
      BY <1>1, <1>5, WatchesWritten DEF Spared
    <2>2. Reg(c)'[r] = Reg(c)[r]
      BY <2>1, SwitchSpared
    <2> QED BY <2>1, <2>2 DEF LossInv, SparedKept
  <1>10. OthersKept'
    <2> SUFFICES ASSUME NEW c \in Children \ lost', NEW r \in Watches(c)',
                        defect' = <<"restore", r>>
                 PROVE  Reg(c)'[r] = Own(c)'[r]
      BY DEF OthersKept
    <2>0. r \in Watches(c) /\ defect = <<"restore", r>> /\ Own(c)' = Own(c)
      BY <1>1, <1>3
    <2>1. c \notin lost /\ r \in Regs
      BY <1>1, <2>0, WatchesWritten
    <2>2. CASE c = p
      BY <1>1, <1>2, <2>0, <2>2
    <2>3. CASE c # p
      <3>1. c \in Procs
        OBVIOUS
      <3>2. \A q \in Procs : q # p => Reg(q)'[r] = Reg(q)[r]
        BY <2>0, <2>1, SwitchRestore
      <3> QED BY <2>0, <2>1, <2>3, <3>1, <3>2 DEF LossInv, OthersKept
    <2> QED BY <2>2, <2>3
  <1>11. NoneBefore'
    <2> SUFFICES ASSUME NEW r \in Regs, defect = <<"restore", r>>
                 PROVE  /\ pc'["child1"] # "exited" /\ r \notin Written("child1")' =>
                             \A q \in Procs : Reg(q)'[r] # Own("child1")[r]
                        /\ pc'["main"] = "wait0" /\ Reg("main")'[r] = Own("child1")[r]
                             => pc'["child0"] = "exited" /\ cur' # "child0"
      BY <1>1, <1>3 DEF NoneBefore
    <2>1. \A q \in Procs : Reg(q)'[r] \in {Reg(q)[r], regs[r]}
      BY SwitchRestore
    <2>2. \A q \in Procs : q # p => Reg(q)'[r] = Reg(q)[r]
      BY SwitchRestore
    <2>3. regs = Reg(cur)
      BY DEF Reg
    <2>4. ASSUME pc'["child1"] # "exited", r \notin Written("child1")'
          PROVE  \A q \in Procs : Reg(q)'[r] # Own("child1")[r]
      <3>1. pc["child1"] # "exited" /\ r \notin Written("child1")
        BY <1>5, <1>6, <2>4
      <3> QED BY <1>1, <2>1, <2>3, <3>1 DEF LossInv, NoneBefore
    <2>5. ASSUME pc'["main"] = "wait0", Reg("main")'[r] = Own("child1")[r]
          PROVE  pc'["child0"] = "exited" /\ cur' # "child0"
      <3>1. CASE p = "main"
        BY <1>1, <1>6, <1>7, <2>5, <3>1
      <3>2. CASE p # "main"
        BY <1>1, <1>6, <1>7, <2>2, <2>5, <3>2 DEF LossInv, NoneBefore
      <3> QED BY <3>1, <3>2
    <2> QED BY <2>4, <2>5
  <1>12. Phases'
    BY <1>1, <1>6, <1>7 DEF LossInv, Phases, Children
  <1> QED BY <1>8, <1>9, <1>10, <1>11, <1>12 DEF LossInv

(* A step of a worker that keeps the hart changes its own registers, its   *)
(* step and its status.                                                    *)
LEMMA StayLoss ==
  ASSUME TypeOK, LossInv, NEW c \in Children, NEW step,
         cur = c, pc[c] \notin {"none", "exited"}, step \notin {"none", "write fs0"},
         pc' = [pc EXCEPT ![c] = step], UNCHANGED <<defect, cur, saved, lost>>,
         \A d \in Children : d # c => Watches(d)' = Watches(d) /\ status'[d] = status[d],
         step # "exited" => Written(c) \subseteq Written(c)',
         \A r \in Regs : \/ regs'[r] = regs[r]
                         \/ regs'[r] = Own(c)[r] /\ r \in Written(c)',
         \A r \in Written(c)' : Spared(r) => regs'[r] = Own(c)[r],
         c \notin lost => \A r \in Watches(c)' :
                            defect = <<"restore", r>> => regs'[r] = Own(c)[r],
         c \in lost => \/ step = "exited" /\ status'[c] = 10
                       \/ \E r \in Watches(c) : /\ r \in Watches(c)' /\ Gone(c, r)
                                                /\ regs'[r] = regs[r]
  PROVE  LossInv'
  <1> USE ProcNames
  <1>1. /\ pc'[c] = step /\ \A q \in Procs : q # c => pc'[q] = pc[q]
        /\ c \in Procs /\ lost \subseteq Children
    BY DEF TypeOK
  <1>2. /\ Reg(c) = regs /\ Reg(c)' = regs'
        /\ \A q \in Procs : q # c => Reg(q)' = Reg(q)
    BY DEF Reg
  <1>3. \A d \in Children : Own(d)' = Own(d)
    BY DEF Own, State
  <1>4. pc'["main"] = pc["main"] /\ pc'["traced"] = pc["traced"]
    BY <1>1
  <1>5. \A d \in Children : Returning(d)' \subseteq Returning(d)
    BY <1>1, <1>4 DEF Returning
  <1>6. LostStaysLost'
    <2> SUFFICES ASSUME NEW d \in lost'
                 PROVE  \/ pc'[d] = "exited" /\ status'[d] = 10
                        \/ \E r \in Watches(d)' : Gone(d, r)'
      BY DEF LostStaysLost
    <2>0. d \in lost /\ d \in Children
      BY <1>1
    <2>1. ASSUME NEW r \in Watches(d), r \in Watches(d)', Gone(d, r),
                 d = c => regs'[r] = regs[r]
          PROVE  \E s \in Watches(d)' : Gone(d, s)'
      <3>1. r \in Regs
        BY <2>0, WatchesWritten
      <3>2. CASE defect = <<"save", r>>
        <4>1. Reg(d)[r] # Own(d)[r] /\ saved[d][r] # Own(d)[r]
          BY <2>1, <3>2 DEF Gone
        <4>2. Reg(d)'[r] = Reg(d)[r]
          BY <1>2, <2>0, <2>1
        <4> QED BY <1>3, <2>0, <2>1, <3>2, <4>1, <4>2 DEF Gone
      <3>3. CASE defect = <<"restore", r>>
        <4>1. \A q \in Returning(d) : Reg(q)[r] # Own(d)[r]
          BY <2>1, <3>3 DEF Gone
        <4>2. c \in Returning(d)
          BY <1>1 DEF Returning
        <4>3. regs'[r] # Own(d)[r]
          <5>1. CASE d = c
            BY <1>2, <2>1, <4>1, <4>2, <5>1
          <5>2. CASE d # c
            <6>1. Own(c)[r] # Own(d)[r]
              BY <2>0, <3>1, <5>2, Owned DEF Children
            <6> QED BY <1>2, <3>1, <4>1, <4>2, <6>1
          <5> QED BY <5>1, <5>2
        <4>4. \A q \in Returning(d)' : Reg(q)'[r] # Own(d)[r]
          BY <1>2, <1>5, <2>0, <4>1, <4>3 DEF Returning
        <4> QED BY <1>3, <2>0, <2>1, <3>3, <4>4 DEF Gone
      <3> QED BY <2>1, <3>2, <3>3 DEF Gone
    <2>2. CASE d = c
      BY <1>1, <2>0, <2>1, <2>2
    <2>3. CASE d # c
      <3>1. pc'[d] = pc[d] /\ status'[d] = status[d] /\ Watches(d)' = Watches(d)
        BY <1>1, <2>0, <2>3
      <3> QED BY <2>0, <2>1, <2>3, <3>1 DEF LossInv, LostStaysLost
    <2> QED BY <2>2, <2>3
  <1>7. SparedKept'
    <2> SUFFICES ASSUME NEW d \in Children, NEW r \in Written(d)', Spared(r)'
                 PROVE  Reg(d)'[r] = Own(d)[r]
      BY <1>3 DEF SparedKept
    <2>1. Spared(r)
      BY DEF Spared
    <2>2. CASE d = c
      BY <1>2, <2>1, <2>2
    <2>3. CASE d # c
      <3>1. Written(d)' = Written(d)
        BY <1>1, <2>3 DEF Written
      <3> QED BY <1>2, <2>1, <2>3, <3>1 DEF LossInv, SparedKept
    <2> QED BY <2>2, <2>3
  <1>8. OthersKept'
    <2> SUFFICES ASSUME NEW d \in Children \ lost', NEW r \in Watches(d)',
                        defect' = <<"restore", r>>
                 PROVE  Reg(d)'[r] = Own(d)'[r]
      BY DEF OthersKept
    <2>1. CASE d = c
      BY <1>2, <1>3, <2>1
    <2>2. CASE d # c
      <3>1. r \in Watches(d) /\ Own(d)' = Own(d) /\ Reg(d)' = Reg(d)
        BY <1>2, <1>3, <2>2
      <3> QED BY <3>1 DEF LossInv, OthersKept
    <2> QED BY <2>1, <2>2
  <1>9. NoneBefore'
    <2> SUFFICES ASSUME NEW r \in Regs, defect = <<"restore", r>>
                 PROVE  /\ pc'["child1"] # "exited" /\ r \notin Written("child1")' =>
                             \A q \in Procs : Reg(q)'[r] # Own("child1")[r]
                        /\ pc'["main"] = "wait0" /\ Reg("main")'[r] = Own("child1")[r]
                             => pc'["child0"] = "exited" /\ cur' # "child0"
      BY <1>3 DEF NoneBefore
    <2>1. ASSUME pc'["child1"] # "exited", r \notin Written("child1")'
          PROVE  \A q \in Procs : Reg(q)'[r] # Own("child1")[r]
      <3>1. pc["child1"] # "exited" /\ r \notin Written("child1")
        <4>1. CASE c = "child1"
          BY <1>1, <2>1, <4>1
        <4>2. CASE c # "child1"
          BY <1>1, <2>1, <4>2 DEF Written
        <4> QED BY <4>1, <4>2
      <3>2. \A q \in Procs : Reg(q)[r] # Own("child1")[r]
        BY <3>1 DEF LossInv, NoneBefore
      <3>3. regs'[r] # Own("child1")[r]
        <4>1. CASE c = "child1"
          BY <1>1, <1>2, <2>1, <3>2, <4>1
        <4>2. CASE c = "child0"
          <5>1. regs[r] # Own("child1")[r]
            <6>1. c \in Procs /\ Reg(c) = regs
              BY <1>2, <4>2, ProcNames
            <6> QED BY <3>2, <6>1
          <5>2. regs'[r] = regs[r] \/ regs'[r] = Own("child0")[r]
            BY <4>2
          <5>3. Own("child0")[r] # Own("child1")[r]
            BY Owned
          <5> QED BY <5>1, <5>2, <5>3
        <4> QED BY <4>1, <4>2 DEF Children
      <3> QED BY <1>2, <3>2, <3>3
    <2>2. ASSUME pc'["main"] = "wait0", Reg("main")'[r] = Own("child1")[r]
          PROVE  pc'["child0"] = "exited" /\ cur' # "child0"
      <3>1. pc["child0"] = "exited" /\ cur # "child0"
        BY <1>2, <1>4, <2>2 DEF LossInv, NoneBefore
      <3> QED BY <1>1, <3>1
    <2> QED BY <2>1, <2>2
  <1>10. Phases'
    BY <1>1, <1>4 DEF LossInv, Phases, Children
  <1> QED BY <1>6, <1>7, <1>8, <1>9, <1>10 DEF LossInv

(* What the worker looks at, step by step.                                 *)
LEMMA WatchesAt ==
  ASSUME NEW c \in Children
  PROVE  /\ pc[c] = "write fcsr" => Watches(c) = {"fs0"} /\ Written(c) = {"fs0"}
         /\ pc[c] = "read fs0" => Watches(c) = Regs
         /\ pc[c] = "read fcsr" =>
              Watches(c) = IF iter[c] < Iterations - 1 THEN Regs ELSE {"rm"}
         /\ pc[c] = "yield" =>
              Watches(c) = IF iter[c] < Iterations - 1 THEN Regs ELSE {}
         /\ pc[c] \in {"none", "write fs0", "exited"} => Watches(c) = {} /\ Written(c) = {}
         /\ pc[c] \in {"read fs0", "read fcsr", "yield"} => Written(c) = Regs
  BY DEF Watches, Written

(* A worker that ends an iteration looks at all registers again, or at     *)
(* none.                                                                   *)
LEMMA IterateWatches ==
  ASSUME TypeOK, NEW c \in Children, pc[c] \in {"read fcsr", "yield"}, Iterate(c)
  PROVE  /\ \/ iter[c] < Iterations - 1 /\ pc' = [pc EXCEPT ![c] = "read fs0"]
            \/ ~(iter[c] < Iterations - 1) /\ pc' = [pc EXCEPT ![c] = "exited"]
         /\ Watches(c)' = IF iter[c] < Iterations - 1 THEN Regs ELSE {}
         /\ \A d \in Children : d # c => Watches(d)' = Watches(d)
  <1> USE ProcNames
  <1>1. \/ iter[c] < Iterations - 1 /\ pc' = [pc EXCEPT ![c] = "read fs0"]
        \/ ~(iter[c] < Iterations - 1) /\ pc' = [pc EXCEPT ![c] = "exited"]
    BY DEF Iterate, Goto
  <1>2. pc'[c] = IF iter[c] < Iterations - 1 THEN "read fs0" ELSE "exited"
    BY <1>1 DEF TypeOK
  <1>3. Watches(c)' = IF iter[c] < Iterations - 1 THEN Regs ELSE {}
    BY <1>2 DEF Watches
  <1>4. \A d \in Children : d # c => pc'[d] = pc[d] /\ iter'[d] = iter[d]
    BY <1>1 DEF Iterate, TypeOK
  <1>5. \A d \in Children : d # c => Watches(d)' = Watches(d)
    BY <1>4 DEF Watches
  <1> QED BY <1>1, <1>3, <1>5

LEMMA WorkerLoss ==
  ASSUME TypeOK, LossInv, NEW c \in Children, Worker(c)
  PROVE  LossInv'
  <1> USE ProcNames
  <1>1. cur \in Procs /\ regs \in States /\ pc \in [Procs -> MainSteps \cup ChildSteps]
        /\ c \in Procs /\ status \in [Procs -> {0, 10, 22}]
    BY DEF TypeOK
  <1>2. regs["fs0"] = regs.fs0 /\ regs["rm"] = regs.rm
        /\ Own(c)["fs0"] = Own(c).fs0 /\ Own(c)["rm"] = Own(c).rm
    OBVIOUS
  <1>3. ASSUME cur = c, NEW r \in Watches(c), Gone(c, r)
        PROVE  regs[r] # Own(c)[r]
    <2>1. Reg(c) = regs /\ c \in Returning(c)
      BY <1>1, <1>3 DEF Reg, Returning
    <2> QED BY <1>3, <2>1 DEF Gone
  <1>4. \A r \in Written(c) : cur = c /\ Spared(r) => regs[r] = Own(c)[r]
    BY DEF LossInv, SparedKept, Reg
  <1>5. cur = c /\ c \notin lost =>
          \A r \in Watches(c) : defect = <<"restore", r>> => regs[r] = Own(c)[r]
    BY DEF LossInv, OthersKept, Reg
  <1>6. c \in lost /\ pc[c] # "exited" => \E r \in Watches(c) : Gone(c, r)
    BY DEF LossInv, LostStaysLost
  <1>7. CASE WriteFs0(c)
    <2>1. /\ cur = c /\ pc[c] = "write fs0" /\ pc' = [pc EXCEPT ![c] = "write fcsr"]
          /\ UNCHANGED <<defect, cur, saved, lost, status, iter>>
      BY <1>7 DEF WriteFs0, At, Goto, kernel
    <2>2. regs'["fs0"] = Own(c)["fs0"] /\ regs'["rm"] = regs["rm"]
      BY <1>1, <1>7 DEF WriteFs0, States
    <2>3. /\ pc'[c] = "write fcsr"
          /\ \A d \in Children : d # c => pc'[d] = pc[d]
      BY <1>1, <2>1
    <2>4. Watches(c)' = {"fs0"} /\ Written(c)' = {"fs0"} /\ Watches(c) = {} /\ Written(c) = {}
      BY <2>1, <2>3 DEF Watches, Written
    <2>5. \A d \in Children : d # c => Watches(d)' = Watches(d)
      BY <2>1, <2>3 DEF Watches
    <2>6. c \notin lost
      BY <1>6, <2>1, <2>4
    <2> QED BY <2>1, <2>2, <2>4, <2>5, <2>6, StayLoss DEF Regs
  <1>8. CASE WriteFcsr(c)
    <2>1. /\ cur = c /\ pc[c] = "write fcsr" /\ pc' = [pc EXCEPT ![c] = "read fs0"]
          /\ UNCHANGED <<defect, cur, saved, lost, status, iter>>
      BY <1>8 DEF WriteFcsr, At, Goto, kernel
    <2>2. regs'["rm"] = Own(c)["rm"] /\ regs'["fs0"] = regs["fs0"]
      BY <1>1, <1>8 DEF WriteFcsr, States
    <2>3. /\ pc'[c] = "read fs0"
          /\ \A d \in Children : d # c => pc'[d] = pc[d]
      BY <1>1, <2>1
    <2>4. Watches(c)' = Regs /\ Written(c)' = Regs /\ Watches(c) = {"fs0"}
          /\ Written(c) = {"fs0"}
      BY <2>1, <2>3 DEF Watches, Written
    <2>5. \A d \in Children : d # c => Watches(d)' = Watches(d)
      BY <2>1, <2>3 DEF Watches
    <2>6. c \in lost => Gone(c, "fs0")
      BY <1>6, <2>1, <2>4
    <2>7. \A r \in Regs : Spared(r) => regs'[r] = Own(c)[r]
      BY <1>4, <2>1, <2>2, <2>4 DEF Regs
    <2>8. c \notin lost => \A r \in Regs : defect = <<"restore", r>> => regs'[r] = Own(c)[r]
      BY <1>5, <2>1, <2>2, <2>4 DEF Regs
    <2> QED BY <2>1, <2>2, <2>4, <2>5, <2>6, <2>7, <2>8, StayLoss DEF Regs
  <1>9. ASSUME NEW step \in {"read fs0", "read fcsr", "yield", "exited"},
               cur = c, pc[c] \in {"read fs0", "read fcsr", "yield"},
               pc' = [pc EXCEPT ![c] = step],
               UNCHANGED <<defect, hart>>,
               \A d \in Children : d # c => Watches(d)' = Watches(d),
               Watches(c)' \subseteq Watches(c),
               \/ status' = status /\ \A r \in Watches(c) \ Watches(c)' : regs[r] = Own(c)[r]
               \/ step = "exited" /\ status' = [status EXCEPT ![c] = 10]
        PROVE  LossInv'
    <2>1. UNCHANGED <<defect, cur, saved, lost, regs>>
      BY <1>9 DEF hart
    <2>2. pc'[c] = step
      BY <1>1, <1>9
    <2>3. Written(c) = Regs /\ Written(c)' = IF step = "exited" THEN {} ELSE Regs
      BY <1>9, <2>2 DEF Written
    <2>4. \A d \in Children : d # c => status'[d] = status[d]
      BY <1>1, <1>9
    <2>5. c \in lost => \/ step = "exited" /\ status'[c] = 10
                        \/ \E r \in Watches(c) : /\ r \in Watches(c)' /\ Gone(c, r)
                                                 /\ regs'[r] = regs[r]
      <3>1. CASE step = "exited" /\ status' = [status EXCEPT ![c] = 10]
        BY <1>1, <3>1
      <3>2. CASE \A r \in Watches(c) \ Watches(c)' : regs[r] = Own(c)[r]
        BY <1>3, <1>6, <1>9, <2>1, <3>2
      <3> QED BY <1>9, <3>1, <3>2
    <2>6. \A r \in Written(c)' : Spared(r) => regs'[r] = Own(c)[r]
      BY <1>4, <1>9, <2>1, <2>3
    <2>7. c \notin lost => \A r \in Watches(c)' :
                             defect = <<"restore", r>> => regs'[r] = Own(c)[r]
      BY <1>5, <1>9, <2>1
    <2> QED BY <1>9, <2>1, <2>3, <2>4, <2>5, <2>6, <2>7, StayLoss
  <1>10. CASE ReadFs0(c)
    <2>1. /\ cur = c /\ pc[c] = "read fs0" /\ UNCHANGED <<defect, hart, iter>>
          /\ \/ /\ regs["fs0"] = Own(c)["fs0"] /\ status' = status
                /\ pc' = [pc EXCEPT ![c] = "read fcsr"]
             \/ /\ status' = [status EXCEPT ![c] = 10]
                /\ pc' = [pc EXCEPT ![c] = "exited"]
      BY <1>2, <1>10 DEF ReadFs0, At, Goto, Exit, kernel
    <2>2. pc'[c] \in {"read fcsr", "exited"} /\ iter'[c] = iter[c]
          /\ \A d \in Children : d # c => pc'[d] = pc[d] /\ iter'[d] = iter[d]
      BY <1>1, <2>1
    <2>3. \A d \in Children : d # c => Watches(d)' = Watches(d)
      BY <2>2 DEF Watches
    <2>4. /\ Watches(c) = {"fs0", "rm"} /\ Watches(c)' \subseteq {"fs0", "rm"}
          /\ pc'[c] = "read fcsr" => "rm" \in Watches(c)'
      BY <2>1, <2>2 DEF Watches, Regs
    <2>5. CASE pc'[c] = "read fcsr"
      <3>1. regs["fs0"] = Own(c)["fs0"] /\ status' = status
            /\ pc' = [pc EXCEPT ![c] = "read fcsr"]
        BY <1>1, <2>1, <2>5
      <3>2. \A r \in Watches(c) \ Watches(c)' : regs[r] = Own(c)[r]
        BY <2>4, <2>5, <3>1
      <3>3. Watches(c)' \subseteq Watches(c)
        BY <2>4
      <3> QED BY <1>9, <2>1, <2>3, <3>1, <3>2, <3>3
    <2>6. CASE pc'[c] = "exited"
      <3>1. status' = [status EXCEPT ![c] = 10] /\ pc' = [pc EXCEPT ![c] = "exited"]
        BY <1>1, <2>1, <2>6
      <3>2. Watches(c)' \subseteq Watches(c)
        BY <2>4
      <3> QED BY <1>9, <2>1, <2>3, <3>1, <3>2
    <2> QED BY <2>2, <2>5, <2>6
  <1>11. CASE ReadFcsr(c)
    <2>1. cur = c /\ pc[c] = "read fcsr" /\ UNCHANGED <<defect, hart>>
      BY <1>11 DEF ReadFcsr, At, kernel
    <2>2. Watches(c) = IF iter[c] < Iterations - 1 THEN Regs ELSE {"rm"}
      BY <2>1, WatchesAt
    <2>3. CASE regs.rm # Own(c).rm
      <3>1. /\ status' = [status EXCEPT ![c] = 10] /\ iter' = iter
            /\ pc' = [pc EXCEPT ![c] = "exited"]
        BY <1>11, <2>3 DEF ReadFcsr, Exit, Goto
      <3>2. pc'[c] = "exited" /\ \A d \in Children : d # c => pc'[d] = pc[d]
        BY <1>1, <3>1
      <3>3. Watches(c)' = {} /\ \A d \in Children : d # c => Watches(d)' = Watches(d)
        BY <3>1, <3>2 DEF Watches
      <3> QED BY <1>9, <2>1, <3>1, <3>3
    <2>4. CASE regs.rm = Own(c).rm /\ iter[c] % Stride = 0
      <3>1. status' = status /\ iter' = iter /\ pc' = [pc EXCEPT ![c] = "yield"]
        BY <1>11, <2>4 DEF ReadFcsr, Goto
      <3>2. pc'[c] = "yield" /\ \A d \in Children : d # c => pc'[d] = pc[d]
        BY <1>1, <3>1
      <3>3. /\ Watches(c)' = IF iter[c] < Iterations - 1 THEN Regs ELSE {}
            /\ \A d \in Children : d # c => Watches(d)' = Watches(d)
        BY <3>1, <3>2 DEF Watches
      <3>4. \A r \in Watches(c) \ Watches(c)' : regs[r] = Own(c)[r]
        BY <1>2, <2>2, <2>4, <3>3
      <3>5. Watches(c)' \subseteq Watches(c)
        BY <2>2, <3>3
      <3> QED BY <1>9, <2>1, <3>1, <3>3, <3>4, <3>5
    <2>5. CASE regs.rm = Own(c).rm /\ iter[c] % Stride # 0
      <3>1. status' = status /\ Iterate(c)
        BY <1>11, <2>5 DEF ReadFcsr
      <3>2. /\ Watches(c)' = IF iter[c] < Iterations - 1 THEN Regs ELSE {}
            /\ \A d \in Children : d # c => Watches(d)' = Watches(d)
            /\ \E step \in {"read fs0", "exited"} : pc' = [pc EXCEPT ![c] = step]
        BY <2>1, <3>1, IterateWatches
      <3>3. \A r \in Watches(c) \ Watches(c)' : regs[r] = Own(c)[r]
        BY <1>2, <2>2, <2>5, <3>2
      <3>4. Watches(c)' \subseteq Watches(c)
        BY <2>2, <3>2
      <3> QED BY <1>9, <2>1, <3>1, <3>2, <3>3, <3>4
    <2> QED BY <2>3, <2>4, <2>5
  <1>12. CASE Yield(c)
    <2>1. cur = c /\ pc[c] = "yield" /\ Iterate(c)
      BY <1>12 DEF Yield, At
    <2>2. /\ \/ pc' = [pc EXCEPT ![c] = "read fs0"]
             \/ pc' = [pc EXCEPT ![c] = "exited"]
          /\ \A d \in Children : Watches(d)' = Watches(d)
      BY <2>1, IterateWatches, WatchesAt
    <2>3. ASSUME NEW p \in Procs, SwitchTo(p)
          PROVE  LossInv'
      <3>1. \A q \in Procs :
              pc'[q] = pc[q] \/ /\ q = cur /\ q \in Children /\ pc[q] = "yield"
                                /\ pc'[q] \in {"read fs0", "exited"}
        BY <1>1, <2>1, <2>2
      <3> QED BY <2>2, <2>3, <3>1, SwitchLoss
    <2>4. CASE UNCHANGED <<kernel, hart, status, seen>>
      <3>1. UNCHANGED <<defect, hart>> /\ status' = status
        BY <2>4 DEF kernel
      <3> QED BY <1>9, <2>1, <2>2, <3>1
    <2> QED BY <1>12, <2>3, <2>4 DEF Yield
  <1> QED BY <1>7, <1>8, <1>10, <1>11, <1>12 DEF Worker

(* Once both workers were seen to end well nothing is lost any more.       *)
LEMMA LateLoss ==
  ASSUME TypeOK, LossInv,
         pc["main"] \notin Early \cup {"wait0", "wait1"},
         \A c \in Children : pc'[c] = pc[c] /\ status'[c] = status[c],
         pc'["main"] \notin Early \cup {"wait0", "wait1"},
         cur \in {"main", "traced"}, UNCHANGED <<cur, lost>>,
         pc'[cur] # "none"
  PROVE  LossInv'
  <1>1. \A c \in Children : /\ pc'[c] = "exited" /\ status'[c] = 0
                            /\ pc[c] = "exited" /\ status[c] = 0
    BY DEF LossInv, Phases, Children
  <1>2. lost' = {}
    <2>1. ASSUME NEW c \in lost
          PROVE  FALSE
      <3>1. c \in Children
        BY DEF TypeOK
      <3>2. Watches(c) = {}
        BY <1>1, <3>1, WatchesAt
      <3>3. status[c] = 0
        BY <1>1, <3>1
      <3> QED BY <3>2, <3>3 DEF LossInv, LostStaysLost
    <2> QED BY <2>1
  <1>3. \A c \in Children : Watches(c)' = {} /\ Written(c)' = {}
    BY <1>1 DEF Watches, Written
  <1>4. LostStaysLost' /\ OthersKept' /\ SparedKept'
    BY <1>2, <1>3 DEF LostStaysLost, OthersKept, SparedKept
  <1>5. NoneBefore'
    BY <1>1, ProcNames DEF NoneBefore
  <1>6. Phases'
    BY <1>1, ProcNames DEF Phases, Early
  <1> QED BY <1>4, <1>5, <1>6 DEF LossInv

(* The two forks of workers: the first children have no value of their own. *)
LEMMA ForkLoss ==
  ASSUME TypeOK, LossInv,
         \/ Fork("fork0", "child0", "write fs0", "fork1")
         \/ Fork("fork1", "child1", "write fs0", "wait0")
  PROVE  LossInv'
  <1> USE ProcNames
  <1>1. PICK child \in Children :
          /\ cur = "main" /\ UNCHANGED <<defect, cur, regs, lost, iter, status>>
          /\ pc["main"] = (IF child = "child0" THEN "fork0" ELSE "fork1")
          /\ pc' = [pc EXCEPT !["main"] = IF child = "child0" THEN "fork1" ELSE "wait0",
                              ![child] = "write fs0"]
          /\ saved' = [saved EXCEPT ![child] = regs]
    BY DEF Fork, At, kernel, Children
  <1>2. pc \in [Procs -> MainSteps \cup ChildSteps] /\ saved \in [Procs -> States]
        /\ lost \subseteq Children
    BY DEF TypeOK
  <1>3. /\ pc'["main"] = (IF child = "child0" THEN "fork1" ELSE "wait0")
        /\ pc'[child] = "write fs0"
        /\ \A q \in Procs : q \notin {"main", child} => pc'[q] = pc[q]
    BY <1>1, <1>2
  <1>4. /\ Reg(child)' = regs /\ Reg("main") = regs /\ Reg("main")' = regs
        /\ saved'[child] = regs
        /\ \A q \in Procs : q # child => Reg(q)' = Reg(q) /\ saved'[q] = saved[q]
    BY <1>1, <1>2 DEF Reg
  <1>5. /\ pc[child] = "none" /\ pc["child1"] = "none"
        /\ child = "child1" => pc["child0"] # "none"
        /\ child = "child0" => pc["child0"] = "none"
    BY <1>1 DEF LossInv, Phases, Early, Children
  <1>6. /\ \A c \in Children : Own(c)' = Own(c)
        /\ Own("child1")' = Own("child1")
    BY DEF Own, State
  <1>7. /\ Watches(child)' = {} /\ Written(child)' = {}
        /\ Watches("child1")' = {} /\ Written("child1")' = {}
        /\ Watches("child1") = {} /\ Written("child1") = {} /\ Watches(child) = {}
        /\ \A c \in Children : c # child => Watches(c)' = Watches(c) /\ Written(c)' = Written(c)
    BY <1>1, <1>3, <1>5 DEF Watches, Written
  <1>8. LostStaysLost'
    <2> SUFFICES ASSUME NEW c \in lost'
                 PROVE  \/ pc'[c] = "exited" /\ status'[c] = 10
                        \/ \E r \in Watches(c)' : Gone(c, r)'
      BY DEF LostStaysLost
    <2>1. c \in lost /\ c \in Children /\ c # child
      BY <1>1, <1>2, <1>5, <1>7 DEF LossInv, LostStaysLost
    <2>2. pc'[c] = pc[c] /\ status'[c] = status[c] /\ Watches(c)' = Watches(c)
      BY <1>1, <1>3, <1>7, <2>1
    <2>3. ASSUME NEW r \in Watches(c), Gone(c, r)
          PROVE  Gone(c, r)'
      <3>1. CASE defect = <<"save", r>>
        <4>1. Reg(c)[r] # Own(c)[r] /\ saved[c][r] # Own(c)[r]
          BY <2>3, <3>1 DEF Gone
        <4>2. Reg(c)' = Reg(c) /\ saved'[c] = saved[c]
          BY <1>4, <2>1
        <4> QED BY <1>1, <1>6, <2>1, <3>1, <4>1, <4>2 DEF Gone
      <3>2. CASE defect = <<"restore", r>>
        <4>1. \A q \in Returning(c) : Reg(q)[r] # Own(c)[r]
          BY <2>3, <3>2 DEF Gone
        <4>2. regs[r] # Own(c)[r]
          BY <1>1, <1>4, <4>1 DEF Returning
        <4>3. Returning(c)' \subseteq Returning(c) \cup {child}
          BY <1>1, <1>3, <1>5 DEF Returning
        <4>4. \A q \in Returning(c)' : Reg(q)'[r] # Own(c)[r]
          BY <1>4, <4>1, <4>2, <4>3 DEF Returning
        <4> QED BY <1>1, <1>6, <2>1, <3>2, <4>4 DEF Gone
      <3> QED BY <2>3, <3>1, <3>2 DEF Gone
    <2> QED BY <2>1, <2>2, <2>3 DEF LossInv, LostStaysLost
  <1>9. SparedKept'
    <2> SUFFICES ASSUME NEW c \in Children, NEW r \in Written(c)', Spared(r)'
                 PROVE  Reg(c)'[r] = Own(c)[r]
      BY <1>6 DEF SparedKept
    <2>1. c # child /\ r \in Written(c) /\ Spared(r)
      BY <1>1, <1>7 DEF Spared
    <2>2. Reg(c)' = Reg(c)
      BY <1>4, <2>1
    <2> QED BY <2>1, <2>2 DEF LossInv, SparedKept
  <1>10. OthersKept'
    <2> SUFFICES ASSUME NEW c \in Children \ lost', NEW r \in Watches(c)',
                        defect' = <<"restore", r>>
                 PROVE  Reg(c)'[r] = Own(c)'[r]
      BY DEF OthersKept
    <2>1. c # child /\ r \in Watches(c) /\ defect = <<"restore", r>> /\ c \notin lost
      BY <1>1, <1>7
    <2>2. Reg(c)' = Reg(c) /\ Own(c)' = Own(c)
      BY <1>4, <1>6, <2>1
    <2> QED BY <2>1, <2>2 DEF LossInv, OthersKept
  <1>11. NoneBefore'
    <2> SUFFICES ASSUME NEW r \in Regs, defect = <<"restore", r>>
                 PROVE  /\ \A q \in Procs : Reg(q)'[r] # Own("child1")[r]
                        /\ Reg("main")'[r] # Own("child1")[r]
      BY <1>1, <1>6 DEF NoneBefore
    <2>1. \A q \in Procs : Reg(q)[r] # Own("child1")[r]
      BY <1>5, <1>7 DEF LossInv, NoneBefore
    <2> QED BY <1>4, <2>1
  <1>12. Phases'
    <2>1. CASE child = "child0"
      <3>1. /\ pc'["main"] = "fork1" /\ pc'["child0"] = "write fs0"
            /\ pc'["child1"] = "none" /\ pc'["traced"] = pc["traced"] /\ cur' = "main"
            /\ pc["traced"] = "none"
        BY <1>1, <1>3, <1>5, <2>1 DEF LossInv, Phases, Early, Children
      <3> QED BY <3>1 DEF Phases, Early
    <2>2. CASE child = "child1"
      <3>1. /\ pc'["main"] = "wait0" /\ pc'["child1"] = "write fs0"
            /\ pc'["child0"] = pc["child0"] /\ pc'["traced"] = pc["traced"]
            /\ cur' = "main" /\ pc["traced"] = "none" /\ pc["child0"] # "none"
            /\ saved'["child1"] = regs /\ regs' = regs
        BY <1>1, <1>3, <1>4, <1>5, <2>2 DEF LossInv, Phases, Early, Children
      <3> QED BY <3>1 DEF Phases, Early
    <2> QED BY <2>1, <2>2 DEF Children
  <1> QED BY <1>8, <1>9, <1>10, <1>11, <1>12 DEF LossInv

(* main waits for the workers, and goes on only if both ended well.        *)
LEMMA WaitLoss ==
  ASSUME TypeOK, LossInv, pc'["main"] # "failed",
         \/ Wait("wait0", "child0", "wait1")
         \/ Wait("wait1", "child1", "signal")
  PROVE  LossInv'
  <1> USE ProcNames
  <1>1. PICK child \in Children :
          /\ cur = "main" /\ UNCHANGED <<defect, hart, iter, status>>
          /\ pc["main"] = (IF child = "child0" THEN "wait0" ELSE "wait1")
          /\ pc[child] = "exited" /\ status[child] = 0
          /\ pc' = [pc EXCEPT !["main"] = IF child = "child0" THEN "wait1" ELSE "signal"]
    <2>1. ASSUME NEW step, NEW child, NEW next, Wait(step, child, next)
          PROVE  /\ cur = "main" /\ UNCHANGED <<defect, hart, iter, status>>
                 /\ pc["main"] = step /\ pc[child] = "exited" /\ status[child] = 0
                 /\ pc' = [pc EXCEPT !["main"] = next]
      BY <2>1 DEF Wait, At, Goto, Exited, kernel, TypeOK
    <2> QED BY <2>1
  <1>2. /\ \A q \in Procs : q # "main" => pc'[q] = pc[q]
        /\ pc'["main"] = (IF child = "child0" THEN "wait1" ELSE "signal")
        /\ UNCHANGED <<cur, regs, saved, lost>> /\ lost \subseteq Children
    BY <1>1 DEF TypeOK, hart
  <1>3. /\ \A q \in Procs : Reg(q)' = Reg(q)
        /\ \A c \in Children : Own(c)' = Own(c)
        /\ Own("child1")' = Own("child1")
    BY <1>2 DEF Reg, Own, State
  <1>4. \A c \in Children : Watches(c)' = Watches(c) /\ Written(c)' = Written(c)
    BY <1>1, <1>2 DEF Watches, Written
  <1>5. \A c \in Children : Returning(c)' \subseteq Returning(c)
    BY <1>1, <1>2 DEF Returning
  <1>6. LostStaysLost'
    <2> SUFFICES ASSUME NEW c \in lost'
                 PROVE  \/ pc'[c] = "exited" /\ status'[c] = 10
                        \/ \E r \in Watches(c)' : Gone(c, r)'
      BY DEF LostStaysLost
    <2>1. c \in lost /\ c \in Children
      BY <1>2
    <2>2. pc'[c] = pc[c] /\ status'[c] = status[c] /\ Watches(c)' = Watches(c)
      BY <1>1, <1>2, <1>4, <2>1
    <2>3. ASSUME NEW r \in Watches(c), Gone(c, r)
          PROVE  Gone(c, r)'
      <3>1. CASE defect = <<"save", r>>
        <4>1. Reg(c)[r] # Own(c)[r] /\ saved[c][r] # Own(c)[r]
          BY <2>3, <3>1 DEF Gone
        <4> QED BY <1>1, <1>2, <1>3, <2>1, <3>1, <4>1 DEF Gone
      <3>2. CASE defect = <<"restore", r>>
        <4>1. \A q \in Returning(c) : Reg(q)[r] # Own(c)[r]
          BY <2>3, <3>2 DEF Gone
        <4>2. \A q \in Returning(c)' : Reg(q)'[r] # Own(c)[r]
          BY <1>3, <1>5, <2>1, <4>1 DEF Returning
        <4> QED BY <1>1, <1>3, <2>1, <3>2, <4>2 DEF Gone
      <3> QED BY <2>3, <3>1, <3>2 DEF Gone
    <2> QED BY <2>1, <2>2, <2>3 DEF LossInv, LostStaysLost
  <1>7. SparedKept'
    <2> SUFFICES ASSUME NEW c \in Children, NEW r \in Written(c)', Spared(r)'
                 PROVE  Reg(c)'[r] = Own(c)[r]
      BY <1>3 DEF SparedKept
    <2>1. r \in Written(c) /\ Spared(r) /\ Reg(c)' = Reg(c)
      BY <1>1, <1>3, <1>4 DEF Spared
    <2> QED BY <2>1 DEF LossInv, SparedKept
  <1>8. OthersKept'
    <2> SUFFICES ASSUME NEW c \in Children \ lost', NEW r \in Watches(c)',
                        defect' = <<"restore", r>>
                 PROVE  Reg(c)'[r] = Own(c)'[r]
      BY DEF OthersKept
    <2>1. /\ r \in Watches(c) /\ defect = <<"restore", r>> /\ c \notin lost
          /\ Reg(c)' = Reg(c) /\ Own(c)' = Own(c)
      BY <1>1, <1>2, <1>3, <1>4
    <2> QED BY <2>1 DEF LossInv, OthersKept
  <1>9. NoneBefore'
    <2> SUFFICES ASSUME NEW r \in Regs, defect = <<"restore", r>>,
                        pc'["child1"] # "exited", r \notin Written("child1")'
                 PROVE  \A q \in Procs : Reg(q)'[r] # Own("child1")[r]
      BY <1>1, <1>2, <1>3 DEF NoneBefore
    <2>1. pc["child1"] # "exited" /\ r \notin Written("child1")
      BY <1>2, <1>4
    <2> QED BY <1>3, <2>1 DEF LossInv, NoneBefore
  <1>10. Phases'
    <2>1. /\ pc'["child0"] = pc["child0"] /\ pc'["child1"] = pc["child1"]
          /\ pc'["traced"] = pc["traced"] /\ cur' = "main" /\ pc["traced"] = "none"
          /\ pc["child0"] = "exited" /\ status["child0"] = 0 /\ pc["child1"] # "none"
          /\ status' = status
      BY <1>1, <1>2 DEF LossInv, Phases, Early, Children
    <2>2. CASE child = "child0"
      <3>1. pc'["main"] = "wait1"
        BY <1>2, <2>2
      <3> QED BY <2>1, <3>1 DEF Phases, Early
    <2>3. CASE child = "child1"
      <3>1. pc'["main"] = "signal" /\ pc["child1"] = "exited" /\ status["child1"] = 0
        BY <1>1, <1>2, <2>3
      <3> QED BY <2>1, <3>1 DEF Phases, Early
    <2> QED BY <2>2, <2>3 DEF Children
  <1> QED BY <1>6, <1>7, <1>8, <1>9, <1>10 DEF LossInv

LEMMA MainLoss ==
  ASSUME TypeOK, LossInv, Main, pc'["main"] # "failed"
  PROVE  LossInv'
  <1> USE ProcNames
  <1>1. CASE \/ Fork("fork0", "child0", "write fs0", "fork1")
             \/ Fork("fork1", "child1", "write fs0", "wait0")
    BY <1>1, ForkLoss
  <1>2. CASE Wait("wait0", "child0", "wait1") \/ Wait("wait1", "child1", "signal")
    BY <1>2, WaitLoss
  <1>3. ~Refuse
    BY DEF Refuse, Goto, TypeOK
  <1>4. CASE \/ Fork("fork", "traced", "write", "wait stop")
             \/ Wait("wait end", "traced", "done")
             \/ SignalWrite \/ Raise \/ Look \/ WaitStop \/ GetRegs \/ SetRegs \/ Cont
    <2>1. /\ cur = "main" /\ UNCHANGED <<cur, lost, status>>
          /\ pc["main"] \in {"fork", "wait end", "signal", "raise", "look", "wait stop",
                             "get", "set", "cont"}
          /\ \E step \in {"wait stop", "done", "raise", "look", "fork", "get", "set", "cont",
                          "wait end", "failed"} : \E step2 :
               \/ pc' = [pc EXCEPT !["main"] = step]
               \/ pc' = [pc EXCEPT !["main"] = step, !["traced"] = step2]
      BY <1>4 DEF Fork, Wait, SignalWrite, Raise, Look, WaitStop, GetRegs, SetRegs, Cont,
                  At, Goto, hart
    <2>2. /\ \A c \in Children : pc'[c] = pc[c]
          /\ pc'["main"] \in {"wait stop", "done", "raise", "look", "fork", "get", "set",
                              "cont", "wait end", "failed"}
      BY <2>1 DEF TypeOK
    <2> QED BY <2>1, <2>2, LateLoss DEF Early
  <1> QED BY <1>1, <1>2, <1>3, <1>4 DEF Main

LEMMA TracedLoss ==
  ASSUME TypeOK, LossInv, TracedWrite \/ TracedStop \/ TracedCheck
  PROVE  LossInv'
  <1> USE ProcNames
  <1>1. /\ cur = "traced" /\ UNCHANGED <<cur, lost>>
        /\ pc["traced"] \in {"write", "stop", "check"}
        /\ \E step \in {"stop", "stopped", "exited"} : pc' = [pc EXCEPT !["traced"] = step]
        /\ \A c \in Children : status'[c] = status[c]
    BY DEF TracedWrite, TracedStop, TracedCheck, At, Goto, Exit, hart, TypeOK
  <1>2. /\ pc'["traced"] # "none" /\ pc'["main"] = pc["main"]
        /\ \A c \in Children : pc'[c] = pc[c]
    BY <1>1 DEF TypeOK
  <1>3. pc["main"] \notin Early \cup {"wait0", "wait1"}
    BY <1>1 DEF LossInv, Phases
  <1> QED BY <1>1, <1>2, <1>3, LateLoss

LEMMA LossInit == Init => LossInv
  <1> SUFFICES ASSUME Init
               PROVE  LossInv
    OBVIOUS
  <1> USE ProcNames
  <1>1. /\ pc["main"] = "fork0" /\ \A p \in Procs : p # "main" => pc[p] = "none"
        /\ lost = {} /\ cur = "main"
        /\ \A p \in Procs : Reg(p) = State("0.0", 0)
    BY DEF Init, Reg
  <1>2. \A c \in Children : Watches(c) = {} /\ Written(c) = {}
    BY <1>1 DEF Watches, Written
  <1>3. LostStaysLost /\ SparedKept /\ OthersKept
    BY <1>1, <1>2 DEF LostStaysLost, SparedKept, OthersKept
  <1>4. NoneBefore
    BY <1>1, Owned DEF NoneBefore
  <1>5. Phases
    BY <1>1 DEF Phases, Early
  <1> QED BY <1>3, <1>4, <1>5 DEF LossInv

LEMMA LossNext == LInv /\ [Next]_vars => LInv'
  <1> SUFFICES ASSUME TypeOK, pc["main"] # "failed" => LossInv, [Next]_vars,
                      pc'["main"] # "failed"
               PROVE  LossInv'
    BY TypeNext DEF LInv
  <1> USE ProcNames
  <1>1. CASE Main
    <2>1. pc["main"] # "failed"
      BY <1>1 DEF Main, Fork, Wait, SignalWrite, Raise, Look, WaitStop, GetRegs, SetRegs,
                  Cont, Refuse, At
    <2> QED BY <1>1, <2>1, MainLoss
  <1>2. CASE TracedWrite \/ TracedStop \/ TracedCheck
    <2>1. pc'["main"] = pc["main"]
      BY <1>2 DEF TracedWrite, TracedStop, TracedCheck, Goto, Exit, TypeOK
    <2> QED BY <1>2, <2>1, TracedLoss
  <1>3. ASSUME NEW c \in Children, Worker(c)
        PROVE  LossInv'
    <2>1. \E step : pc' = [pc EXCEPT ![c] = step]
      BY <1>3 DEF Worker, WriteFs0, WriteFcsr, ReadFs0, ReadFcsr, Yield, Iterate, Goto, Exit
    <2>2. pc'["main"] = pc["main"]
      BY <2>1 DEF TypeOK
    <2> QED BY <1>3, <2>2, WorkerLoss
  <1>4. CASE Preempt \/ Block
    <2>1. pc' = pc /\ iter' = iter
      BY <1>4 DEF Preempt, Block
    <2>2. PICK p \in Procs : SwitchTo(p)
      BY <1>4 DEF Preempt, Block
    <2>3. \A c \in Children : Watches(c)' = Watches(c)
      BY <2>1 DEF Watches
    <2> QED BY <2>1, <2>2, <2>3, SwitchLoss
  <1>5. CASE UNCHANGED vars
    <2>1. UNCHANGED <<defect, cur, regs, saved, lost, pc, iter, status>>
      BY <1>5 DEF vars, kernel, hart
    <2>2. /\ \A q \in Procs : Reg(q)' = Reg(q)
          /\ \A r \in Regs : Spared(r)' = Spared(r)
          /\ \A c \in Children : /\ Watches(c)' = Watches(c)
                                 /\ Written(c)' = Written(c)
                                 /\ Own(c)' = Own(c)
                                 /\ Returning(c)' = Returning(c)
      BY <2>1 DEF Reg, Spared, Watches, Written, Own, State, Returning
    <2>3. \A c \in Children : \A r \in Regs : Gone(c, r)' <=> Gone(c, r)
      BY <2>1, <2>2 DEF Gone, Returning
    <2>4. LostStaysLost'
      BY <2>1, <2>2, <2>3, WatchesWritten DEF LossInv, LostStaysLost, TypeOK
    <2>5. SparedKept'
      BY <2>1, <2>2, WatchesWritten DEF LossInv, SparedKept
    <2>6. OthersKept'
      BY <2>1, <2>2 DEF LossInv, OthersKept
    <2>7. NoneBefore'
      BY <2>1, <2>2 DEF LossInv, NoneBefore, Children
    <2>8. Phases'
      BY <2>1 DEF LossInv, Phases
    <2> QED BY <2>4, <2>5, <2>6, <2>7, <2>8 DEF LossInv
  <1> QED BY <1>1, <1>2, <1>3, <1>4, <1>5 DEF Next

(* A worker that came back to wrong registers, while it was still to look  *)
(* at them, makes the test fail: whatever the kernel forgets and however   *)
(* seldom it does.  A value that is lost cannot come back by a second      *)
(* defect.                                                                 *)
THEOREM LossReported == Spec => []LossIsReported
  <1>1. Init => LInv
    BY TypeInit, LossInit DEF LInv
  <1>2. LInv => LossIsReported
    <2> SUFFICES ASSUME TypeOK, LossInv, NEW c \in lost
                 PROVE  pc["main"] \in {"fork0", "fork1", "wait0", "wait1"}
      BY DEF LInv, LossIsReported
    <2>1. c \in Children
      BY DEF TypeOK
    <2>2. CASE pc["main"] \notin Early \cup {"wait0", "wait1"}
      <3>1. pc[c] = "exited" /\ status[c] = 0
        BY <2>1, <2>2 DEF LossInv, Phases, Children
      <3>2. Watches(c) = {}
        BY <2>1, <3>1, WatchesAt
      <3> QED BY <3>1, <3>2 DEF LossInv, LostStaysLost
    <2> QED BY <2>2 DEF Early
  <1> QED BY <1>1, <1>2, LossNext, PTL DEF Spec
=============================================================================
