--------------------------- MODULE StatefulProofs ---------------------------
(***************************************************************************)
(* Proofs about Stateful, for any actions, threads, register arrays, rates *)
(* and calls: updates of registers are atomic, every abort has its cause,  *)
(* and what the meter and the counter report is sound.                     *)
(***************************************************************************)
EXTENDS Stateful, FiniteSetTheorems, TLAPS

\* A thread between the start of a primitive and the end of it ...
Busy == Primitives \cup {"args", "write", "tokens", "packets"}
\* ... and one that holds the mutexes of its action.
Holding == Busy \cup {"own", "unlock"}
Labels == Holding \cup {"idle", "lock", "wait", "disown"}

ThreadTypes ==
    /\ pc \in [Threads -> Labels]
    /\ act \in [Threads -> DOMAIN Code \cup {"none"}]
    /\ prim \in [Threads -> Nat]
    /\ DOMAIN seen = Threads /\ DOMAIN zeroed = Threads
    /\ DOMAIN mutex = Arrays /\ DOMAIN reg = Arrays

Running ==
    \A t \in Threads :
        /\ act[t] = "none" <=> pc[t] = "idle"
        /\ pc[t] \in Busy => prim[t] \in DOMAIN Code[act[t]]
        /\ pc[t] \in {"add", "write"} => Primitive(t).name = "add"

LocksHeld ==
    \A t \in Threads : pc[t] \in Holding =>
        \A r \in register_sync(act[t]) : mutex[r] = t

Undisturbed ==
    \A t \in Threads : pc[t] = "write" =>
        \A r \in Touched(t) : reg[r] = seen[t][r] \/ r \in zeroed[t]

RegInv == ThreadTypes /\ Running /\ LocksHeld /\ Undisturbed

-----------------------------------------------------------------------------
\* What an action uses, it locks.

LEMMA SeqElement ==
    ASSUME NEW S, NEW s \in Seq(S), NEW i \in 1 .. Len(s)
    PROVE  s[i] \in S /\ i \in Nat
OBVIOUS

LEMMA CodeTypes ==
    ASSUME NEW a \in DOMAIN Code, NEW i \in DOMAIN Code[a]
    PROVE  /\ Code[a][i].name \in Primitives /\ Code[a][i].args \in Seq(Parameter)
           /\ i \in Nat /\ i >= 1 /\ Len(Code[a]) \in Nat
           /\ \A j \in DOMAIN Code[a][i].args :
                 /\ j \in Nat /\ Code[a][i].args[j] \in Parameter
                 /\ ParamArrays(Code[a][i].args[j]) \subseteq register_sync(a)
<1> DEFINE P == [name : Primitives, args : Seq(Parameter)]
           s == Code[a]
<1>1. s \in Seq(P) /\ i \in DOMAIN s
    BY StatefulAssumption
<1>2. Code[a][i] \in P /\ i \in Nat /\ i >= 1 /\ Len(Code[a]) \in Nat
  <2> HIDE DEF P, s
  <2>1. s[i] \in P /\ i \in Nat /\ i >= 1 /\ Len(s) \in Nat
      BY <1>1
  <2> QED
      BY <2>1 DEF s
<1>3. \A j \in DOMAIN Code[a][i].args : j \in Nat /\ Code[a][i].args[j] \in Parameter
    BY <1>2
<1>4. ASSUME NEW j \in DOMAIN Code[a][i].args
      PROVE  ParamArrays(Code[a][i].args[j]) \subseteq register_sync(a)
    BY <1>4 DEF register_sync
<1> QED
    BY <1>1, <1>2, <1>3, <1>4

LEMMA SyncArrays ==
    ASSUME NEW a \in DOMAIN Code
    PROVE  register_sync(a) \subseteq Arrays
<1> SUFFICES ASSUME NEW r \in register_sync(a)
             PROVE  r \in Arrays
    OBVIOUS
<1>1. PICK i \in DOMAIN Code[a] : \E j \in DOMAIN Code[a][i].args :
          r \in ParamArrays(Code[a][i].args[j])
    BY DEF register_sync
<1>2. PICK j \in DOMAIN Code[a][i].args : r \in ParamArrays(Code[a][i].args[j])
    BY <1>1
<1>3. Code[a][i].args[j] \in Parameter
    BY CodeTypes
<1> QED
    BY <1>2, <1>3 DEF ParamArrays, Parameter

LEMMA TouchedLocked ==
    ASSUME NEW t \in Threads, act[t] \in DOMAIN Code, prim[t] \in DOMAIN Code[act[t]]
    PROVE  Touched(t) \subseteq register_sync(act[t])
<1> DEFINE args == Code[act[t]][prim[t]].args
<1>1. args \in Seq(Parameter)
    BY CodeTypes
<1> SUFFICES ASSUME NEW r \in Touched(t)
             PROVE  r \in register_sync(act[t])
    OBVIOUS
<1>2. PICK p \in ToSet(args) : r \in IF p.array = NoArray THEN p.uses ELSE p.uses \cup {p.array}
    BY DEF Touched, Primitive
<1>3. PICK j \in DOMAIN args : p = args[j]
    BY <1>1, <1>2 DEF ToSet
<1>4. p \in Parameter /\ ParamArrays(p) \subseteq register_sync(act[t])
    BY <1>3, CodeTypes
<1>5. r \in ParamArrays(p)
    BY <1>2, <1>4 DEF ParamArrays, Parameter
<1> QED
    BY <1>4, <1>5

LEMMA WrittenLocked ==
    ASSUME NEW t \in Threads, act[t] \in DOMAIN Code, prim[t] \in DOMAIN Code[act[t]],
           Primitive(t).name = "add"
    PROVE  /\ Primitive(t).args[1].array \in register_sync(act[t])
           /\ Primitive(t).args[1].array \in Arrays
<1> DEFINE args == Code[act[t]][prim[t]].args
<1>1. args # <<>> /\ args[1].tag \in RegisterTags
    BY StatefulAssumption DEF Primitive
<1>2. args \in Seq(Parameter)
    BY CodeTypes
<1>3. 1 \in DOMAIN args
    BY <1>1, <1>2
<1>4. ParamArrays(args[1]) \subseteq register_sync(act[t])
    BY <1>3, CodeTypes
<1> QED
    BY <1>1, <1>4, SyncArrays DEF ParamArrays, Primitive

-----------------------------------------------------------------------------
\* Thread t goes on to l, in the same action; it gets no mutex and loses none.
Moves(t, l) ==
    /\ pc' = [pc EXCEPT ![t] = l] /\ act' = act /\ prim' \in [Threads -> Nat]
    /\ \A u \in Threads \ {t} : prim'[u] = prim[u]
    /\ l \in Busy => prim'[t] \in DOMAIN Code[act[t]]
    /\ mutex' = mutex

LEMMA BeginMoves ==
    ASSUME ThreadTypes, NEW t \in Threads, act[t] \in DOMAIN Code, NEW i \in Nat \ {0},
           Begin(t, i), UNCHANGED <<act, mutex>>
    PROVE  \E l \in {"args", "unlock"} : Moves(t, l)
<1>1. DOMAIN Code[act[t]] = 1 .. Len(Code[act[t]]) /\ Len(Code[act[t]]) \in Nat
    BY StatefulAssumption
<1>2. CASE i > Len(Code[act[t]])
  <2>1. Moves(t, "unlock")
      BY <1>2 DEF Moves, Begin, Goto, ThreadTypes, Busy, Primitives
  <2> QED
      BY <2>1
<1>3. CASE i <= Len(Code[act[t]])
  <2>1. pc' = [pc EXCEPT ![t] = "args"] /\ prim' = [prim EXCEPT ![t] = i]
      BY <1>1, <1>3 DEF Begin, Goto
  <2>2. i \in DOMAIN Code[act[t]]
      BY <1>1, <1>3
  <2>3. Moves(t, "args")
      BY <2>1, <2>2 DEF Moves, ThreadTypes
  <2> QED
      BY <2>3
<1> QED
    BY <1>1, <1>2, <1>3

\* A step inside the action, other than the read and the write of a register.
LEMMA MovesReg ==
    ASSUME RegInv, NEW t \in Threads, NEW l \in Labels \ {"idle", "write"}, Moves(t, l),
           pc[t] # "idle", l \in Holding => pc[t] \in Holding,
           l = "add" => prim' = prim /\ Primitive(t).name = "add",
           UNCHANGED <<reg, seen, zeroed>>
    PROVE  RegInv'
<1>1. ThreadTypes'
    BY DEF RegInv, ThreadTypes, Moves
<1>2. Running'
    BY DEF RegInv, ThreadTypes, Moves, Running, Primitive
<1>3. LocksHeld'
    BY DEF RegInv, ThreadTypes, Moves, LocksHeld
<1>4. Undisturbed'
    BY DEF RegInv, ThreadTypes, Moves, Undisturbed, Touched, Primitive
<1> QED
    BY <1>1, <1>2, <1>3, <1>4 DEF RegInv

\* A step that leaves the threads and their registers alone.
LEMMA StillReg ==
    ASSUME RegInv, UNCHANGED <<pc, act, prim, seen, mutex, reg, zeroed>>
    PROVE  RegInv'
BY DEF RegInv, ThreadTypes, Running, LocksHeld, Undisturbed, Touched, Primitive, register_sync

LEMMA ActInCode ==
    ASSUME RegInv, NEW t \in Threads, pc[t] # "idle"
    PROVE  act[t] \in DOMAIN Code
BY DEF RegInv, ThreadTypes, Running

\* A mutex held by one thread is held by no other, and is not free.
LEMMA HeldByOne ==
    ASSUME RegInv, NEW t \in Threads, NEW u \in Threads, t # u,
           pc[t] \in Holding, pc[u] \in Holding, NEW r \in register_sync(act[t])
    PROVE  r \notin register_sync(act[u])
BY DEF RegInv, LocksHeld

LEMMA WriteTouched ==
    ASSUME RegInv, NEW t \in Threads, pc[t] = "write"
    PROVE  Touched(t) \subseteq register_sync(act[t]) /\ Touched(t) \subseteq Arrays
BY ActInCode, TouchedLocked, SyncArrays DEF RegInv, Running, Busy

LEMMA RegInitial == Init => RegInv
BY StatefulAssumption DEF Init, RegInv, ThreadTypes, Running, LocksHeld, Undisturbed, Labels, Holding,
      Busy, Primitives

\* The threads.  Where a step begins a primitive or ends the action it is a move.
LEMMA NextPrimitiveMoves ==
    ASSUME RegInv, NEW t \in Threads, pc[t] \in Busy, NextPrimitive(t), UNCHANGED <<act, mutex>>
    PROVE  \E l \in {"args", "unlock"} : Moves(t, l)
<1>1. prim[t] + 1 \in Nat \ {0} /\ ThreadTypes
    BY DEF RegInv, ThreadTypes
<1>2. act[t] \in DOMAIN Code
    BY ActInCode DEF Busy, Primitives
<1> QED
    BY <1>1, <1>2, BeginMoves DEF NextPrimitive

LEMMA NextPrimitiveReg ==
    ASSUME RegInv, NEW t \in Threads, pc[t] \in Busy, NextPrimitive(t),
           UNCHANGED <<act, mutex, reg, seen, zeroed>>
    PROVE  RegInv'
<1>1. PICK l \in {"args", "unlock"} : Moves(t, l)
    BY NextPrimitiveMoves
<1>2. l \in Labels \ {"idle", "write"} /\ l # "add" /\ pc[t] # "idle" /\ pc[t] \in Holding
    BY DEF Labels, Holding, Busy, Primitives
<1> QED
    BY <1>1, <1>2, MovesReg

LEMMA ExecuteReg ==
    ASSUME RegInv, NEW t \in Threads, NEW a \in DOMAIN Code, Execute(t, a)
    PROVE  RegInv'
<1>1. /\ pc' = [pc EXCEPT ![t] = "lock"] /\ act' = [act EXCEPT ![t] = a]
      /\ prim' = [prim EXCEPT ![t] = 1]
      /\ UNCHANGED <<seen, mutex, reg, zeroed>>
    BY DEF Execute, Goto, regvars
<1>2. "lock" \notin Holding /\ "lock" \notin Busy /\ "lock" \in Labels
    BY DEF Holding, Busy, Primitives, Labels
<1>3. ThreadTypes'
    BY <1>1, <1>2 DEF RegInv, ThreadTypes
<1>4. Running'
    BY <1>1, <1>2, StatefulAssumption DEF RegInv, ThreadTypes, Running, Primitive
<1>5. LocksHeld'
    BY <1>1, <1>2 DEF RegInv, ThreadTypes, LocksHeld
<1>6. Undisturbed'
    BY <1>1 DEF RegInv, ThreadTypes, Undisturbed, Touched, Primitive
<1> QED
    BY <1>3, <1>4, <1>5, <1>6 DEF RegInv

LEMMA LocksReg ==
    ASSUME RegInv, NEW t \in Threads,
           lock_registers(t) \/ Acquire(t) \/ unlock_registers(t) \/ Disown(t)
    PROVE  RegInv'
<1> USE DEF RegInv, ThreadTypes
<1>1. CASE lock_registers(t)
  <2>1. CASE UNCHANGED pc
      BY <1>1, <2>1, StillReg DEF lock_registers, regvars, history
  <2>2. CASE Goto(t, "wait")
    <3>1. "wait" \in Labels \ {"idle", "write"} /\ "wait" \notin Holding /\ "wait" \notin Busy
        BY DEF Labels, Holding, Busy, Primitives
    <3>2. Moves(t, "wait") /\ pc[t] # "idle" /\ UNCHANGED <<reg, seen, zeroed>>
        BY <1>1, <2>2, <3>1 DEF Moves, lock_registers, Goto, regvars, history
    <3> QED
        BY <3>1, <3>2, MovesReg
  <2> QED
      BY <1>1, <2>1, <2>2 DEF lock_registers
<1>2. CASE Acquire(t)
  <2>1. /\ pc' = [pc EXCEPT ![t] = "own"] /\ pc[t] = "wait"
        /\ mutex' = [r \in Arrays |-> IF r \in register_sync(act[t]) THEN t ELSE mutex[r]]
        /\ \A r \in register_sync(act[t]) : mutex[r] = "free"
        /\ UNCHANGED <<act, prim, seen, reg, zeroed>>
      BY <1>2 DEF Acquire, Goto, history
  <2>2. "own" \notin Busy /\ "own" \in Labels
      BY DEF Busy, Primitives, Labels, Holding
  <2>3. ThreadTypes'
      BY <2>1, <2>2
  <2>4. Running'
      BY <2>1, <2>2 DEF Running, Primitive
  <2>5. ASSUME NEW u \in Threads, pc'[u] \in Holding, NEW r \in register_sync(act[u])
        PROVE  mutex'[r] = u
    <3>1. act[u] \in DOMAIN Code
        BY <2>1, <2>5, ActInCode DEF Holding, Busy, Primitives
    <3>2. r \in Arrays
        BY <3>1, SyncArrays
    <3>3. u # t => mutex[r] = u /\ u # "free"
        BY <2>1, <2>5, StatefulAssumption DEF LocksHeld
    <3> QED
        BY <2>1, <3>2, <3>3
  <2>6. LocksHeld'
      BY <2>1, <2>5 DEF LocksHeld
  <2>7. Undisturbed'
      BY <2>1 DEF Undisturbed, Touched, Primitive
  <2> QED
      BY <2>3, <2>4, <2>6, <2>7
<1>3. CASE unlock_registers(t)
  <2>1. CASE UNCHANGED <<pc, mutex>>
      BY <1>3, <2>1, StillReg DEF unlock_registers, history
  <2>2. CASE Goto(t, "disown") /\ mutex' = Release(t)
    <3>1. /\ pc' = [pc EXCEPT ![t] = "disown"] /\ pc[t] = "unlock"
          /\ mutex' = [r \in Arrays |-> IF mutex[r] = t THEN "free" ELSE mutex[r]]
          /\ UNCHANGED <<act, prim, seen, reg, zeroed>>
        BY <1>3, <2>2 DEF unlock_registers, Goto, Release, history
    <3>2. "disown" \notin Holding /\ "disown" \notin Busy /\ "disown" \in Labels
        BY DEF Busy, Primitives, Labels, Holding
    <3>3. ThreadTypes'
        BY <3>1, <3>2
    <3>4. Running'
        BY <3>1, <3>2 DEF Running, Primitive
    <3>5. ASSUME NEW u \in Threads, pc'[u] \in Holding, NEW r \in register_sync(act[u])
          PROVE  mutex'[r] = u
      <4>1. u # t /\ mutex[r] = u
          BY <3>1, <3>2, <3>5 DEF LocksHeld
      <4>2. act[u] \in DOMAIN Code
          BY <3>1, <3>5, <4>1, ActInCode DEF Holding, Busy, Primitives
      <4>3. r \in Arrays
          BY <4>2, SyncArrays
      <4> QED
          BY <3>1, <4>1, <4>3
    <3>6. LocksHeld'
        BY <3>1, <3>5 DEF LocksHeld
    <3>7. Undisturbed'
        BY <3>1 DEF Undisturbed, Touched, Primitive
    <3> QED
        BY <3>3, <3>4, <3>6, <3>7
  <2> QED
      BY <1>3, <2>1, <2>2 DEF unlock_registers
<1>4. CASE Disown(t)
  <2>1. /\ pc' = [pc EXCEPT ![t] = "idle"] /\ act' = [act EXCEPT ![t] = "none"]
        /\ UNCHANGED <<prim, seen, mutex, reg, zeroed>>
      BY <1>4 DEF Disown, Goto, history
  <2>2. "idle" \notin Holding /\ "idle" \notin Busy /\ "idle" \in Labels
      BY DEF Busy, Primitives, Labels, Holding
  <2>3. ThreadTypes'
      BY <2>1, <2>2
  <2>4. Running'
      BY <2>1, <2>2 DEF Running, Primitive
  <2>5. LocksHeld'
      BY <2>1, <2>2 DEF LocksHeld
  <2>6. Undisturbed'
      BY <2>1 DEF Undisturbed, Touched, Primitive
  <2> QED
      BY <2>3, <2>4, <2>5, <2>6
<1> QED
    BY <1>1, <1>2, <1>3, <1>4

LEMMA InnerReg ==
    ASSUME RegInv, NEW t \in Threads,
           \/ Own(t) \/ (\E j \in pend[t] : EvalArgument(t, j)) \/ Call(t) \/ Packet(t)
           \/ ReadClock(t) \/ Tokens(t) \/ CountBytes(t) \/ CountPackets(t)
    PROVE  RegInv'
<1>0. ThreadTypes
    BY DEF RegInv
<1> USE DEF regvars, history
<1>1. CASE Own(t)
  <2>1. act[t] \in DOMAIN Code
      BY <1>1, ActInCode DEF Own
  <2>2. PICK l \in {"args", "unlock"} : Moves(t, l)
      BY <1>0, <1>1, <2>1, BeginMoves DEF Own
  <2>3. l \in Labels \ {"idle", "write"} /\ l # "add" /\ pc[t] # "idle" /\ pc[t] \in Holding
      BY <1>1 DEF Own, Labels, Holding, Busy, Primitives
  <2> QED
      BY <1>1, <2>2, <2>3, MovesReg DEF Own
<1>2. CASE \E j \in pend[t] : EvalArgument(t, j)
    BY <1>2, StillReg DEF EvalArgument
<1>3. CASE Call(t)
  <2>1. CASE UNCHANGED pc
      BY <1>3, <2>1, StillReg DEF Call
  <2>2. CASE Goto(t, Primitive(t).name)
    <3>1. pc[t] = "args" /\ pc[t] \in Busy /\ pc[t] \in Holding
        BY <1>3 DEF Call, Holding, Busy
    <3>2. act[t] \in DOMAIN Code /\ prim[t] \in DOMAIN Code[act[t]]
        BY <3>1, ActInCode DEF RegInv, Running
    <3>3. Primitive(t).name \in Primitives
        BY <3>2, CodeTypes DEF Primitive
    <3>4. Primitive(t).name \in Labels \ {"idle", "write"}
        BY <3>3 DEF Labels, Holding, Busy, Primitives
    <3>5. Moves(t, Primitive(t).name) /\ prim' = prim /\ UNCHANGED <<reg, seen, zeroed>>
        BY <1>0, <1>3, <2>2, <3>2 DEF Call, Moves, Goto, ThreadTypes
    <3> QED
        BY <3>1, <3>4, <3>5, MovesReg
  <2> QED
      BY <1>3, <2>1, <2>2 DEF Call
<1>4. CASE Packet(t)
    BY <1>4, NextPrimitiveReg DEF Packet, Busy, Primitives
<1>5. CASE ReadClock(t)
  <2>1. CASE NextPrimitive(t)
      BY <1>5, <2>1, NextPrimitiveReg DEF ReadClock, Busy, Primitives
  <2>2. CASE Goto(t, "tokens") /\ UNCHANGED prim
    <3>1. pc[t] \in Busy /\ pc[t] \in Holding /\ pc[t] # "idle"
        BY <1>5 DEF ReadClock, Holding, Busy, Primitives
    <3>2. "tokens" \in Labels \ {"idle", "write"}
        BY DEF Labels, Holding, Busy
    <3>3. Moves(t, "tokens") /\ UNCHANGED <<reg, seen, zeroed>>
        BY <1>0, <1>5, <2>2, <3>1 DEF ReadClock, Moves, Goto, ThreadTypes, RegInv, Running
    <3> QED
        BY <3>1, <3>2, <3>3, MovesReg
  <2> QED
      BY <1>5, <2>1, <2>2 DEF ReadClock
<1>6. CASE Tokens(t)
  <2>1. CASE UNCHANGED <<pc, prim>>
      BY <1>6, <2>1, StillReg DEF Tokens
  <2>2. CASE NextPrimitive(t)
      BY <1>6, <2>2, NextPrimitiveReg DEF Tokens, Busy
  <2> QED
      BY <1>6, <2>1, <2>2 DEF Tokens
<1>7. CASE CountBytes(t)
  <2>1. pc[t] \in Busy /\ pc[t] \in Holding /\ pc[t] # "idle"
      BY <1>7 DEF CountBytes, Holding, Busy, Primitives
  <2>2. "packets" \in Labels \ {"idle", "write"}
      BY DEF Labels, Holding, Busy
  <2>3. Moves(t, "packets") /\ UNCHANGED <<reg, seen, zeroed>>
      BY <1>0, <1>7, <2>1 DEF CountBytes, Moves, Goto, ThreadTypes, RegInv, Running
  <2> QED
      BY <2>1, <2>2, <2>3, MovesReg
<1>8. CASE CountPackets(t)
    BY <1>8, NextPrimitiveReg DEF CountPackets, Busy
<1> QED
    BY <1>1, <1>2, <1>3, <1>4, <1>5, <1>6, <1>7, <1>8

\* The registers: whoever writes one holds its mutex, but for the reset.
LEMMA RegistersReg ==
    ASSUME RegInv, NEW t \in Threads, Read(t) \/ Write(t)
    PROVE  RegInv'
<1> USE DEF RegInv, ThreadTypes
<1>1. CASE Read(t)
  <2>1. /\ pc[t] = "add" /\ pc' = [pc EXCEPT ![t] = "write"]
        /\ seen' = [seen EXCEPT ![t] = reg] /\ zeroed' = [zeroed EXCEPT ![t] = {}]
        /\ UNCHANGED <<act, prim, mutex, reg>>
      BY <1>1 DEF Read, Goto, regvars
  <2>2. "write" \in Labels /\ "add" \in Holding /\ "add" \in Busy
      BY DEF Labels, Holding, Busy, Primitives
  <2>3. ThreadTypes'
      BY <2>1, <2>2
  <2>4. Running'
      BY <2>1, <2>2 DEF Running, Primitive
  <2>5. LocksHeld'
      BY <2>1, <2>2 DEF LocksHeld
  <2>6. Undisturbed'
      BY <2>1 DEF Undisturbed, Touched, Primitive
  <2> QED
      BY <2>3, <2>4, <2>5, <2>6
<1>2. CASE Write(t)
  <2> DEFINE r == Primitive(t).args[1].array
  <2>1. /\ pc[t] = "write" /\ pc[t] \in Busy /\ pc[t] \in Holding /\ act[t] \in DOMAIN Code
        /\ DOMAIN reg' = Arrays /\ \A s \in Arrays \ {r} : reg'[s] = reg[s]
        /\ UNCHANGED <<act, mutex, seen, zeroed>>
      BY <1>2, ActInCode DEF Write, Busy, Holding, history
  <2>2. PICK l \in {"args", "unlock"} : Moves(t, l)
      BY <1>2, <2>1, NextPrimitiveMoves DEF Write
  <2>3. /\ pc' = [pc EXCEPT ![t] = l] /\ prim' \in [Threads -> Nat]
        /\ \A u \in Threads \ {t} : prim'[u] = prim[u]
        /\ l \in Busy => prim'[t] \in DOMAIN Code[act[t]]
      BY <2>2 DEF Moves
  <2>4. l \in Labels \ {"idle", "write", "add"} /\ l \in Holding
      BY DEF Labels, Holding, Busy, Primitives
  <2>5. ThreadTypes'
      BY <2>1, <2>3, <2>4
  <2>6. Running'
      BY <2>1, <2>3, <2>4 DEF Running, Primitive
  <2>7. LocksHeld'
      BY <2>1, <2>3, <2>4 DEF LocksHeld
  <2>8. ASSUME NEW u \in Threads, pc'[u] = "write", NEW s \in Touched(u)
        PROVE  reg'[s] = seen[u][s] \/ s \in zeroed[u]
    <3>1. u # t /\ pc[u] = "write" /\ pc[u] \in Holding
        BY <2>3, <2>4, <2>8 DEF Holding, Busy
    <3>2. s \in register_sync(act[u]) /\ s \in Arrays
        BY <3>1, WriteTouched
    <3>3. r \in register_sync(act[t])
        BY <2>1, WrittenLocked DEF Running
    <3>4. s # r
        BY <2>1, <3>1, <3>2, <3>3, HeldByOne
    <3> QED
        BY <2>1, <3>1, <3>2, <3>4 DEF Undisturbed
  <2>9. \A u \in Threads \ {t} : Touched(u)' = Touched(u)
      BY <2>1, <2>3 DEF Touched, Primitive
  <2>10. Undisturbed'
      BY <2>1, <2>3, <2>4, <2>8, <2>9 DEF Undisturbed
  <2> QED
      BY <2>5, <2>6, <2>7, <2>10
<1> QED
    BY <1>1, <1>2

LEMMA CallsReg ==
    ASSUME RegInv, reset_registers \/ \E r \in Arrays : register_write(r)
    PROVE  RegInv'
<1> USE DEF RegInv, ThreadTypes
<1>1. CASE reset_registers
  <2>1. /\ DOMAIN reg' = Arrays /\ UNCHANGED <<pc, act, prim, seen, mutex>>
        /\ zeroed' = [t \in Threads |-> IF pc[t] = "write" THEN Arrays ELSE zeroed[t]]
      BY <1>1 DEF reset_registers, threadvars
  <2>2. ThreadTypes' /\ Running' /\ LocksHeld'
      BY <2>1 DEF Running, LocksHeld, Primitive
  <2>3. \A t \in Threads : pc[t] = "write" => Touched(t) \subseteq Arrays
      BY WriteTouched
  <2>4. \A t \in Threads : Touched(t)' = Touched(t)
      BY <2>1 DEF Touched, Primitive
  <2>5. Undisturbed'
      BY <2>1, <2>3, <2>4 DEF Undisturbed
  <2> QED
      BY <2>2, <2>5
<1>2. CASE \E r \in Arrays : register_write(r)
  <2>1. PICK r \in Arrays : register_write(r)
      BY <1>2
  <2>2. /\ DOMAIN reg' = Arrays /\ \A s \in Arrays \ {r} : reg'[s] = reg[s]
        /\ mutex[r] = "free" /\ UNCHANGED <<pc, act, prim, seen, mutex, zeroed>>
      BY <2>1 DEF register_write, threadvars, history
  <2>3. ThreadTypes' /\ Running' /\ LocksHeld'
      BY <2>2 DEF Running, LocksHeld, Primitive
  <2>4. ASSUME NEW t \in Threads, pc[t] = "write", NEW s \in Touched(t)
        PROVE  reg'[s] = seen[t][s] \/ s \in zeroed[t]
    <3>1. s \in register_sync(act[t]) /\ s \in Arrays
        BY <2>4, WriteTouched
    <3>2. mutex[s] = t /\ t # "free"
        BY <2>4, <3>1, StatefulAssumption DEF LocksHeld, Holding, Busy
    <3> QED
        BY <2>2, <2>4, <3>1, <3>2 DEF Undisturbed
  <2>5. \A t \in Threads : Touched(t)' = Touched(t)
      BY <2>2 DEF Touched, Primitive
  <2>6. Undisturbed'
      BY <2>2, <2>4, <2>5 DEF Undisturbed
  <2> QED
      BY <2>3, <2>6
<1> QED
    BY <1>1, <1>2

LEMMA RegStep == RegInv /\ [Next]_vars => RegInv'
<1> SUFFICES ASSUME RegInv, [Next]_vars
             PROVE  RegInv'
    OBVIOUS
<1>1. ASSUME NEW t \in Threads, (\E a \in DOMAIN Code : Execute(t, a)) \/ ThreadStep(t)
      PROVE  RegInv'
    BY <1>1, ExecuteReg, LocksReg, InnerReg, RegistersReg DEF ThreadStep
<1>2. CASE reset_registers \/ \E r \in Arrays : register_write(r)
    BY <1>2, CallsReg
<1>3. CASE Tick \/ reset_rates \/ WriteCounter
    BY <1>3, StillReg DEF Tick, reset_rates, WriteCounter, threadvars, regvars, history
<1>4. CASE \E config \in NewRates : set_rates(config)
    BY <1>4, StillReg DEF set_rates, threadvars, regvars
<1>5. CASE \E steps \in Steps : StartCall(steps)
    BY <1>5, StillReg DEF StartCall, threadvars, regvars, history
<1>6. CASE UNCHANGED vars
    BY <1>6, StillReg DEF vars, threadvars, regvars, history
<1> QED
    BY <1>1, <1>2, <1>3, <1>4, <1>5, <1>6 DEF Next, CallStep

LEMMA RegAlways == Spec => []RegInv
BY RegInitial, RegStep, PTL DEF Spec

(* An action reads a register, computes and writes it back while it holds the *)
(* mutex of every array that the primitive refers to, directly or through the *)
(* index of an element: RegisterSync collects them all.  So no other action   *)
(* and no register_write of the controller comes in between, whatever the     *)
(* actions are; RegisterArray::reset_state does.                              *)
THEOREM UpdatesAreAtomic == Spec => []RegisterUpdatesAtomic
<1>1. RegInv => RegisterUpdatesAtomic
    BY DEF RegInv, Undisturbed, RegisterUpdatesAtomic
<1> QED
    BY <1>1, RegAlways, PTL

-----------------------------------------------------------------------------
\* The meter.
RateType == [rate : Nat, burst : Nat, tokens : Nat, last : Nat, color : Nat, passed : Nat, base : Int]

MeterTypes ==
    /\ rates \in [1 .. RateCount -> RateType] /\ clock \in Nat
    /\ now \in [Threads -> Nat] /\ \A t \in Threads : now[t] <= clock

\* What passed and what is left of the tokens is what there was and what was refilled.
RateSound(k) ==
    /\ k.last <= k.rate * clock
    /\ \/ k.base = -1 /\ k.passed = 0 /\ k.tokens = k.burst /\ k.last = 0
       \/ k.base \in Nat /\ k.base <= clock /\ k.passed + k.tokens + k.rate * k.base <= k.burst + k.last

Ordered == configured /\ ~rejected => \A k \in 2 .. RateCount :
    rates[k - 1].color > rates[k].color /\ rates[k - 1].rate >= rates[k].rate

MeterInv == MeterTypes /\ Ordered /\ \A k \in 1 .. RateCount : RateSound(rates[k])

LEMMA MulMonotone ==
    ASSUME NEW a \in Nat, NEW b \in Int, NEW c \in Int, b <= c
    PROVE  /\ a * b \in Int /\ a * c \in Int /\ a * b <= a * c
           /\ a * (c - b) = a * c - a * b
<1>1. a * (c - b) = a * c - a * b /\ c - b >= 0
    OBVIOUS
<1>2. a * (c - b) >= 0
    BY <1>1
<1> QED
    BY <1>1, <1>2

LEMMA MinOfTwo ==
    ASSUME NEW a \in Int, NEW b \in Int
    PROVE  Min({a, b}) = IF a <= b THEN a ELSE b
BY DEF Min

WithTokens(k, a, b, c) == [k EXCEPT !.tokens = a, !.last = b, !.base = c]
WithPassed(k, a, b) == [k EXCEPT !.tokens = a, !.passed = b]

LEMMA RefillFields ==
    ASSUME NEW k \in RateType, NEW time, NEW new \in Nat, new = time * k.rate,
           NEW tokens \in Nat, tokens = Min({k.tokens + new - k.last, k.burst}),
           NEW base \in Int, base = IF k.base = -1 THEN time ELSE k.base,
           NEW f, f = Refill(k, time)
    PROVE  /\ f \in RateType /\ f.rate = k.rate /\ f.burst = k.burst /\ f.color = k.color
           /\ f.passed = k.passed /\ f.tokens = tokens /\ f.last = new /\ f.base = base
<1>1. f = WithTokens(k, tokens, new, base)
    BY DEF Refill, WithTokens
<1> QED
    BY <1>1 DEF RateType, WithTokens

LEMMA TakenFields ==
    ASSUME NEW f \in RateType, f.tokens >= 1, NEW a \in Nat, a = f.tokens - 1,
           NEW b \in Nat, b = f.passed + 1, NEW g, g = Taken(f)
    PROVE  /\ g \in RateType /\ g.rate = f.rate /\ g.burst = f.burst /\ g.color = f.color
           /\ g.last = f.last /\ g.base = f.base /\ g.tokens = a /\ g.passed = b
<1>1. f.tokens \in Nat
    BY DEF RateType
<1>2. g = WithPassed(f, a, b)
    BY <1>1 DEF Taken, WithPassed
<1> QED
    BY <1>2 DEF RateType, WithPassed

\* A packet at a time that is not before the last one.
LEMMA RefillSound ==
    ASSUME NEW k \in RateType, clock \in Nat, RateSound(k), NEW time \in Nat, time <= clock,
           time * k.rate >= k.last
    PROVE  /\ Taken(Refill(k, time)) \in RateType /\ RateSound(Taken(Refill(k, time)))
           /\ Taken(Refill(k, time)).color = k.color /\ Taken(Refill(k, time)).rate = k.rate
<1>1. /\ k.rate \in Nat /\ k.burst \in Nat /\ k.tokens \in Nat /\ k.last \in Nat
      /\ k.color \in Nat /\ k.passed \in Nat /\ k.base \in Int
    BY DEF RateType
<1>2. PICK new \in Nat : new = time * k.rate /\ new <= k.rate * clock /\ new = k.rate * time
    BY <1>1, MulMonotone
<1>3. PICK x \in Nat : x = k.tokens + new - k.last
    BY <1>1, <1>2
<1>4. PICK tokens \in Nat : tokens = IF x <= k.burst THEN x ELSE k.burst
    BY <1>1
<1>5. PICK base \in Int : base = IF k.base = -1 THEN time ELSE k.base
    BY <1>1
<1>6. PICK f : f = Refill(k, time)
    OBVIOUS
<1>7. tokens = Min({k.tokens + new - k.last, k.burst})
    BY <1>1, <1>3, <1>4, MinOfTwo
<1>8. /\ f \in RateType /\ f.rate = k.rate /\ f.burst = k.burst /\ f.color = k.color
      /\ f.passed = k.passed /\ f.last = new /\ f.tokens = tokens /\ f.base = base
    BY <1>2, <1>5, <1>6, <1>7, RefillFields
<1>9. f.base \in Nat /\ f.base <= clock /\ f.passed + f.tokens + f.rate * f.base <= f.burst + f.last
  <2>1. CASE k.base = -1
    <3>1. k.passed = 0 /\ k.tokens = k.burst /\ k.last = 0
        BY <2>1 DEF RateSound
    <3>2. x >= k.burst
        BY <1>1, <1>3, <3>1
    <3>3. tokens = k.burst
        BY <1>1, <1>4, <3>2
    <3> QED
        BY <1>1, <1>2, <1>5, <1>8, <2>1, <3>1, <3>3
  <2>2. CASE k.base # -1
    <3>1. /\ k.base \in Nat /\ k.base <= clock
          /\ k.passed + k.tokens + k.rate * k.base <= k.burst + k.last
        BY <2>2 DEF RateSound
    <3>2. k.rate * k.base \in Int /\ tokens <= x
        BY <1>1, <1>4
    <3> QED
        BY <1>1, <1>3, <1>5, <1>8, <2>2, <3>1, <3>2
  <2> QED
      BY <2>1, <2>2
<1>10. CASE f.tokens < 1
    BY <1>2, <1>6, <1>8, <1>9, <1>10 DEF Taken, RateSound
<1>11. CASE ~(f.tokens < 1)
  <2>1. PICK g : g = Taken(f)
      OBVIOUS
  <2>2. PICK a \in Nat, b \in Nat : a = f.tokens - 1 /\ b = f.passed + 1
      BY <1>1, <1>8, <1>11
  <2>3. f.tokens >= 1
      BY <1>8, <1>11
  <2>4. /\ g \in RateType /\ g.rate = f.rate /\ g.burst = f.burst /\ g.color = f.color
        /\ g.last = f.last /\ g.base = f.base /\ g.tokens = a /\ g.passed = b
      BY <1>8, <2>1, <2>2, <2>3, TakenFields
  <2>5. f.rate * f.base \in Int
      BY <1>1, <1>8
  <2>6. g.passed + g.tokens + g.rate * g.base <= g.burst + g.last
      BY <1>1, <1>8, <1>9, <2>2, <2>4, <2>5
  <2>7. RateSound(g)
      BY <1>2, <1>8, <1>9, <2>4, <2>6 DEF RateSound
  <2> QED
      BY <1>6, <1>8, <2>1, <2>4, <2>7
<1> QED
    BY <1>10, <1>11

\* Rates stay sound as time passes.
LEMMA SoundLater ==
    ASSUME NEW k \in RateType, clock \in Nat, RateSound(k), clock' \in Nat, clock <= clock'
    PROVE  RateSound(k)'
<1>1. k.rate \in Nat /\ k.base \in Int /\ k.last \in Nat
    BY DEF RateType
<1>2. k.last <= k.rate * clock'
    BY <1>1, MulMonotone DEF RateSound
<1> QED
    BY <1>1, <1>2 DEF RateSound

LEMMA MeterInitial == Init => MeterInv
<1> SUFFICES ASSUME Init
             PROVE  MeterInv
    OBVIOUS
<1> USE DEF Init
<1>1. MeterTypes
    BY StatefulAssumption DEF MeterTypes, RateType
<1>2. Ordered
    BY DEF Ordered
<1>3. ASSUME NEW k \in 1 .. RateCount
      PROVE  RateSound(rates[k])
    BY DEF RateSound
<1> QED
    BY <1>1, <1>2, <1>3 DEF MeterInv

LEMMA StillMeter ==
    ASSUME MeterInv, UNCHANGED <<rates, clock, now, configured, rejected>>
    PROVE  MeterInv'
BY DEF MeterInv, MeterTypes, Ordered, RateSound

LEMMA TokensMeter ==
    ASSUME MeterInv, NEW t \in Threads, Tokens(t)
    PROVE  MeterInv'
<1>1. CASE UNCHANGED rates
    BY <1>1, StillMeter DEF Tokens, history
<1>2. CASE ~UNCHANGED rates
  <2> DEFINE New(k) == IF Reached(k, now[t]) THEN Taken(Refill(rates[k], now[t])) ELSE rates[k]
  <2>1. DOMAIN rates = 1 .. RateCount /\ now[t] \in Nat /\ now[t] <= clock /\ clock \in Nat
      BY DEF MeterInv, MeterTypes
  <2>2. /\ rates' = [k \in 1 .. RateCount |-> New(k)]
        /\ \A k \in 1 .. RateCount : Reached(k, now[t]) => ~(now[t] * rates[k].rate < rates[k].last)
        /\ UNCHANGED <<clock, now, configured, rejected>>
      BY <1>2, <2>1 DEF Tokens, history
  <2>3. ASSUME NEW k \in 1 .. RateCount
        PROVE  /\ New(k) \in RateType /\ RateSound(New(k))
               /\ New(k).color = rates[k].color /\ New(k).rate = rates[k].rate
    <3>1. rates[k] \in RateType /\ RateSound(rates[k])
        BY DEF MeterInv, MeterTypes
    <3>2. CASE Reached(k, now[t])
      <4>1. rates[k].rate \in Nat /\ rates[k].last \in Nat
          BY <3>1 DEF RateType
      <4>2. now[t] * rates[k].rate \in Int
          BY <2>1, <4>1
      <4>3. now[t] * rates[k].rate >= rates[k].last
          BY <2>2, <3>2, <4>1, <4>2
      <4> QED
          BY <2>1, <3>1, <3>2, <4>3, RefillSound
    <3>3. CASE ~Reached(k, now[t])
        BY <3>1, <3>3
    <3> QED
        BY <3>2, <3>3
  <2> HIDE DEF New
  <2>4. \A k \in 1 .. RateCount : RateSound(rates[k])'
      BY <2>2, <2>3 DEF RateSound
  <2>5. MeterTypes'
      BY <2>2, <2>3 DEF MeterInv, MeterTypes
  <2>6. Ordered'
    <3>1. \A k \in 1 .. RateCount : rates'[k].color = rates[k].color /\ rates'[k].rate = rates[k].rate
        BY <2>2, <2>3
    <3>2. \A k \in 2 .. RateCount : k - 1 \in 1 .. RateCount /\ k \in 1 .. RateCount
        BY StatefulAssumption
    <3> QED
        BY <2>2, <3>1, <3>2 DEF MeterInv, Ordered
  <2> QED
      BY <2>4, <2>5, <2>6 DEF MeterInv
<1> QED
    BY <1>1, <1>2

LEMMA RateSet ==
    ASSUME NEW config \in Seq([rate : Nat, burst : Nat]), NEW k \in 1 .. Len(config), clock \in Nat
    PROVE  /\ set_rate(config, k) \in RateType /\ RateSound(set_rate(config, k))
           /\ set_rate(config, k).color = k /\ set_rate(config, k).rate = config[k].rate
<1>1. config[k] \in [rate : Nat, burst : Nat] /\ k \in Nat
    BY SeqElement
<1>2. config[k].rate \in Nat /\ config[k].burst \in Nat
    BY <1>1
<1>3. config[k].rate * clock >= 0
    BY <1>2
<1> QED
    BY <1>1, <1>2, <1>3 DEF set_rate, RateType, RateSound

LEMMA SetRatesMeter ==
    ASSUME MeterInv, NEW config \in NewRates, set_rates(config)
    PROVE  MeterInv'
<1>1. config \in Seq([rate : Nat, burst : Nat]) /\ RateCount \in Nat /\ clock \in Nat
    BY StatefulAssumption DEF MeterInv, MeterTypes
<1>2. UNCHANGED <<clock, now>>
    BY DEF set_rates, threadvars
<1>3. CASE UNCHANGED <<metervars, rejected>>
    BY <1>2, <1>3, StillMeter DEF metervars
<1>4. CASE Len(config) = RateCount /\ Refused(config) = {}
  <2>1. /\ rates' = Reverse([k \in DOMAIN config |-> set_rate(config, k)])
        /\ configured' /\ ~rejected'
      BY <1>4 DEF set_rates
  <2>2. rates' = [i \in 1 .. RateCount |-> set_rate(config, RateCount - i + 1)]
    <3> DEFINE s == [k \in DOMAIN config |-> set_rate(config, k)]
    <3>1. DOMAIN config = 1 .. RateCount /\ DOMAIN s = 1 .. RateCount /\ Len(s) = RateCount
        BY <1>1, <1>4
    <3>2. \A i \in 1 .. RateCount : RateCount - i + 1 \in 1 .. RateCount
        BY <1>1
    <3>3. Reverse(s) = [i \in 1 .. RateCount |-> s[RateCount - i + 1]]
      <4> HIDE DEF s
      <4> QED
          BY <3>1 DEF Reverse
    <3> QED
        BY <2>1, <3>1, <3>2, <3>3
  <2>3. \A i \in 1 .. RateCount : RateCount - i + 1 \in 1 .. Len(config)
      BY <1>1, <1>4
  <2>4. \A i \in 1 .. RateCount :
            /\ rates'[i] \in RateType /\ RateSound(rates'[i])
            /\ rates'[i].color = RateCount - i + 1
            /\ rates'[i].rate = config[RateCount - i + 1].rate
      BY <1>1, <2>2, <2>3, RateSet
  <2>5. MeterTypes'
      BY <1>2, <2>2, <2>4 DEF MeterInv, MeterTypes
  <2>6. ASSUME NEW k \in 2 .. RateCount
        PROVE  rates'[k - 1].color > rates'[k].color /\ rates'[k - 1].rate >= rates'[k].rate
    <3>1. k - 1 \in 1 .. RateCount /\ k \in 1 .. RateCount /\ RateCount - (k - 1) + 1 = RateCount - k + 2
        BY <1>1
    <3>2. RateCount - k + 2 \in 2 .. Len(config) /\ RateCount - k + 1 \in 1 .. Len(config)
        BY <1>1, <1>4
    <3>3. \A i \in 1 .. Len(config) : config[i].rate \in Nat
        BY <1>1, RateSet DEF RateType
    <3>4. ~(config[RateCount - k + 2 - 1].rate > config[RateCount - k + 2].rate)
        BY <1>4, <3>2 DEF Refused
    <3>5. config[RateCount - k + 1].rate <= config[RateCount - k + 2].rate
      <4>1. RateCount - k + 2 - 1 = RateCount - k + 1 /\ RateCount - k + 2 \in 1 .. Len(config)
          BY <1>1, <3>2
      <4> QED
          BY <3>2, <3>3, <3>4, <4>1
    <3>6. /\ rates'[k - 1].color = RateCount - k + 2 /\ rates'[k - 1].rate = config[RateCount - k + 2].rate
          /\ rates'[k].color = RateCount - k + 1 /\ rates'[k].rate = config[RateCount - k + 1].rate
        BY <2>4, <3>1
    <3>7. RateCount - k + 2 > RateCount - k + 1
        BY <1>1
    <3>8. config[RateCount - k + 2].rate >= config[RateCount - k + 1].rate
        BY <3>2, <3>3, <3>5
    <3> QED
        BY <3>6, <3>7, <3>8
  <2>7. \A k \in 1 .. RateCount : RateSound(rates[k])'
      BY <1>2, <2>4 DEF RateSound
  <2> QED
      BY <2>5, <2>6, <2>7 DEF MeterInv, Ordered
<1>5. CASE Len(config) = RateCount /\ Refused(config) # {}
  <2>1. /\ rates' = [k \in DOMAIN rates |->
                        IF k <= Min(Refused(config)) THEN set_rate(config, k) ELSE rates[k]]
        /\ rejected'
      BY <1>5 DEF set_rates
  <2>2. DOMAIN rates = 1 .. RateCount /\ \A k \in 1 .. RateCount : rates[k] \in RateType /\ RateSound(rates[k])
      BY DEF MeterInv, MeterTypes
  <2>3. \A k \in 1 .. RateCount : rates'[k] \in RateType /\ RateSound(rates'[k])
      BY <1>1, <1>5, <2>1, <2>2, RateSet
  <2>4. MeterTypes'
      BY <1>2, <2>1, <2>2, <2>3 DEF MeterInv, MeterTypes
  <2>5. \A k \in 1 .. RateCount : RateSound(rates[k])'
      BY <1>2, <2>3 DEF RateSound
  <2> QED
      BY <2>1, <2>4, <2>5 DEF MeterInv, Ordered
<1> QED
    BY <1>3, <1>4, <1>5 DEF set_rates

LEMMA MeterStep == MeterInv /\ [Next]_vars => MeterInv'
<1> SUFFICES ASSUME MeterInv, [Next]_vars
             PROVE  MeterInv'
    OBVIOUS
<1> USE DEF history, metervars, threadvars
<1>1. ASSUME NEW t \in Threads, NEW a \in DOMAIN Code, Execute(t, a)
      PROVE  MeterInv'
    BY <1>1, StillMeter DEF Execute
<1>2. ASSUME NEW t \in Threads, ThreadStep(t)
      PROVE  MeterInv'
  <2>1. CASE lock_registers(t) \/ Acquire(t) \/ Own(t) \/ unlock_registers(t) \/ Disown(t)
      BY <2>1, StillMeter DEF lock_registers, Acquire, Own, unlock_registers, Disown
  <2>2. CASE (\E j \in pend[t] : EvalArgument(t, j)) \/ Call(t) \/ Packet(t)
      BY <2>2, StillMeter DEF EvalArgument, Call, Packet
  <2>3. CASE Read(t) \/ Write(t) \/ CountBytes(t) \/ CountPackets(t)
      BY <2>3, StillMeter DEF Read, Write, CountBytes, CountPackets
  <2>4. CASE ReadClock(t)
    <3>1. UNCHANGED <<rates, clock, configured, rejected>> /\ (now' = now \/ now' = [now EXCEPT ![t] = clock])
        BY <2>4 DEF ReadClock
    <3> QED
        BY <3>1 DEF MeterInv, MeterTypes, Ordered, RateSound
  <2>5. CASE Tokens(t)
      BY <2>5, TokensMeter
  <2> QED
      BY <1>2, <2>1, <2>2, <2>3, <2>4, <2>5 DEF ThreadStep
<1>3. CASE Tick
  <2>1. clock' = clock + 1 /\ UNCHANGED <<rates, now, configured, rejected>>
      BY <1>3 DEF Tick
  <2>2. clock \in Nat /\ clock' \in Nat /\ clock <= clock'
      BY <2>1 DEF MeterInv, MeterTypes
  <2>3. MeterTypes' /\ Ordered'
      BY <2>1, <2>2 DEF MeterInv, MeterTypes, Ordered
  <2>4. ASSUME NEW k \in 1 .. RateCount
        PROVE  RateSound(rates[k])'
    <3>1. rates[k] \in RateType /\ RateSound(rates[k]) /\ rates'[k] = rates[k]
        BY <2>1 DEF MeterInv, MeterTypes
    <3>2. PICK r \in RateType : r = rates[k]
        BY <3>1
    <3>3. RateSound(r)'
        BY <2>2, <3>1, <3>2, SoundLater
    <3> QED
        BY <3>1, <3>2, <3>3 DEF RateSound
  <2> QED
      BY <2>3, <2>4 DEF MeterInv
<1>4. CASE reset_rates
    BY <1>4 DEF reset_rates, MeterInv, MeterTypes, Ordered, RateSound
<1>5. CASE WriteCounter \/ reset_registers \/ \E r \in Arrays : register_write(r)
    BY <1>5, StillMeter DEF WriteCounter, reset_registers, register_write
<1>6. CASE \E config \in NewRates : set_rates(config)
    BY <1>6, SetRatesMeter
<1>7. CASE \E steps \in Steps : StartCall(steps)
    BY <1>7, StillMeter DEF StartCall
<1>8. CASE UNCHANGED vars
    BY <1>8, StillMeter DEF vars
<1> QED
    BY <1>1, <1>2, <1>3, <1>4, <1>5, <1>6, <1>7, <1>8 DEF Next, CallStep

LEMMA MeterAlways == Spec => []MeterInv
BY MeterInitial, MeterStep, PTL DEF Spec

-----------------------------------------------------------------------------
\* The counter.
Counting == {t \in Threads : pc[t] = "packets"}

\* Half of the counter is written.
HalfWritten == {<<"packets">>, <<"packets", "registers">>}
CallsToDo ==
    {<<>>, <<"registers">>, <<"bytes", "packets">>, <<"bytes", "packets", "registers">>,
     <<"rates", "bytes", "packets", "registers">>} \cup HalfWritten

CountTypes == call \in CallsToDo /\ bytes \in Nat /\ packets \in Nat /\ raced \in BOOLEAN

Agree ==
    ~raced => IF call \in HalfWritten THEN bytes = 0 /\ Counting = {}
              ELSE bytes = packets + Cardinality(Counting)

CountInv == CountTypes /\ Agree

LEMMA CallTail ==
    ASSUME NEW c \in CallsToDo, c # <<>>
    PROVE  /\ Tail(c) \in CallsToDo
           /\ Head(c) = "packets" <=> c \in HalfWritten
           /\ Tail(c) \in HalfWritten <=> Head(c) = "bytes"
<1> USE DEF CallsToDo, HalfWritten
<1>1. CASE c = <<"registers">>
    BY <1>1
<1>2. CASE c = <<"bytes", "packets">>
    BY <1>2
<1>3. CASE c = <<"bytes", "packets", "registers">>
    BY <1>3
<1>4. CASE c = <<"rates", "bytes", "packets", "registers">>
    BY <1>4
<1>5. CASE c = <<"packets">>
    BY <1>5
<1>6. CASE c = <<"packets", "registers">>
    BY <1>6
<1> QED
    BY <1>1, <1>2, <1>3, <1>4, <1>5, <1>6

LEMMA CountingFinite ==
    IsFiniteSet(Counting) /\ Cardinality(Counting) \in Nat /\ (Cardinality(Counting) = 0 <=> Counting = {})
<1>1. IsFiniteSet(Counting)
    BY StatefulAssumption, FS_Subset DEF Counting
<1> QED
    BY <1>1, FS_CardinalityType, FS_EmptySet

LEMMA StillCount ==
    ASSUME CountInv, Counting' = Counting, UNCHANGED <<call, bytes, packets, raced>>
    PROVE  CountInv'
BY DEF CountInv, CountTypes, Agree

\* Only the two halves of a count enter and leave Counting.
LEMMA OthersCount ==
    ASSUME RegInv, NEW t \in Threads, ThreadStep(t), ~CountBytes(t), ~CountPackets(t)
    PROVE  Counting' = Counting /\ UNCHANGED <<call, bytes, packets, raced>>
<1> USE DEF countvars, callvars, history, Goto
<1>0. /\ DOMAIN pc = Threads
      /\ \A l : pc' = [pc EXCEPT ![t] = l] /\ pc[t] # "packets" /\ l # "packets" => Counting' = Counting
      /\ pc' = pc => Counting' = Counting
    BY DEF RegInv, ThreadTypes, Counting
<1>1. CASE lock_registers(t) \/ Acquire(t) \/ unlock_registers(t) \/ Disown(t)
    BY <1>0, <1>1 DEF lock_registers, Acquire, unlock_registers, Disown
<1>2. CASE Own(t)
  <2>1. act[t] \in DOMAIN Code
      BY <1>2, ActInCode DEF Own
  <2>2. PICK l \in {"args", "unlock"} : Moves(t, l)
      BY <1>2, <2>1, BeginMoves DEF Own, RegInv
  <2> QED
      BY <1>0, <1>2, <2>2 DEF Own, Moves
<1>3. CASE \E j \in pend[t] : EvalArgument(t, j)
    BY <1>0, <1>3 DEF EvalArgument
<1>4. CASE Call(t)
  <2>1. act[t] \in DOMAIN Code /\ prim[t] \in DOMAIN Code[act[t]]
      BY <1>4, ActInCode DEF Call, RegInv, Running, Busy
  <2>2. Primitive(t).name # "packets"
      BY <2>1, CodeTypes DEF Primitive, Primitives
  <2> QED
      BY <1>0, <1>4, <2>2 DEF Call
<1>5. ASSUME NextPrimitive(t), pc[t] \in Busy, pc[t] # "packets", UNCHANGED <<act, mutex>>
      PROVE  Counting' = Counting
  <2>1. PICK l \in {"args", "unlock"} : Moves(t, l)
      BY <1>5, NextPrimitiveMoves
  <2> QED
      BY <1>0, <1>5, <2>1 DEF Moves
<1>6. CASE Packet(t) \/ Write(t)
    BY <1>5, <1>6 DEF Packet, Write, Busy, Primitives, regvars
<1>7. CASE Read(t)
    BY <1>0, <1>7 DEF Read
<1>8. CASE ReadClock(t) \/ Tokens(t)
    BY <1>0, <1>5, <1>8 DEF ReadClock, Tokens, Busy, Primitives, regvars
<1> QED
    BY <1>1, <1>2, <1>3, <1>4, <1>6, <1>7, <1>8 DEF ThreadStep

LEMMA CountsCount ==
    ASSUME RegInv, CountInv, NEW t \in Threads, CountBytes(t) \/ CountPackets(t)
    PROVE  CountInv'
<1> USE DEF callvars, history
<1>0. DOMAIN pc = Threads
    BY DEF RegInv, ThreadTypes
<1>1. CASE CountBytes(t)
  <2>1. /\ pc' = [pc EXCEPT ![t] = "packets"] /\ pc[t] = "count" /\ bytes' = bytes + 1
        /\ raced' = (raced \/ call \in HalfWritten) /\ UNCHANGED <<call, packets>>
      BY <1>1 DEF CountBytes, Goto, HalfWritten
  <2>2. Counting' = Counting \cup {t} /\ t \notin Counting
      BY <1>0, <2>1 DEF Counting
  <2>3. Cardinality(Counting') = Cardinality(Counting) + 1
      BY <2>2, CountingFinite, FS_AddElement
  <2> QED
    <3>1. CountTypes'
        BY <2>1 DEF CountInv, CountTypes
    <3>2. ~raced' => ~raced /\ call \notin HalfWritten /\ call' \notin HalfWritten
        BY <2>1
    <3>3. ~raced' => bytes' = packets' + Cardinality(Counting')
        BY <2>1, <2>3, <3>2, CountingFinite DEF CountInv, CountTypes, Agree
    <3> QED
        BY <3>1, <3>2, <3>3 DEF CountInv, Agree
<1>2. CASE CountPackets(t)
  <2>1. pc[t] = "packets" /\ pc[t] \in Busy /\ packets' = packets + 1 /\ UNCHANGED <<call, bytes, raced>>
      BY <1>2 DEF CountPackets, Busy
  <2>2. PICK l \in {"args", "unlock"} : Moves(t, l)
      BY <1>2, <2>1, NextPrimitiveMoves DEF CountPackets, regvars
  <2>3. Counting' = Counting \ {t} /\ t \in Counting
      BY <1>0, <2>1, <2>2 DEF Counting, Moves
  <2>4. Cardinality(Counting') = Cardinality(Counting) - 1
      BY <2>3, CountingFinite, FS_RemoveElement
  <2> QED
      BY <2>1, <2>3, <2>4, CountingFinite DEF CountInv, CountTypes, Agree
<1> QED
    BY <1>1, <1>2

LEMMA CallsCount ==
    ASSUME CountInv, CallStep \/ \E steps \in Steps : StartCall(steps)
    PROVE  CountInv'
<1> USE DEF history, callvars, countvars, threadvars
<1>1. CASE reset_rates \/ reset_registers
  <2>1. /\ call # <<>> /\ Head(call) \notin {"bytes", "packets"} /\ call' = Tail(call)
        /\ UNCHANGED <<pc, bytes, packets, raced>>
      BY <1>1 DEF reset_rates, reset_registers
  <2>2. call' \in CallsToDo /\ call \notin HalfWritten /\ call' \notin HalfWritten
      BY <2>1, CallTail DEF CountInv, CountTypes
  <2> QED
      BY <2>1, <2>2 DEF CountInv, CountTypes, Agree, Counting
<1>2. CASE WriteCounter
  <2>1. /\ call # <<>> /\ call' = Tail(call) /\ UNCHANGED pc
        /\ raced' = (raced \/ \E t \in Threads : pc[t] = "packets")
      BY <1>2 DEF WriteCounter
  <2>2. call' \in CallsToDo /\ raced' \in BOOLEAN /\ (~raced' => ~raced /\ Counting = {})
      BY <2>1, CallTail DEF CountInv, CountTypes, Counting
  <2>3. CASE Head(call) = "bytes" /\ bytes' = 0 /\ packets' = packets
    <3>1. call' \in HalfWritten
        BY <2>1, <2>3, CallTail DEF CountInv, CountTypes
    <3> QED
        BY <2>1, <2>2, <2>3, <3>1 DEF CountInv, CountTypes, Agree, Counting
  <2>4. CASE Head(call) = "packets" /\ packets' = 0 /\ bytes' = bytes
    <3>1. call' \notin HalfWritten /\ call \in HalfWritten
        BY <2>1, <2>4, CallTail DEF CountInv, CountTypes
    <3>2. Counting' = Counting
        BY <2>1 DEF Counting
    <3> QED
        BY <2>2, <2>4, <3>1, <3>2, CountingFinite DEF CountInv, CountTypes, Agree
  <2> QED
      BY <1>2, <2>3, <2>4 DEF WriteCounter
<1>3. CASE \E steps \in Steps : StartCall(steps)
  <2>1. call = <<>> /\ call' \in Steps /\ UNCHANGED <<pc, bytes, packets, raced>>
      BY <1>3 DEF StartCall, Called
  <2>2. call' \in CallsToDo /\ call' \notin HalfWritten /\ call \notin HalfWritten
      BY <2>1 DEF Steps, reset_counter, CallsToDo, HalfWritten
  <2> QED
      BY <2>1, <2>2 DEF CountInv, CountTypes, Agree, Counting
<1> QED
    BY <1>1, <1>2, <1>3 DEF CallStep

LEMMA CountInitial == Init => CountInv
<1> SUFFICES ASSUME Init
             PROVE  CountInv
    OBVIOUS
<1>1. Counting = {} /\ call = <<>> /\ bytes = 0 /\ packets = 0 /\ raced = FALSE
    BY DEF Init, Counting
<1>2. call \in CallsToDo /\ call \notin HalfWritten
    BY <1>1 DEF CallsToDo, HalfWritten
<1>3. CountTypes
    BY <1>1, <1>2 DEF CountTypes
<1>4. bytes = packets + Cardinality(Counting)
    BY <1>1, CountingFinite
<1> QED
    BY <1>2, <1>3, <1>4 DEF CountInv, Agree

LEMMA CountStep == RegInv /\ CountInv /\ [Next]_vars => CountInv'
<1> SUFFICES ASSUME RegInv, CountInv, [Next]_vars
             PROVE  CountInv'
    OBVIOUS
<1> USE DEF history, countvars, callvars, threadvars
<1>1. ASSUME NEW t \in Threads, NEW a \in DOMAIN Code, Execute(t, a)
      PROVE  CountInv'
  <2>1. pc' = [pc EXCEPT ![t] = "lock"] /\ pc[t] = "idle" /\ UNCHANGED <<call, bytes, packets, raced>>
      BY <1>1 DEF Execute, Goto
  <2>2. Counting' = Counting
      BY <2>1 DEF Counting, RegInv, ThreadTypes
  <2> QED
      BY <2>1, <2>2, StillCount
<1>2. ASSUME NEW t \in Threads, ThreadStep(t)
      PROVE  CountInv'
    BY <1>2, CountsCount, OthersCount, StillCount
<1>3. CASE CallStep \/ \E steps \in Steps : StartCall(steps)
    BY <1>3, CallsCount
<1>4. CASE Tick \/ (\E r \in Arrays : register_write(r)) \/ \E config \in NewRates : set_rates(config)
  <2>1. UNCHANGED <<pc, call, bytes, packets, raced>>
      BY <1>4 DEF Tick, register_write, set_rates
  <2> QED
      BY <2>1, StillCount DEF Counting
<1>5. CASE UNCHANGED vars
    BY <1>5, StillCount DEF vars, Counting
<1> QED
    BY <1>1, <1>2, <1>3, <1>4, <1>5 DEF Next

(* Meter::execute lets no more packets through than the burst and what the    *)
(* rate refills allow, in whatever order the threads get the meter's mutex,   *)
(* and Meter::set_rates leaves the rates in the order in which the loop must  *)
(* try them; the two counts of Counter differ by the increments under way     *)
(* unless an increment and a write interleaved.                               *)
THEOREM StatisticsAreSound == Spec => []StatsConform
<1>1. CountInv => CountersAgreeUnlessRaced
  <2>1. <<>> \notin HalfWritten
      BY DEF HalfWritten
  <2> QED
      BY <2>1 DEF CountInv, Agree, CountersAgreeUnlessRaced, Counting
<1>2. MeterInv => MeterConforms
  <2> SUFFICES ASSUME MeterInv
               PROVE  MeterConforms
      OBVIOUS
  <2>1. ASSUME NEW k \in DOMAIN rates, rates[k].base >= 0
        PROVE  rates[k].passed <= rates[k].burst + rates[k].rate * (clock - rates[k].base)
    <3>1. PICK r \in RateType : r = rates[k] /\ RateSound(r)
        BY DEF MeterInv, MeterTypes
    <3>2. /\ r.rate \in Nat /\ r.burst \in Nat /\ r.tokens \in Nat /\ r.last \in Nat
          /\ r.passed \in Nat /\ r.base \in Int /\ clock \in Nat
        BY DEF RateType, MeterInv, MeterTypes
    <3>3. /\ r.base <= clock /\ r.passed + r.tokens + r.rate * r.base <= r.burst + r.last
          /\ r.last <= r.rate * clock
        BY <2>1, <3>1, <3>2 DEF RateSound
    <3>4. /\ r.rate * (clock - r.base) = r.rate * clock - r.rate * r.base
          /\ r.rate * clock \in Int /\ r.rate * r.base \in Int
        BY <3>2, <3>3, MulMonotone
    <3>5. r.passed <= r.burst + r.rate * (clock - r.base)
        BY <3>2, <3>3, <3>4
    <3> QED
        BY <3>1, <3>5
  <2> QED
      BY <2>1 DEF MeterConforms, MeterInv, Ordered
<1> QED
    BY <1>1, <1>2, RegInitial, RegStep, MeterAlways, CountInitial, CountStep, PTL DEF Spec, StatsConform

-----------------------------------------------------------------------------
\* The flags of RegisterSync::locks.
Owner == Busy \cup {"unlock"}

OwnTypes == owns \in [DOMAIN Code -> BOOLEAN]

\* Two threads in one action were noticed.
Noticed ==
    \A t, u \in Threads : t # u /\ act[t] = act[u] /\ act[t] # "none" => act[t] \in shared

\* A flag is set by a thread inside the action, and is set while a thread is, unless
\* another one cleared it.
FlagSet ==
    \A a \in DOMAIN Code : owns[a] =>
        \E u \in Threads : act[u] = a /\ pc[u] \in Owner \cup {"disown"}
FlagKept ==
    \A t \in Threads : pc[t] \in Owner /\ register_sync(act[t]) # {} =>
        owns[act[t]] \/ act[t] \in shared

OwnInv == OwnTypes /\ Noticed /\ FlagSet /\ FlagKept

LEMMA MovesOwn ==
    ASSUME RegInv, OwnInv, NEW t \in Threads, NEW l, pc' = [pc EXCEPT ![t] = l],
           pc[t] \in Owner => l \in Owner \cup {"disown"}, pc[t] # "disown",
           l \in Owner => pc[t] \in Owner, UNCHANGED <<act, owns, shared>>
    PROVE  OwnInv'
<1>1. DOMAIN pc = Threads
    BY DEF RegInv, ThreadTypes
<1>2. OwnTypes' /\ Noticed'
    BY DEF OwnInv, OwnTypes, Noticed
<1>3. FlagSet'
    BY <1>1 DEF OwnInv, FlagSet
<1>4. FlagKept'
    BY <1>1 DEF OwnInv, FlagKept
<1> QED
    BY <1>2, <1>3, <1>4 DEF OwnInv

LEMMA StillOwn ==
    ASSUME OwnInv, UNCHANGED <<pc, act, owns, shared>>
    PROVE  OwnInv'
BY DEF OwnInv, OwnTypes, Noticed, FlagSet, FlagKept

LEMMA NextPrimitiveOwn ==
    ASSUME RegInv, OwnInv, NEW t \in Threads, pc[t] \in Busy, NextPrimitive(t),
           UNCHANGED <<act, mutex, owns, shared>>
    PROVE  OwnInv'
<1>1. PICK l \in {"args", "unlock"} : Moves(t, l)
    BY NextPrimitiveMoves
<1>2. l \in Owner /\ pc[t] \in Owner /\ pc[t] # "disown"
    BY DEF Owner, Busy, Primitives
<1> QED
    BY <1>1, <1>2, MovesOwn DEF Moves

LEMMA ExecuteOwn ==
    ASSUME RegInv, OwnInv, NEW t \in Threads, NEW a \in DOMAIN Code, Execute(t, a)
    PROVE  OwnInv'
<1>1. /\ pc[t] = "idle" /\ act[t] = "none" /\ UNCHANGED owns
      /\ pc' = [pc EXCEPT ![t] = "lock"] /\ act' = [act EXCEPT ![t] = a]
      /\ shared' = IF \E u \in Threads \ {t} : act[u] = a THEN shared \cup {a} ELSE shared
    BY DEF Execute, Goto, regvars, RegInv, Running
<1>2. DOMAIN pc = Threads /\ DOMAIN act = Threads /\ "none" \notin DOMAIN Code /\ shared \subseteq shared'
    BY <1>1, StatefulAssumption DEF RegInv, ThreadTypes
<1>3. "lock" \notin Owner /\ "idle" \notin Owner
    BY DEF Owner, Busy, Primitives
<1>4. OwnTypes'
    BY <1>1 DEF OwnInv, OwnTypes
<1>5. Noticed'
    BY <1>1, <1>2 DEF OwnInv, Noticed
<1>6. FlagSet'
    BY <1>1, <1>2, <1>3 DEF OwnInv, FlagSet
<1>7. FlagKept'
    BY <1>1, <1>2, <1>3 DEF OwnInv, FlagKept
<1> QED
    BY <1>4, <1>5, <1>6, <1>7 DEF OwnInv

LEMMA FlagsOwn ==
    ASSUME RegInv, OwnInv, NEW t \in Threads, Own(t) \/ Disown(t)
    PROVE  OwnInv'
<1>0. DOMAIN pc = Threads /\ DOMAIN act = Threads /\ DOMAIN owns = DOMAIN Code
    BY DEF RegInv, ThreadTypes, OwnInv, OwnTypes
<1>1. CASE Own(t)
  <2>1. act[t] \in DOMAIN Code
      BY <1>1, ActInCode DEF Own
  <2>2. PICK l \in {"args", "unlock"} : Moves(t, l)
      BY <1>1, <2>1, BeginMoves DEF Own, RegInv
  <2>3. /\ pc' = [pc EXCEPT ![t] = l] /\ act' = act /\ shared' = shared /\ pc[t] = "own"
        /\ owns' = [owns EXCEPT ![act[t]] = register_sync(act[t]) # {}]
      BY <1>1, <2>2 DEF Own, Moves, history
  <2>4. l \in Owner /\ "own" \notin Owner
      BY DEF Owner, Busy, Primitives
  <2>5. OwnTypes' /\ Noticed'
      BY <2>3 DEF OwnInv, OwnTypes, Noticed
  <2>6. FlagSet'
      BY <1>0, <2>3, <2>4 DEF OwnInv, FlagSet
  <2>7. ASSUME NEW u \in Threads, pc'[u] \in Owner, register_sync(act[u]) # {}
        PROVE  owns'[act[u]] \/ act[u] \in shared
    <3>1. CASE act[u] = act[t]
      <4>1. owns'[act[t]] = (register_sync(act[t]) # {})
          BY <1>0, <2>1, <2>3
      <4> QED
          BY <2>7, <3>1, <4>1
    <3>2. CASE act[u] # act[t]
      <4>1. pc[u] \in Owner /\ owns'[act[u]] = owns[act[u]]
        <5>1. u # t /\ pc[u] \in Owner
            BY <1>0, <2>3, <2>7, <3>2
        <5>2. act[u] \in DOMAIN Code
            BY <5>1, ActInCode DEF Owner, Busy, Primitives
        <5> QED
            BY <1>0, <2>3, <3>2, <5>1, <5>2
      <4> QED
          BY <2>7, <4>1 DEF OwnInv, FlagKept
    <3> QED
        BY <3>1, <3>2
  <2>8. FlagKept'
      BY <2>3, <2>7 DEF FlagKept
  <2> QED
      BY <2>5, <2>6, <2>8 DEF OwnInv
<1>2. CASE Disown(t)
  <2>1. act[t] \in DOMAIN Code /\ act[t] # "none"
      BY <1>2, ActInCode, StatefulAssumption DEF Disown
  <2>2. /\ pc' = [pc EXCEPT ![t] = "idle"] /\ act' = [act EXCEPT ![t] = "none"] /\ shared' = shared
        /\ owns' = [owns EXCEPT ![act[t]] = FALSE]
      BY <1>2 DEF Disown, Goto, Cleared, history
  <2>3. "idle" \notin Owner
      BY DEF Owner, Busy, Primitives
  <2>4. OwnTypes'
      BY <2>2 DEF OwnInv, OwnTypes
  <2>5. Noticed'
      BY <1>0, <2>2 DEF OwnInv, Noticed
  <2>6. FlagSet'
      BY <1>0, <2>1, <2>2 DEF OwnInv, FlagSet
  <2>7. ASSUME NEW u \in Threads, pc'[u] \in Owner, register_sync(act'[u]) # {}
        PROVE  owns'[act'[u]] \/ act'[u] \in shared
    <3>1. u # t /\ act'[u] = act[u] /\ pc'[u] = pc[u]
        BY <1>0, <2>2, <2>3, <2>7
    <3>2. act[u] \in DOMAIN Code
        BY <2>3, <2>7, <3>1, ActInCode
    <3>3. CASE act[u] = act[t]
        BY <2>1, <3>1, <3>3 DEF OwnInv, Noticed
    <3>4. CASE act[u] # act[t]
        BY <1>0, <2>2, <2>7, <3>1, <3>2, <3>4 DEF OwnInv, FlagKept
    <3> QED
        BY <3>3, <3>4
  <2>8. FlagKept'
      BY <2>2, <2>7 DEF FlagKept
  <2> QED
      BY <2>4, <2>5, <2>6, <2>8 DEF OwnInv
<1> QED
    BY <1>1, <1>2

LEMMA InnerOwn ==
    ASSUME RegInv, OwnInv, NEW t \in Threads, ThreadStep(t), ~Own(t), ~Disown(t)
    PROVE  OwnInv'
<1> USE DEF history, regvars, Goto
<1>0. "lock" \notin Owner /\ "wait" \notin Owner /\ "own" \notin Owner
    BY DEF Owner, Busy, Primitives
<1>1. CASE lock_registers(t)
    BY <1>0, <1>1, StillOwn, MovesOwn DEF lock_registers
<1>2. CASE Acquire(t)
    BY <1>0, <1>2, MovesOwn DEF Acquire
<1>3. CASE unlock_registers(t)
  <2>1. "disown" \notin Owner
      BY DEF Owner, Busy, Primitives
  <2> QED
      BY <1>3, <2>1, StillOwn, MovesOwn DEF unlock_registers
<1>4. CASE \E j \in pend[t] : EvalArgument(t, j)
    BY <1>4, StillOwn DEF EvalArgument
<1>5. CASE Call(t)
  <2>1. act[t] \in DOMAIN Code /\ prim[t] \in DOMAIN Code[act[t]] /\ "args" \in Owner
      BY <1>5, ActInCode DEF Call, RegInv, Running, Busy, Owner
  <2>2. Primitive(t).name \in Owner
      BY <2>1, CodeTypes DEF Primitive, Owner, Busy
  <2> QED
      BY <1>5, <2>1, <2>2, StillOwn, MovesOwn DEF Call
<1>6. CASE Packet(t) \/ Write(t) \/ CountPackets(t)
    BY <1>6, NextPrimitiveOwn DEF Packet, Write, CountPackets, Busy, Primitives
<1>7. CASE Read(t) \/ CountBytes(t)
  <2>1. "add" \in Owner /\ "write" \in Owner /\ "count" \in Owner /\ "packets" \in Owner
      BY DEF Owner, Busy, Primitives
  <2> QED
      BY <1>7, <2>1, MovesOwn DEF Read, CountBytes
<1>8. CASE ReadClock(t)
  <2>1. "meter" \in Busy /\ "meter" \in Owner /\ "tokens" \in Owner
      BY DEF Owner, Busy, Primitives
  <2>2. CASE NextPrimitive(t)
      BY <1>8, <2>1, <2>2, NextPrimitiveOwn DEF ReadClock
  <2>3. CASE Goto(t, "tokens")
      BY <1>8, <2>1, <2>3, MovesOwn DEF ReadClock
  <2> QED
      BY <1>8, <2>2, <2>3 DEF ReadClock
<1>9. CASE Tokens(t)
  <2>1. "tokens" \in Busy
      BY DEF Busy
  <2>2. CASE NextPrimitive(t)
      BY <1>9, <2>1, <2>2, NextPrimitiveOwn DEF Tokens
  <2>3. CASE UNCHANGED pc
      BY <1>9, <2>3, StillOwn DEF Tokens
  <2> QED
      BY <1>9, <2>2, <2>3 DEF Tokens
<1> QED
    BY <1>1, <1>2, <1>3, <1>4, <1>5, <1>6, <1>7, <1>8, <1>9 DEF ThreadStep

LEMMA OwnInitial == Init => OwnInv
BY DEF Init, OwnInv, OwnTypes, Noticed, FlagSet, FlagKept, Owner, Busy, Primitives

\* What the calls of the controller and the clock leave alone.
LEMMA OutsideActions ==
    ASSUME \/ Tick \/ CallStep \/ \E r \in Arrays : register_write(r)
           \/ \E config \in NewRates : set_rates(config)
           \/ \E steps \in Steps : StartCall(steps)
    PROVE  UNCHANGED <<threadvars, owns, shared, aborted>> /\ aborted = "no"
BY DEF Tick, CallStep, reset_rates, WriteCounter, reset_registers, register_write, set_rates,
       StartCall, regvars, history, Alive

LEMMA OwnStep == RegInv /\ OwnInv /\ [Next]_vars => OwnInv'
<1> SUFFICES ASSUME RegInv, OwnInv, [Next]_vars
             PROVE  OwnInv'
    OBVIOUS
<1>1. ASSUME NEW t \in Threads, (\E a \in DOMAIN Code : Execute(t, a)) \/ ThreadStep(t)
      PROVE  OwnInv'
    BY <1>1, ExecuteOwn, FlagsOwn, InnerOwn
<1>2. CASE UNCHANGED <<threadvars, owns, shared>>
    BY <1>2, StillOwn DEF threadvars
<1> QED
    BY <1>1, <1>2, OutsideActions DEF Next, vars, regvars, history

-----------------------------------------------------------------------------
\* The temporaries of the arguments.
TempTypes ==
    /\ temps \in [Threads -> [size : Nat, capacity : Nat, alloc : Nat]]
    /\ DOMAIN pend = Threads /\ DOMAIN refs = Threads
    /\ \A t \in Threads : temps[t].capacity >= 4

\* The primitive has two expressions, and one of them may be outside the first four places.
MayMove(t) ==
    /\ Cardinality(Expressions(t)) >= 2
    /\ \E j \in Expressions(t) : Offset(act[t], prim[t], j) >= 4

Referring(t) ==
    pc[t] = "args" =>
        /\ pend[t] \subseteq Expressions(t)
        /\ refs[t] # {} => Expressions(t) \ pend[t] # {}
        /\ ~(refs[t] \subseteq {temps[t].alloc}) => MayMove(t)

TempInv == TempTypes /\ \A t \in Threads : Referring(t)

LEMMA OffsetNat ==
    ASSUME NEW a, NEW i \in Nat, NEW j
    PROVE  Offset(a, i, j) \in Nat
<1> DEFINE S == (1 .. i) \X (1 .. 4)
           T == {x \in S : LET args == Code[a][x[1]].args
                           IN  /\ x[2] \in DOMAIN args /\ args[x[2]].tag = "EXPRESSION"
                               /\ x[1] < i \/ x[2] <= j}
<1>0. 1 \in Int /\ 4 \in Int /\ i \in Int
    OBVIOUS
<1>1. IsFiniteSet(1 .. i) /\ IsFiniteSet(1 .. 4)
    BY <1>0, FS_Interval, Zenon
<1>2. IsFiniteSet(S)
    BY <1>1, FS_Product
<1>3. T \subseteq S
    OBVIOUS
<1>4. Offset(a, i, j) = Cardinality(T)
    BY DEF Offset
<1> HIDE DEF S, T
<1> QED
    BY <1>2, <1>3, <1>4, FS_Subset, FS_CardinalityType

LEMMA TwoElements ==
    ASSUME NEW S, IsFiniteSet(S), NEW x \in S, NEW y \in S, x # y
    PROVE  Cardinality(S) >= 2
<1>1. Cardinality(S) \in Nat /\ Cardinality(S) # 0
    BY FS_CardinalityType, FS_EmptySet
<1>2. Cardinality(S) # 1
    BY FS_Singleton
<1> QED
    BY <1>1, <1>2

\* Other threads than t keep what they refer to.
LEMMA ReferringKept ==
    ASSUME TempInv, NEW u \in Threads, pc'[u] = pc[u], act'[u] = act[u], prim'[u] = prim[u],
           pend'[u] = pend[u], refs'[u] = refs[u], temps'[u] = temps[u]
    PROVE  Referring(u)'
<1>1. Primitive(u)' = Primitive(u)
    BY DEF Primitive
<1>2. Expressions(u)' = Expressions(u)
    BY <1>1 DEF Expressions
<1>3. MayMove(u)' = MayMove(u)
    BY <1>2 DEF MayMove
<1> QED
    BY <1>2, <1>3 DEF TempInv, Referring

LEMMA StillTemp ==
    ASSUME TempInv, UNCHANGED threadvars
    PROVE  TempInv'
<1>1. \A u \in Threads : Referring(u)'
    BY ReferringKept DEF threadvars
<1> QED
    BY <1>1 DEF threadvars, TempInv, TempTypes

LEMMA BeginTemp ==
    ASSUME RegInv, TempInv, NEW t \in Threads, NEW i \in Nat, Begin(t, i), UNCHANGED <<act, temps>>
    PROVE  TempInv'
<1>0. DOMAIN pc = Threads /\ DOMAIN prim = Threads /\ DOMAIN pend = Threads /\ DOMAIN refs = Threads
    BY DEF RegInv, ThreadTypes, TempInv, TempTypes
<1>1. TempTypes'
    BY <1>0 DEF Begin, TempInv, TempTypes
<1>2. ASSUME NEW u \in Threads, u # t
      PROVE  Referring(u)'
    BY <1>0, <1>2, ReferringKept DEF Begin, Goto
<1>3. Referring(t)'
  <2>1. CASE i > Len(Code[act[t]])
      BY <1>0, <2>1 DEF Begin, Goto, Referring
  <2>2. CASE ~(i > Len(Code[act[t]]))
    <3>1. refs'[t] = {} /\ pend'[t] = Expressions(t)'
        BY <1>0, <2>2 DEF Begin, Expressions, Primitive
    <3> QED
        BY <3>1 DEF Referring
  <2> QED
      BY <2>1, <2>2
<1> QED
    BY <1>1, <1>2, <1>3 DEF TempInv

\* A thread that is not at the arguments, or leaves them.
LEMMA LeavesTemp ==
    ASSUME RegInv, TempInv, NEW t \in Threads, NEW l, l # "args", pc' = [pc EXCEPT ![t] = l],
           \A u \in Threads \ {t} : act'[u] = act[u] /\ prim'[u] = prim[u],
           UNCHANGED <<pend, refs, temps>>
    PROVE  TempInv'
<1>1. DOMAIN pc = Threads
    BY DEF RegInv, ThreadTypes
<1>2. ASSUME NEW u \in Threads, u # t
      PROVE  Referring(u)'
    BY <1>1, <1>2, ReferringKept
<1>3. Referring(t)'
    BY <1>1 DEF Referring
<1> QED
    BY <1>2, <1>3 DEF TempInv, TempTypes

LEMMA EvalTemp ==
    ASSUME RegInv, TempInv, NEW t \in Threads, NEW j \in pend[t], EvalArgument(t, j)
    PROVE  TempInv'
<1> DEFINE o == Offset(act[t], prim[t], j)
           v == temps[t]
           w == Grown(v, o)
<1>1. /\ temps' = [temps EXCEPT ![t] = w] /\ pc[t] = "args"
      /\ refs' = [refs EXCEPT ![t] = @ \cup {temps'[t].alloc}]
      /\ pend' = [pend EXCEPT ![t] = @ \ {j}]
      /\ UNCHANGED <<pc, act, prim>>
    BY DEF EvalArgument
<1>2. /\ DOMAIN temps = Threads /\ DOMAIN refs = Threads /\ DOMAIN pend = Threads
      /\ v \in [size : Nat, capacity : Nat, alloc : Nat] /\ v.capacity >= 4
    BY DEF TempInv, TempTypes
<1>3. o \in Nat
    BY OffsetNat DEF RegInv, ThreadTypes
<1>4. /\ w \in [size : Nat, capacity : Nat, alloc : Nat] /\ w.capacity >= 4
      /\ w.alloc # v.alloc => o >= 4
  <2> HIDE DEF o, v
  <2> QED
      BY <1>2, <1>3 DEF Grown
<1>5. /\ temps'[t] = w /\ refs'[t] = refs[t] \cup {w.alloc} /\ pend'[t] = pend[t] \ {j}
    BY <1>1, <1>2
<1>6. TempTypes'
  <2> HIDE DEF w
  <2> QED
      BY <1>1, <1>2, <1>4 DEF TempInv, TempTypes
<1>7. ASSUME NEW u \in Threads, u # t
      PROVE  Referring(u)'
    BY <1>1, <1>2, <1>7, ReferringKept
<1>8. Expressions(t)' = Expressions(t) /\ MayMove(t)' = MayMove(t)
    BY <1>1 DEF Expressions, Primitive, MayMove
<1>9. j \in Expressions(t) /\ pend[t] \subseteq Expressions(t)
    BY <1>1 DEF TempInv, Referring
<1>10. ASSUME ~(refs'[t] \subseteq {w.alloc})
       PROVE  MayMove(t)
  <2>1. refs[t] # {}
      BY <1>5, <1>10
  <2>2. CASE w.alloc = v.alloc
    <3>1. ~(refs[t] \subseteq {v.alloc})
        BY <1>5, <1>10, <2>2
    <3> QED
        BY <1>1, <3>1 DEF TempInv, Referring
  <2>3. CASE w.alloc # v.alloc
    <3>1. o >= 4
        BY <1>4, <2>3
    <3>2. PICK k \in Expressions(t) : k \notin pend[t]
        BY <1>1, <2>1 DEF TempInv, Referring
    <3>3. act[t] \in DOMAIN Code /\ prim[t] \in DOMAIN Code[act[t]]
        BY <1>1, ActInCode DEF RegInv, Running, Busy
    <3>4. Primitive(t).args \in Seq(Parameter)
        BY <3>3, CodeTypes DEF Primitive
    <3>5. IsFiniteSet(Expressions(t))
      <4>1. DOMAIN Primitive(t).args = 1 .. Len(Primitive(t).args) /\ Len(Primitive(t).args) \in Nat
          BY <3>4
      <4>2. IsFiniteSet(1 .. Len(Primitive(t).args))
          BY <4>1, FS_Interval
      <4> QED
          BY <4>1, <4>2, FS_Subset DEF Expressions
    <3>6. Cardinality(Expressions(t)) >= 2
        BY <1>9, <3>2, <3>5, TwoElements
    <3> QED
        BY <1>9, <3>1, <3>6 DEF MayMove
  <2> QED
      BY <2>2, <2>3
<1>11. Referring(t)'
    BY <1>5, <1>8, <1>9, <1>10 DEF Referring
<1> QED
    BY <1>6, <1>7, <1>11 DEF TempInv

LEMMA TempInitial == Init => TempInv
BY DEF Init, TempInv, TempTypes, Referring

LEMMA TempStep == RegInv /\ TempInv /\ [Next]_vars => TempInv'
<1> SUFFICES ASSUME RegInv, TempInv, [Next]_vars
             PROVE  TempInv'
    OBVIOUS
<1> USE DEF Goto
<1>0. DOMAIN act = Threads /\ DOMAIN prim = Threads /\ DOMAIN pc = Threads
    BY DEF RegInv, ThreadTypes
<1>1. ASSUME NEW t \in Threads, NEW a \in DOMAIN Code, Execute(t, a)
      PROVE  TempInv'
    BY <1>0, <1>1, LeavesTemp DEF Execute
<1>2. ASSUME NEW t \in Threads, ThreadStep(t)
      PROVE  TempInv'
  <2>1. prim[t] + 1 \in Nat
      BY DEF RegInv, ThreadTypes
  <2>2. CASE UNCHANGED threadvars
      BY <2>2, StillTemp
  <2>3. CASE lock_registers(t)
      BY <2>2, <2>3, LeavesTemp DEF lock_registers, threadvars
  <2>4. CASE Acquire(t) \/ Disown(t)
      BY <1>0, <2>4, LeavesTemp DEF Acquire, Disown
  <2>5. CASE unlock_registers(t)
      BY <2>2, <2>5, LeavesTemp DEF unlock_registers, threadvars
  <2>6. CASE Own(t)
      BY <2>6, BeginTemp DEF Own
  <2>7. CASE \E j \in pend[t] : EvalArgument(t, j)
      BY <2>7, EvalTemp
  <2>8. CASE Call(t)
    <3>1. act[t] \in DOMAIN Code /\ prim[t] \in DOMAIN Code[act[t]]
        BY <2>8, ActInCode DEF Call, RegInv, Running, Busy
    <3>2. Primitive(t).name # "args"
        BY <3>1, CodeTypes DEF Primitive, Primitives
    <3> QED
        BY <2>2, <2>8, <3>2, LeavesTemp DEF Call, threadvars
  <2>9. CASE Packet(t) \/ Write(t) \/ CountPackets(t)
      BY <2>1, <2>9, BeginTemp DEF Packet, Write, CountPackets, NextPrimitive
  <2>10. CASE Read(t) \/ CountBytes(t)
      BY <2>10, LeavesTemp DEF Read, CountBytes
  <2>11. CASE ReadClock(t)
    <3>1. CASE NextPrimitive(t)
        BY <2>1, <2>11, <3>1, BeginTemp DEF ReadClock, NextPrimitive
    <3>2. CASE Goto(t, "tokens") /\ UNCHANGED <<prim, pend, refs>>
        BY <2>11, <3>2, LeavesTemp DEF ReadClock
    <3> QED
        BY <2>11, <3>1, <3>2 DEF ReadClock
  <2>12. CASE Tokens(t)
    <3>1. CASE NextPrimitive(t)
        BY <2>1, <2>12, <3>1, BeginTemp DEF Tokens, NextPrimitive
    <3>2. CASE UNCHANGED <<pc, prim, pend, refs>>
        BY <2>2, <2>12, <3>2 DEF Tokens, threadvars
    <3> QED
        BY <2>12, <3>1, <3>2 DEF Tokens
  <2> QED
      BY <1>2, <2>3, <2>4, <2>5, <2>6, <2>7, <2>8, <2>9, <2>10, <2>11, <2>12 DEF ThreadStep
<1>3. CASE UNCHANGED threadvars
    BY <1>3, StillTemp
<1> QED
    BY <1>1, <1>2, <1>3, OutsideActions DEF Next, vars

-----------------------------------------------------------------------------
\* The three ways to end.
LEMMA LockAbort ==
    ASSUME RegInv, OwnInv, NEW t \in Threads, pc[t] \in {"lock", "unlock"},
           pc[t] = "lock" => owns[act[t]],
           pc[t] = "unlock" => ~owns[act[t]] /\ register_sync(act[t]) # {}
    PROVE  act[t] \in shared
<1>0. act[t] \in DOMAIN Code /\ act[t] # "none"
    BY ActInCode, StatefulAssumption
<1>1. CASE pc[t] = "lock"
  <2>1. PICK u \in Threads : act[u] = act[t] /\ pc[u] \in Owner \cup {"disown"}
      BY <1>0, <1>1 DEF OwnInv, FlagSet
  <2>2. u # t
      BY <1>1, <2>1 DEF Owner, Busy, Primitives
  <2> QED
      BY <1>0, <2>1, <2>2 DEF OwnInv, Noticed
<1>2. CASE pc[t] = "unlock"
    BY <1>2 DEF OwnInv, FlagKept, Owner
<1> QED
    BY <1>1, <1>2

LEMMA ClockAbort ==
    ASSUME MeterInv, NEW t \in Threads, NEW k \in DOMAIN rates,
           now[t] * rates[k].rate < rates[k].last
    PROVE  rates[k].last > 0 /\ now[t] < clock
<1>1. PICK r \in RateType : r = rates[k] /\ RateSound(r)
    BY DEF MeterInv, MeterTypes
<1>2. /\ r.rate \in Nat /\ r.last \in Nat /\ now[t] \in Nat /\ now[t] <= clock /\ clock \in Nat
      /\ r.last <= r.rate * clock
    BY <1>1 DEF RateType, MeterInv, MeterTypes, RateSound
<1>3. now[t] * r.rate \in Nat /\ now[t] * r.rate = r.rate * now[t]
    BY <1>2
<1>4. r.last > 0
    BY <1>1, <1>2, <1>3
<1>5. now[t] # clock
    BY <1>1, <1>2, <1>3
<1> QED
    BY <1>1, <1>2, <1>4, <1>5

AbortInv == RegInv /\ OwnInv /\ TempInv /\ MeterInv /\ AbortsHaveCause

\* A step that does not end the process.
LEMMA AliveStep ==
    ASSUME aborted' = "no"
    PROVE  AbortsHaveCause'
BY DEF AbortsHaveCause

LEMMA ThreadAborts ==
    ASSUME AbortInv, NEW t \in Threads, ThreadStep(t), aborted' # "no"
    PROVE  AbortsHaveCause'
<1> USE DEF AbortInv
<1>0. aborted = "no"
    BY DEF ThreadStep, lock_registers, Acquire, Own, unlock_registers, Disown, EvalArgument, Call,
           Packet, Read, Write, ReadClock, Tokens, CountBytes, CountPackets, Alive
<1>1. CASE lock_registers(t)
  <2>1. aborted' = "lock" /\ act[t] \in shared /\ UNCHANGED <<act, shared>>
      BY <1>0, <1>1, LockAbort DEF lock_registers, history
  <2> QED
      BY <2>1 DEF AbortsHaveCause
<1>2. CASE unlock_registers(t)
  <2>1. aborted' = "unlock" /\ act[t] \in shared /\ UNCHANGED <<act, shared>>
      BY <1>0, <1>2, LockAbort DEF unlock_registers, history
  <2> QED
      BY <2>1 DEF AbortsHaveCause
<1>5. CASE Call(t) /\ aborted' = "index"
  <2>1. Indexed(t) /\ pc[t] = "args" /\ UNCHANGED <<pc, act, prim>>
      BY <1>0, <1>5 DEF Call
  <2>2. Indexed(t)' = Indexed(t)
      BY <2>1 DEF Indexed, Touched, Primitive
  <2> QED
      BY <1>5, <2>1, <2>2 DEF AbortsHaveCause
<1>3. CASE Call(t) /\ aborted' # "index"
  <2>1. /\ aborted' = "dangling" /\ pc[t] = "args" /\ ~(refs[t] \subseteq {temps[t].alloc})
        /\ UNCHANGED <<act, prim>>
      BY <1>0, <1>3 DEF Call
  <2>2. MayMove(t) /\ act[t] # "none"
      BY <2>1, ActInCode, StatefulAssumption DEF TempInv, Referring
  <2>3. Expressions(t)' = Expressions(t) /\ MayMove(t)' = MayMove(t)
      BY <2>1 DEF Expressions, Primitive, MayMove
  <2> QED
      BY <2>1, <2>2, <2>3 DEF AbortsHaveCause, MayMove
<1>4. CASE Tokens(t)
  <2>1. /\ aborted' = "clock" /\ pc[t] = "tokens" /\ UNCHANGED <<pc, rates, now, clock>>
        /\ \E k \in DOMAIN rates : now[t] * rates[k].rate < rates[k].last
      BY <1>0, <1>4 DEF Tokens
  <2>2. \E k \in DOMAIN rates : rates[k].last > 0 /\ now[t] < clock
      BY <2>1, ClockAbort
  <2> QED
      BY <2>1, <2>2 DEF AbortsHaveCause
<1> QED
    BY <1>0, <1>1, <1>2, <1>3, <1>4, <1>5 DEF ThreadStep, Acquire, Own, Disown, EvalArgument, Packet, Read,
       Write, ReadClock, CountBytes, CountPackets

(* The process ends in an action only where the code lets it: two threads     *)
(* share the unique_locks of an action's RegisterSync; an argument was moved  *)
(* by a later one of the same primitive, which takes two expressions and one  *)
(* of them beyond the first places of data_temps; two threads passed the      *)
(* meter's mutex in another order than they read the clock; or an index into  *)
(* an array is out of range.                                                  *)
THEOREM AbortsAlwaysHaveCause == Spec => []AbortsHaveCause
<1>1. Init => AbortInv
    BY RegInitial, OwnInitial, TempInitial, MeterInitial DEF AbortInv, Init, AbortsHaveCause
<1>2. AbortInv /\ [Next]_vars => AbortInv'
  <2> SUFFICES ASSUME AbortInv, [Next]_vars
               PROVE  AbortInv'
      OBVIOUS
  <2>1. RegInv' /\ OwnInv' /\ TempInv' /\ MeterInv'
      BY RegStep, OwnStep, TempStep, MeterStep DEF AbortInv
  <2>2. AbortsHaveCause'
    <3>1. ASSUME NEW t \in Threads, ThreadStep(t)
          PROVE  AbortsHaveCause'
        BY <3>1, ThreadAborts, AliveStep
    <3>2. ASSUME NEW t \in Threads, NEW a \in DOMAIN Code, Execute(t, a)
          PROVE  AbortsHaveCause'
        BY <3>2, AliveStep DEF Execute, Alive
    <3>3. CASE UNCHANGED vars
      <4>1. UNCHANGED <<act, prim, pc, now, aborted, shared, rates, clock>>
          BY <3>3 DEF vars, threadvars, metervars, history
      <4>2. \A t \in Threads : Expressions(t)' = Expressions(t) /\ Indexed(t)' = Indexed(t)
          BY <4>1 DEF Expressions, Indexed, Touched, Primitive
      <4> QED
          BY <4>1, <4>2 DEF AbortInv, AbortsHaveCause
    <3> QED
        BY <3>1, <3>2, <3>3, OutsideActions, AliveStep DEF Next
  <2> QED
      BY <2>1, <2>2 DEF AbortInv
<1>3. AbortInv => AbortsHaveCause
    BY DEF AbortInv
<1> QED
    BY <1>1, <1>2, <1>3, PTL DEF Spec

=============================================================================
