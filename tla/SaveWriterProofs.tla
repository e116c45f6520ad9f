--------------------------- MODULE SaveWriterProofs ---------------------------
(***************************************************************************)
(* The coalescing writer loses no update and implements DurableRegister's  *)
(* safety part, whether or not writes fail and the process dies.           *)
(***************************************************************************)
EXTENDS SaveWriter, TLAPS

\* The inductive invariant holds initially.
LEMMA InitIInv == Init => IInv
<1> SUFFICES ASSUME Init PROVE IInv
  OBVIOUS
<1> USE DEF Init
<1>1. TypeOK
  BY DEF TypeOK, None
<1>2. WriterComes
  BY DEF WriterComes
<1>3. InOrder
  BY DEF InOrder, None
<1>4. Newest
  BY DEF Newest
<1> QED BY <1>1, <1>2, <1>3, <1>4 DEF IInv

\* The inductive invariant is preserved by every step.
LEMMA StepIInv == IInv /\ [Next]_vars => IInv'
<1> SUFFICES ASSUME IInv, [Next]_vars PROVE IInv'
  OBVIOUS
<1> USE DEF IInv, TypeOK, WriterComes, InOrder, Newest, None
<1>1. CASE Mutate
  BY <1>1 DEF Mutate
<1>2. CASE Publish
  BY <1>2 DEF Publish
<1>3. CASE Wake
  BY <1>3 DEF Wake
<1>4. CASE Receive
  BY <1>4 DEF Receive
<1>5. CASE Grab
  BY <1>5 DEF Grab
<1>6. CASE Write
  BY <1>6 DEF Write
<1>7. CASE Crash
  <2>1. TypeOK'
    BY <1>7 DEF Crash
  <2>2. WriterComes' /\ InOrder' /\ Newest'
    BY <1>7 DEF Crash
  <2> QED BY <2>1, <2>2
<1>8. CASE UNCHANGED vars
  BY <1>8 DEF vars
<1> QED BY <1>1, <1>2, <1>3, <1>4, <1>5, <1>6, <1>7, <1>8 DEF Next

\* Every queued snapshot has a wake-up or a writer on its way to it, and the
\* newest value is in the queue, in the writer's hands or in the file.
THEOREM Invariance == Spec => []IInv
<1> QED BY InitIInv, StepIInv, PTL DEF Spec

\* The queue, the wake-ups and the file hold what they are meant to, for any
\* number of updates.
THEOREM WellTyped == Spec => []TypeOK
<1>1. IInv => TypeOK
  BY DEF IInv
<1> QED BY <1>1, Invariance, PTL

\* At rest the file holds the last update unless writing it failed.
THEOREM NoUpdateStranded == Spec => []NothingStranded
<1>1. IInv => NothingStranded
  BY DEF IInv, TypeOK, WriterComes, Newest, NothingStranded, None
<1> QED BY <1>1, Invariance, PTL

\* The file never goes back to an older value.
THEOREM NeverBackwards == Spec => DiskForward
<1>1. IInv /\ [Next]_vars => [disk' >= disk]_vars
  BY DEF IInv, TypeOK, InOrder, Next, Mutate, Publish, Wake, Receive, Grab, Write, Crash, vars
<1> QED BY <1>1, Invariance, PTL DEF Spec, DiskForward

\* Every step of the writer and its setters is a step of the register or a
\* stutter.
THEOREM Refinement == Spec => RegisterSafety
<1>1. Init => Register!Init
  BY DEF Init, Register!Init
<1>2. IInv /\ [Next]_vars => [Register!Next]_(Register!vars)
  <2> SUFFICES ASSUME IInv, [Next]_vars PROVE [Register!Next]_(Register!vars)
    OBVIOUS
  <2> USE DEF Register!Next, Register!Set, Register!Flush, Register!Crash, Register!vars
  <2>1. CASE Mutate
    BY <2>1 DEF Mutate
  <2>2. CASE Publish \/ Wake \/ Receive \/ Grab
    BY <2>2 DEF Publish, Wake, Receive, Grab
  <2>3. CASE Write
    <3>1. data # None /\ disk <= data /\ data <= mem /\ data \in Nat /\ disk \in Nat /\ mem \in Nat
      BY <2>3 DEF Write, IInv, TypeOK, InOrder
    <3> QED BY <2>3, <3>1 DEF Write
  <2>4. CASE Crash
    BY <2>4 DEF Crash
  <2>5. CASE UNCHANGED vars
    BY <2>5 DEF vars
  <2> QED BY <2>1, <2>2, <2>3, <2>4, <2>5 DEF Next
<1> QED BY <1>1, <1>2, Invariance, PTL DEF Spec, RegisterSafety, Register!Spec
=============================================================================
